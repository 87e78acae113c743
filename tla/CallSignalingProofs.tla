------------------------ MODULE CallSignalingProofs ------------------------
(***************************************************************************)
(* Theorems about CallSignaling, for every value of its constants: types,  *)
(* the inductive invariant CallInv, that no ringing call is left without   *)
(* its timer, and the refinement of CallLife.                              *)
(***************************************************************************)
EXTENDS CallSignaling, TLAPS

-----------------------------------------------------------------------------
(* The inductive invariant                                                 *)

Settled == {"connected"} \cup Terminal

\* Where a handler is before the row exists, about to write a row, and past ringing.
Starting == {"callerBusy", "calleeBusy", "insert"}
Writing == {"acceptSave", "finalSave", "hookSave", "patchSave", "logCommit"}
PastRinging ==
  {"statusGet", "statusSet", "sendTokens", "clear", "logRead", "logCommit", "patchLog", "hookSave",
   "patchSave"}

\* What a handler carries, measured against the row as it is now.
HandlerSound(t) ==
  /\ t.pc # "idle" => t.c \in asked
  /\ t.pc \in Starting => session[t.c].status = "none"
  /\ t.pc \in {"marks", "ring"} => session[t.c].status # "none"
  /\ t.pc \in Writing => t.row.status \in Settled /\ session[t.c].status # "none"
  /\ t.pc \in PastRinging => session[t.c].status \in Settled

HandlersSound == \A p \in Handler : HandlerSound(th[p])

\* Nobody else acts on a call whose row does not exist.
StartsAlone ==
  \A p, q \in Handler :
    th[p].pc \in Starting /\ th[q].pc # "idle" /\ th[q].c = th[p].c => q = p

RowsWereAsked == \A c \in Call : session[c].status # "none" => c \in asked

TokensAfterRinging == \A c \in tokens : session[c].status \in Settled

CallInv ==
  TypeOK /\ HandlersSound /\ StartsAlone /\ RowsWereAsked /\ TokensAfterRinging /\ RingCovered

-----------------------------------------------------------------------------
(* Types                                                                   *)

HandlerState == [pc : Label, c : Call \cup {NoCall}, row : Row]

\* The constant rows and the columns a handler changes.
LEMMA RowTypes ==
  /\ NoRow \in Row /\ Ringing \in Row
  /\ NoRow.status = "none" /\ Ringing.status = "ringing"
  /\ \A r \in Row, s \in Status :
       [r EXCEPT !.status = s] \in Row /\ [r EXCEPT !.status = s].status = s
  /\ \A r \in Row, s \in Status, b \in BOOLEAN :
       /\ [r EXCEPT !.status = s, !.final = b] \in Row
       /\ [r EXCEPT !.status = s, !.final = b].status = s
  /\ \A r \in Row : [r EXCEPT !.final = TRUE] \in Row /\ [r EXCEPT !.final = TRUE].status = r.status
  /\ \A r \in Row, n \in Nat : [r EXCEPT !.log = n] \in Row /\ [r EXCEPT !.log = n].status = r.status
<1>1. NoRow \in Row /\ NoRow.status = "none"
  BY DEF NoRow, Row, Status
<1>2. ASSUME NEW r \in Row, NEW s \in Status
      PROVE  [r EXCEPT !.status = s] \in Row /\ [r EXCEPT !.status = s].status = s
  BY DEF Row
<1>3. ASSUME NEW r \in Row, NEW s \in Status, NEW b \in BOOLEAN
      PROVE  /\ [r EXCEPT !.status = s, !.final = b] \in Row
             /\ [r EXCEPT !.status = s, !.final = b].status = s
  BY DEF Row
<1>4. ASSUME NEW r \in Row
      PROVE  [r EXCEPT !.final = TRUE] \in Row /\ [r EXCEPT !.final = TRUE].status = r.status
  BY DEF Row
<1>5. ASSUME NEW r \in Row, NEW n \in Nat
      PROVE  [r EXCEPT !.log = n] \in Row /\ [r EXCEPT !.log = n].status = r.status
  BY DEF Row
<1>6. "ringing" \in Status
  BY DEF Status
<1>7. Ringing \in Row /\ Ringing.status = "ringing"
  BY <1>1, <1>2, <1>6 DEF Ringing
<1> QED
  BY <1>1, <1>2, <1>3, <1>4, <1>5, <1>7

\* An element that is replaced leaves a sequence a sequence of its length.
LEMMA ReplaceType ==
  ASSUME NEW S, NEW s \in Seq(S), NEW n \in Nat, NEW v, n \in 1 .. Len(s) => v \in S
  PROVE  [s EXCEPT ![n] = v] \in Seq(S) /\ Len([s EXCEPT ![n] = v]) = Len(s)
<1>1. CASE n \in 1 .. Len(s)
  BY <1>1
<1>2. CASE n \notin 1 .. Len(s)
  <2>1. DOMAIN s = 1 .. Len(s) /\ s = [i \in DOMAIN s |-> s[i]]
    OBVIOUS
  <2>2. [s EXCEPT ![n] = v] = s
    BY <1>2, <2>1
  <2> QED
    BY <2>2
<1> QED
  BY <1>1, <1>2

Entry == [status : Status, final : BOOLEAN]

\* So does an entry of the log that is patched.
LEMMA PatchType ==
  ASSUME NEW s \in Seq(Entry), NEW n \in Nat
  PROVE  /\ [s EXCEPT ![n].final = TRUE] \in Seq(Entry)
         /\ Len([s EXCEPT ![n].final = TRUE]) = Len(s)
<1> DEFINE v == [s[n] EXCEPT !.final = TRUE]
<1>1. \A e \in Entry : [e EXCEPT !.final = TRUE] \in Entry
  BY Zenon DEF Entry
<1>2. n \in 1 .. Len(s) => s[n] \in Entry
  OBVIOUS
<1>3. n \in 1 .. Len(s) => v \in Entry
  BY <1>1, <1>2, Zenon
<1>4. [s EXCEPT ![n].final = TRUE] = [s EXCEPT ![n] = v]
  BY Zenon
<1> HIDE DEF v
<1> QED
  BY <1>3, <1>4, ReplaceType

\* TypeOK with the records of handlers and entries named.
Types ==
  /\ session \in [Call -> Row]
  /\ logs \in [Call -> Seq(Entry)]
  /\ mark \in [User -> Call \cup {NoCall, EarlierCall}]
  /\ keys \subseteq Call
  /\ timers \subseteq Call
  /\ asked \subseteq Call
  /\ tokens \subseteq Call
  /\ hooks \in [Call -> SUBSET HookEvent]
  /\ th \in [Handler -> HandlerState]
  /\ faults \in 0 .. MaxFaults

\* The type invariant under a name that stays folded in the larger leaves.
LEMMA TypesNamed == (TypeOK <=> Types) /\ (TypeOK' <=> Types')
  BY Zenon DEF TypeOK, Types, Entry, HandlerState

\* What a handler's record is made of.
LEMMA HandlerTypes ==
  /\ \A t \in HandlerState : t.pc \in Label /\ t.c \in Call \cup {NoCall} /\ t.row \in Row
  /\ \A l \in Label, c \in Call \cup {NoCall}, r \in Row :
       [pc |-> l, c |-> c, row |-> r] \in HandlerState
  /\ Idle \in HandlerState /\ Idle.pc = "idle"
  BY RowTypes DEF HandlerState, Idle, Label

-----------------------------------------------------------------------------
(* How a handler moves                                                     *)

\* Handler p is at label l with call c and row r, the others are where they were.
Moves(p, l, c, r) ==
  /\ th' \in [Handler -> HandlerState]
  /\ th'[p].pc = l /\ th'[p].c = c /\ th'[p].row = r
  /\ \A q \in Handler \ {p} : th'[q] = th[q]

\* Going to a label changes the record of p alone.
LEMMA GotoMoves ==
  ASSUME Types, NEW p \in Handler, NEW l \in Label, Goto(p, l)
  PROVE  Moves(p, l, th[p].c, th[p].row)
  BY DEF Types, Goto, Moves, HandlerState

\* A handler that ends leaves p idle and the other handlers where they are.
LEMMA FinishMoves ==
  ASSUME Types, NEW p \in Handler, Finish(p)
  PROVE  Moves(p, "idle", NoCall, NoRow)
  BY HandlerTypes DEF Types, Finish, Moves, Idle

\* A handler begins at p with its call and row.
LEMMA BeginMoves ==
  ASSUME Types, NEW p \in Handler, NEW l \in Label, NEW c \in Call, NEW r \in Row,
         Begin(p, l, c, r)
  PROVE  Moves(p, l, c, r) /\ th[p].pc = "idle"
  BY HandlerTypes DEF Types, Begin, Moves

\* Saving changes the row of one call.
LEMMA SaveRow ==
  ASSUME Types, NEW c \in Call, NEW r \in Row, Save(c, r)
  PROVE  /\ session' \in [Call -> Row]
         /\ \A d \in Call : session'[d] = IF d = c THEN r ELSE session[d]
  BY DEF Types, Save

-----------------------------------------------------------------------------
(* What a step of one handler must leave true                              *)

\* A row never goes back to none or to ringing.
RowsAdvance ==
  \A c \in Call :
    /\ session[c].status # "none" => session'[c].status # "none"
    /\ session[c].status \in Settled => session'[c].status \in Settled

\* Handler p changes the row of its own call only, and comes only to calls that
\* no other handler is starting.
OwnCall(p) ==
  /\ \A c \in Call : session'[c].status # session[c].status => c = th[p].c /\ th[p].pc # "idle"
  /\ th'[p].pc # "idle" => \/ th[p].pc # "idle" /\ th'[p].c = th[p].c
                           \/ session[th'[p].c].status # "none"
                           \/ th'[p].c \notin asked
  /\ th'[p].pc \in Starting /\ th[p].pc # "idle" => th[p].pc \in Starting

\* A step of p that keeps types, soundness of p, and what the others rely on keeps the
\* whole invariant but for RingCovered.
LEMMA StepKeeps ==
  ASSUME CallInv, Types', NEW p \in Handler,
         \A q \in Handler \ {p} : th'[q] = th[q],
         asked \subseteq asked',
         RowsAdvance, OwnCall(p), HandlerSound(th[p])',
         \A c \in tokens' \ tokens : session'[c].status \in Settled
  PROVE  HandlersSound' /\ StartsAlone' /\ RowsWereAsked' /\ TokensAfterRinging'
<1> USE DEF CallInv
<1>t. Types
  BY TypesNamed
<1>a. asked \subseteq Call /\ tokens \subseteq Call /\ asked' \subseteq Call
  BY <1>t DEF Types
<1>1. ASSUME NEW q \in Handler \ {p} PROVE HandlerSound(th[q])'
  <2>1. HandlerSound(th[q]) /\ th'[q] = th[q]
    BY DEF HandlersSound
  <2>2. CASE th[q].pc = "idle"
    BY <2>1, <2>2 DEF HandlerSound, Starting, Writing, PastRinging
  <2>3. CASE th[q].pc # "idle"
    <3>1. th[q].c \in Call /\ th[q].c \in asked
      BY <2>1, <2>3, <1>a DEF HandlerSound
    <3>2. th[q].pc \in Starting => session'[th[q].c].status = "none"
      BY <2>1, <3>1 DEF HandlerSound, OwnCall, StartsAlone
    <3> QED
      BY <2>1, <3>1, <3>2 DEF HandlerSound, RowsAdvance
  <2> QED
    BY <2>2, <2>3
<1>2. HandlersSound'
  BY <1>1 DEF HandlersSound
<1>3. ASSUME NEW q \in Handler, NEW s \in Handler,
             th'[q].pc \in Starting, th'[s].pc # "idle", th'[s].c = th'[q].c
      PROVE  s = q
  <2>1. th'[q].c \in Call /\ session'[th'[q].c].status = "none" /\ th'[q].pc # "idle"
    BY <1>2, <1>3, <1>a DEF HandlersSound, HandlerSound, Starting
  <2>2. session[th'[q].c].status = "none"
    BY <2>1 DEF RowsAdvance
  <2>3. CASE q # p /\ s # p
    BY <1>3, <2>3 DEF StartsAlone
  <2>4. CASE q # p /\ s = p
    <3>1. th'[q] = th[q] /\ th[q].c \in asked
      BY <2>4, <1>3, <2>1 DEF HandlersSound, HandlerSound
    <3>2. th[p].pc # "idle" /\ th[p].c = th[q].c
      BY <2>4, <1>3, <2>2, <3>1 DEF OwnCall
    <3> QED
      BY <3>1, <3>2, <1>3, <2>4 DEF StartsAlone
  <2>5. CASE q = p /\ s # p
    <3>1. th'[s] = th[s] /\ th[s].c \in asked
      BY <2>5, <1>3 DEF HandlersSound, HandlerSound
    <3>2. th[p].pc # "idle" /\ th[p].c = th[s].c
      BY <2>1, <2>5, <1>3, <2>2, <3>1 DEF OwnCall
    <3>3. th[p].pc \in Starting
      BY <3>2, <1>3, <2>5 DEF OwnCall
    <3> QED
      BY <3>1, <3>2, <3>3, <1>3, <2>5 DEF StartsAlone
  <2> QED
    BY <2>3, <2>4, <2>5
<1>4. StartsAlone'
  BY <1>3 DEF StartsAlone
<1>5. RowsWereAsked'
  BY <1>a DEF RowsWereAsked, OwnCall, HandlersSound, HandlerSound
<1>6. TokensAfterRinging'
  BY <1>a DEF TokensAfterRinging, RowsAdvance
<1> QED
  BY <1>2, <1>4, <1>5, <1>6

\* Handler t will schedule the ring timer of c or end its ringing.
Covers(t, c) == t.c = c /\ t.pc \in {"marks", "ring", "acceptSave", "finalSave"}

\* Handler p leaves no ringing call without a timer.
StaysCovered(p) ==
  \A c \in Call :
    session'[c].status = "ringing" =>
      \/ c \in timers' \/ Covers(th'[p], c)
      \/ session[c].status = "ringing" /\ c \notin timers /\ ~Covers(th[p], c)

\* A step that keeps what p alone may change of the cover keeps RingCovered.
LEMMA RingKeeps ==
  ASSUME CallInv, NEW p \in Handler, \A q \in Handler \ {p} : th'[q] = th[q],
         faults' = 0 => faults = 0 /\ StaysCovered(p)
  PROVE  RingCovered'
  BY DEF CallInv, RingCovered, InFlight, StaysCovered, Covers

\* A step of p in the terms of the two lemmas above.
LEMMA MoveKeeps ==
  ASSUME CallInv, Types', NEW p \in Handler, NEW l, NEW c, NEW r, Moves(p, l, c, r),
         asked \subseteq asked', faults' = faults,
         RowsAdvance, OwnCall(p), HandlerSound(th[p])', StaysCovered(p),
         \A d \in tokens' \ tokens : session'[d].status \in Settled
  PROVE  CallInv'
<1>1. \A q \in Handler \ {p} : th'[q] = th[q]
  BY DEF Moves
<1>2. HandlersSound' /\ StartsAlone' /\ RowsWereAsked' /\ TokensAfterRinging'
  BY <1>1, StepKeeps
<1>3. RingCovered'
  BY <1>1, RingKeeps
<1> QED
  BY <1>2, <1>3, TypesNamed DEF CallInv

\* What is known of the handler that acts.
LEMMA Acting ==
  ASSUME CallInv, NEW p \in Handler
  PROVE  /\ Types /\ HandlerSound(th[p]) /\ th[p].row \in Row
         /\ th[p].pc # "idle" => th[p].c \in Call /\ th[p].c \in asked
  BY TypesNamed, HandlerTypes DEF CallInv, HandlersSound, HandlerSound, Types

\* A step that changes only where p is, past the same call, or ends it.
LEMMA PassKeeps ==
  ASSUME CallInv, Types', NEW p \in Handler, NEW l \in Label, NEW c, NEW r, Moves(p, l, c, r),
         l = "idle" \/ (th[p].pc # "idle" /\ c = th[p].c),
         session' = session, asked' = asked, faults' = faults,
         l \in Starting => th[p].pc \in Starting,
         HandlerSound(th[p])',
         \A d \in timers : d \in timers',
         th[p].pc \in {"marks", "ring", "acceptSave", "finalSave"} =>
           l = "ring" \/ th[p].c \in timers',
         \A d \in tokens' \ tokens : session[d].status \in Settled
  PROVE  CallInv'
<1>1. RowsAdvance
  BY DEF RowsAdvance
<1>2. OwnCall(p)
  BY DEF OwnCall, Moves, Starting
<1>3. StaysCovered(p)
  BY DEF StaysCovered, Covers, Moves
<1> QED
  BY <1>1, <1>2, <1>3, MoveKeeps

\* A handler that ends without touching the rows.
LEMMA FinishKeeps ==
  ASSUME CallInv, Types', NEW p \in Handler, Finish(p),
         session' = session, asked' = asked, faults' = faults,
         \A d \in timers : d \in timers',
         th[p].pc \in {"marks", "ring", "acceptSave", "finalSave"} => th[p].c \in timers',
         \A d \in tokens' \ tokens : session[d].status \in Settled
  PROVE  CallInv'
<1>1. Moves(p, "idle", NoCall, NoRow)
  BY Acting, FinishMoves
<1>2. HandlerSound(th[p])'
  BY <1>1 DEF HandlerSound, Moves, Starting, Writing, PastRinging
<1>3. RowsAdvance /\ OwnCall(p)
  BY <1>1 DEF RowsAdvance, OwnCall, Moves, Starting
<1>4. StaysCovered(p)
  BY DEF StaysCovered, Covers
<1> QED
  BY <1>1, <1>2, <1>3, <1>4, MoveKeeps

\* A handler that begins with a row it will write.
LEMMA BeginKeeps ==
  ASSUME CallInv, Types', NEW p \in Handler, NEW l \in Writing, NEW c \in Call, NEW r \in Row,
         Begin(p, l, c, r), r.status \in Settled, session[c].status # "none",
         l \in PastRinging => session[c].status \in Settled,
         session' = session, asked' = asked, faults' = faults, tokens' = tokens,
         \A d \in timers : d \in timers' \/ (d = c /\ l \in {"acceptSave", "finalSave"})
  PROVE  CallInv'
<1>1. Moves(p, l, c, r) /\ th[p].pc = "idle"
  BY Acting, BeginMoves DEF Writing, Label
<1>2. c \in asked /\ l \notin Starting
  BY DEF CallInv, RowsWereAsked, Writing, Starting
<1>3. HandlerSound(th[p])'
  BY <1>1, <1>2 DEF HandlerSound, Moves, Writing
<1>4. RowsAdvance /\ OwnCall(p)
  BY <1>1, <1>2 DEF RowsAdvance, OwnCall, Moves
<1>5. StaysCovered(p)
  BY <1>1 DEF StaysCovered, Covers, Moves
<1> QED
  BY <1>1, <1>3, <1>4, <1>5, MoveKeeps

\* A handler that saves a row past ringing, and ends or goes on past ringing.
LEMMA SaveKeeps ==
  ASSUME CallInv, Types', NEW p \in Handler, NEW l, NEW c, NEW r, Moves(p, l, c, r),
         NEW row \in Row, Save(th[p].c, row), th[p].pc \in Writing, row.status \in Settled,
         \/ th'[p].pc = "idle"
         \/ th'[p].pc \in {"statusGet", "clear", "patchLog"} /\ th'[p].c = th[p].c,
         asked' = asked, faults' = faults, timers' = timers, tokens' = tokens
  PROVE  CallInv'
<1>1. th[p].c \in Call /\ th[p].c \in asked /\ th[p].pc # "idle"
  BY Acting DEF Writing
<1>2. \A d \in Call : session'[d] = IF d = th[p].c THEN row ELSE session[d]
  BY <1>1, Acting, SaveRow
<1>3. HandlerSound(th[p])'
  BY <1>1, <1>2 DEF HandlerSound, Moves, Starting, Writing, PastRinging
<1>4. RowsAdvance /\ OwnCall(p)
  <2>1. "none" \notin Settled
    BY DEF Settled, Terminal
  <2> QED
    BY <1>1, <1>2, <2>1 DEF RowsAdvance, OwnCall, Moves, Starting
<1>5. StaysCovered(p)
  <2>1. "ringing" \notin Settled
    BY DEF Settled, Terminal
  <2> QED
    BY <1>2, <2>1 DEF StaysCovered, Covers
<1> QED
  BY <1>1, <1>3, <1>4, <1>5, MoveKeeps

-----------------------------------------------------------------------------
(* Every step keeps the invariant                                          *)

\* call.initiate up to the insert.
LEMMA InitiateKeeps ==
  ASSUME CallInv, NEW p \in Handler, NEW c \in Call, Initiate(p, c)
  PROVE  CallInv'
<1>t. Types
  BY Acting
<1>1. Moves(p, "callerBusy", c, NoRow) /\ th[p].pc = "idle"
  BY <1>t, BeginMoves, RowTypes DEF Initiate, Label
<1>2. Types'
  BY <1>t, <1>1 DEF Initiate, Types, Moves, callVars, redisVars
<1>3. RowsAdvance /\ OwnCall(p)
  BY <1>1 DEF Initiate, RowsAdvance, OwnCall, Moves, callVars
<1>4. HandlerSound(th[p])'
  BY <1>1 DEF CallInv, RowsWereAsked, HandlerSound, Moves, Initiate, Starting, Writing,
     PastRinging, callVars
<1>5. StaysCovered(p)
  BY <1>1 DEF StaysCovered, Covers, Moves, Initiate, callVars
<1> QED
  BY <1>1, <1>2, <1>3, <1>4, <1>5, MoveKeeps DEF Initiate

\* The two reads of activeCall before the insert.
LEMMA BusyCheckKeeps ==
  ASSUME CallInv, NEW p \in Handler, CheckCallerBusy(p) \/ CheckCalleeBusy(p)
  PROVE  CallInv'
<1>t. Types /\ HandlerSound(th[p])
  BY Acting
<1>u. UNCHANGED <<session, logs, mark, keys, timers, asked, tokens, hooks, faults>>
  BY DEF CheckCallerBusy, CheckCalleeBusy, callVars, redisVars
<1>p. th[p].pc \in {"callerBusy", "calleeBusy"}
  BY DEF CheckCallerBusy, CheckCalleeBusy
<1>1. ASSUME NEW l \in {"calleeBusy", "insert"}, Goto(p, l) PROVE CallInv'
  <2>1. Moves(p, l, th[p].c, th[p].row)
    BY <1>t, <1>1, GotoMoves DEF Label
  <2>2. Types'
    BY <1>t, <1>u, <2>1 DEF Types, Moves
  <2>3. HandlerSound(th[p])'
    BY <1>t, <1>u, <1>p, <2>1 DEF HandlerSound, Moves, Starting, Writing, PastRinging
  <2> QED
    <3>1. l \in Label /\ (l \in Starting => th[p].pc \in Starting)
      BY <1>p DEF Label, Starting
    <3>2. session' = session /\ asked' = asked /\ faults' = faults /\ timers' = timers /\ tokens' \ tokens = {}
      BY <1>u
    <3> QED
      BY <1>p, <2>1, <2>2, <2>3, <3>1, <3>2, PassKeeps
<1>2. ASSUME Finish(p) PROVE CallInv'
  <2>1. Types'
    BY <1>t, <1>u, <1>2, FinishMoves DEF Types, Moves
  <2>2. session' = session /\ asked' = asked /\ faults' = faults /\ timers' = timers
        /\ tokens' \ tokens = {}
    BY <1>u
  <2> QED
    BY <1>2, <1>p, <2>1, <2>2, FinishKeeps
<1> QED
  BY <1>1, <1>2 DEF CheckCallerBusy, CheckCalleeBusy

\* The row, its marks and its timer.
LEMMA InsertKeeps ==
  ASSUME CallInv, NEW p \in Handler, InsertSession(p)
  PROVE  CallInv'
<1>t. /\ Types /\ HandlerSound(th[p]) /\ th[p].c \in Call /\ th[p].c \in asked
      /\ th[p].pc = "insert"
  BY Acting DEF InsertSession
<1>u. UNCHANGED <<logs, mark, keys, timers, asked, tokens, hooks, faults>>
  BY DEF InsertSession, redisVars
<1>1. Moves(p, "marks", th[p].c, th[p].row)
  BY <1>t, GotoMoves DEF InsertSession, Label
<1>2. /\ session' \in [Call -> Row]
      /\ \A d \in Call : session'[d] = IF d = th[p].c THEN Ringing ELSE session[d]
  BY <1>t, RowTypes DEF InsertSession, Save, Types
<1>3. Types'
  BY <1>t, <1>u, <1>1, <1>2 DEF Types, Moves
<1>4. session[th[p].c].status = "none"
  BY <1>t DEF HandlerSound, Starting
<1>5. HandlerSound(th[p])'
  BY <1>t, <1>u, <1>1, <1>2, RowTypes DEF HandlerSound, Moves, Starting, Writing, PastRinging
<1>6. RowsAdvance
  <2>1. "none" \notin Settled
    BY DEF Settled, Terminal
  <2> QED
    BY <1>t, <1>2, <1>4, <2>1, Zenon DEF RowsAdvance
<1>7. OwnCall(p)
  BY <1>t, <1>1, <1>2 DEF OwnCall, Moves, Starting
<1>8. StaysCovered(p)
  BY <1>1, <1>2, <1>t, <1>u DEF StaysCovered, Covers, Moves
<1> QED
  BY <1>u, <1>1, <1>3, <1>5, <1>6, <1>7, <1>8, MoveKeeps

\* Setting the marks of caller and callee.
LEMMA MarksKeep ==
  ASSUME CallInv, NEW p \in Handler, SetActiveCall(p)
  PROVE  CallInv'
<1>t. /\ Types /\ HandlerSound(th[p]) /\ th[p].c \in Call /\ th[p].c \in asked
      /\ th[p].pc = "marks"
  BY Acting DEF SetActiveCall
<1>u. UNCHANGED <<session, logs, timers, asked, tokens, hooks, faults>>
  BY DEF SetActiveCall, callVars
<1>1. Moves(p, "ring", th[p].c, th[p].row)
  BY <1>t, GotoMoves DEF SetActiveCall, Label
<1>2. keys' \subseteq Call /\ mark' \in [User -> Call \cup {NoCall, EarlierCall}]
  BY <1>t DEF SetActiveCall, Types
<1>3. Types'
  BY <1>t, <1>u, <1>1, <1>2 DEF Types, Moves
<1>4. HandlerSound(th[p])'
  BY <1>t, <1>u, <1>1 DEF HandlerSound, Moves, Starting, Writing, PastRinging
<1>5. "ring" \in Label /\ "ring" \notin Starting
  BY DEF Label, Starting
<1>6. session' = session /\ asked' = asked /\ faults' = faults /\ timers' = timers
      /\ tokens' \ tokens = {}
  BY <1>u
<1> QED
  BY <1>t, <1>1, <1>3, <1>4, <1>5, <1>6, PassKeeps

\* Starting the ring timer covers the call.
LEMMA ScheduleKeeps ==
  ASSUME CallInv, NEW p \in Handler, ScheduleRingTimeout(p)
  PROVE  CallInv'
<1>t. Types /\ th[p].c \in Call /\ th[p].pc = "ring"
  BY Acting DEF ScheduleRingTimeout
<1>u. UNCHANGED <<session, logs, mark, keys, asked, tokens, hooks, faults>>
  BY DEF ScheduleRingTimeout, callVars, redisVars
<1>1. Types'
  BY <1>t, <1>u, FinishMoves DEF Types, Moves, ScheduleRingTimeout
<1>2. (\A d \in timers : d \in timers') /\ th[p].c \in timers' /\ tokens' \ tokens = {}
  BY <1>u DEF ScheduleRingTimeout
<1> QED
  BY <1>u, <1>1, <1>2, FinishKeeps DEF ScheduleRingTimeout

\* What finalizing as a terminal status carries.
LEMMA FinalizeBegins ==
  ASSUME Types, NEW p \in Handler, NEW c \in Call, NEW status \in Terminal,
         Finalize(p, c, status)
  PROVE  \E r \in Row : r.status = status /\ Begin(p, "finalSave", c, r)
<1> DEFINE r == [session[c] EXCEPT !.status = status, !.final = (status # "completed")]
<1>1. status \in Status /\ (status # "completed") \in BOOLEAN /\ session[c] \in Row
  BY DEF Status, Types
<1>2. r \in Row /\ r.status = status
  BY <1>1 DEF Row
<1>3. Begin(p, "finalSave", c, r)
  BY DEF Finalize
<1> HIDE DEF r
<1> QED
  BY <1>2, <1>3

\* Answering, refusing, ending and timing out: the timer goes and a row past ringing
\* is to be saved.
LEMMA AnswerKeeps ==
  ASSUME CallInv, NEW p \in Handler, NEW c \in Call, NEW u \in User,
         Accept(p, c, u) \/ Reject(p, c, u) \/ EndCall(p, c, u) \/ RingTimeout(p, c)
  PROVE  CallInv'
<1>t. Types
  BY Acting
<1>u. /\ UNCHANGED <<session, logs, mark, keys, asked, tokens, hooks, faults>>
      /\ timers' = timers \ {c}
  BY DEF Accept, Reject, EndCall, RingTimeout, callVars, redisVars
<1>v. session' = session /\ asked' = asked /\ faults' = faults /\ tokens' = tokens
      /\ tokens' \ tokens = {}
  BY <1>u
<1>w. timers' \subseteq Call /\ \A d \in timers : d \in timers' \/ d = c
  BY <1>t, <1>u DEF Types
<1>1. ASSUME NEW l \in {"acceptSave", "finalSave"}, NEW r \in Row, Begin(p, l, c, r),
             r.status \in Settled, session[c].status # "none"
      PROVE  CallInv'
  <2>1. l \in Label /\ l \in Writing /\ l \notin PastRinging
    BY DEF Label, Writing, PastRinging
  <2>2. Moves(p, l, c, r)
    BY <1>t, <1>1, <2>1, BeginMoves
  <2>3. Types'
    BY <1>t, <1>u, <1>w, <2>2 DEF Types, Moves
  <2> QED
    BY <1>1, <1>v, <1>w, <2>1, <2>3, BeginKeeps
<1>2. CASE Accept(p, c, u)
  <2>1. session[c] \in Row /\ "connected" \in Status /\ "connected" \in Settled
    BY <1>t DEF Types, Status, Settled
  <2>2. PICK r \in Row : r.status = "connected" /\ Begin(p, "acceptSave", c, r)
    <3> DEFINE s == [session[c] EXCEPT !.status = "connected"]
    <3>1. s \in Row /\ s.status = "connected"
      BY <2>1 DEF Row
    <3>2. Begin(p, "acceptSave", c, s)
      BY <1>2 DEF Accept
    <3> HIDE DEF s
    <3> QED
      BY <3>1, <3>2
  <2> QED
    BY <1>1, <1>2, <2>1, <2>2 DEF Accept
<1>3. ASSUME NEW status \in Terminal, Finalize(p, c, status), session[c].status # "none"
      PROVE  CallInv'
  <2>1. PICK r \in Row : r.status = status /\ Begin(p, "finalSave", c, r)
    BY <1>t, <1>3, FinalizeBegins
  <2> QED
    BY <1>1, <1>3, <2>1 DEF Settled
<1>4. CASE Reject(p, c, u)
  BY <1>3, <1>4 DEF Reject, Terminal
<1>5. CASE EndCall(p, c, u)
  <2>1. EndStatus(c, u) \in Terminal
    BY DEF EndStatus, Terminal
  <2> QED
    BY <1>3, <1>5, <2>1 DEF EndCall
<1>6. CASE RingTimeout(p, c)
  <2>1. CASE session[c].status = "ringing"
    BY <1>3, <1>6, <2>1 DEF RingTimeout, Terminal
  <2>2. CASE session[c].status # "ringing"
    <3>1. th' = th /\ th[p].pc = "idle"
      BY <1>6, <2>2 DEF RingTimeout
    <3>2. Types'
      BY <1>t, <1>u, <1>w, <3>1 DEF Types
    <3>3. RowsAdvance /\ OwnCall(p) /\ HandlerSound(th[p])'
      BY <1>v, <3>1 DEF RowsAdvance, OwnCall, HandlerSound, Starting, Writing, PastRinging
    <3>4. StaysCovered(p)
      BY <1>v, <1>w, <2>2, <3>1 DEF StaysCovered, Covers
    <3>5. HandlersSound' /\ StartsAlone' /\ RowsWereAsked' /\ TokensAfterRinging'
      BY <1>v, <3>1, <3>2, <3>3, StepKeeps
    <3>6. RingCovered'
      BY <1>v, <3>1, <3>4, RingKeeps
    <3> QED
      BY <3>2, <3>5, <3>6, TypesNamed DEF CallInv
  <2> QED
    BY <2>1, <2>2
<1> QED
  BY <1>2, <1>4, <1>5, <1>6

\* The four saves of a row that was read earlier, and where each goes on.
LEMMA SaveAndGoKeeps ==
  ASSUME CallInv, NEW p \in Handler, AcceptSave(p) \/ FinalSave(p) \/ PatchSave(p) \/ HookSave(p)
  PROVE  CallInv'
<1>p. th[p].pc \in Writing
  BY DEF AcceptSave, FinalSave, PatchSave, HookSave, Writing
<1>t. /\ Types /\ th[p].row \in Row /\ th[p].c \in Call /\ th[p].row.status \in Settled
  BY <1>p, Acting DEF HandlerSound, Writing
<1>u. /\ UNCHANGED <<logs, mark, keys, timers, asked, tokens, hooks, faults>>
      /\ Save(th[p].c, th[p].row)
  BY DEF AcceptSave, FinalSave, PatchSave, HookSave, redisVars
<1>1. session' \in [Call -> Row]
  BY <1>t, <1>u DEF Save, Types
<1>2. asked' = asked /\ faults' = faults /\ timers' = timers /\ tokens' = tokens
  BY <1>u
<1>3. ASSUME NEW l, NEW c, NEW r, Moves(p, l, c, r),
             \/ th'[p].pc = "idle"
             \/ th'[p].pc \in {"statusGet", "clear", "patchLog"} /\ th'[p].c = th[p].c
      PROVE  CallInv'
  <2>1. Types'
    BY <1>t, <1>u, <1>1, <1>3 DEF Types, Moves
  <2> QED
    BY <1>p, <1>t, <1>u, <1>2, <1>3, <2>1, SaveKeeps
<1>4. CASE HookSave(p)
  <2>1. Moves(p, "idle", NoCall, NoRow)
    BY <1>t, <1>4, FinishMoves DEF HookSave
  <2>2. th'[p].pc = "idle"
    BY <2>1 DEF Moves
  <2> QED
    BY <1>3, <2>1, <2>2
<1>5. ASSUME NEW l \in {"statusGet", "clear", "patchLog"}, Goto(p, l) PROVE CallInv'
  <2>1. Moves(p, l, th[p].c, th[p].row)
    BY <1>t, <1>5, GotoMoves DEF Label
  <2>2. th'[p].pc = l /\ th'[p].c = th[p].c
    BY <2>1 DEF Moves
  <2> QED
    BY <1>3, <2>1, <2>2
<1> QED
  BY <1>4, <1>5 DEF AcceptSave, FinalSave, PatchSave

\* Getting and setting the session key of a call past ringing.
LEMMA StatusKeeps ==
  ASSUME CallInv, NEW p \in Handler, StatusGet(p) \/ StatusSet(p)
  PROVE  CallInv'
<1>t. /\ Types /\ th[p].c \in Call /\ th[p].pc \in {"statusGet", "statusSet"}
      /\ HandlerSound(th[p])
  BY Acting DEF StatusGet, StatusSet
<1>u. /\ UNCHANGED <<session, logs, mark, timers, asked, tokens, hooks, faults>>
      /\ keys' = keys \/ keys' = keys \cup {th[p].c}
  BY DEF StatusGet, StatusSet, callVars, redisVars
<1>v. session' = session /\ asked' = asked /\ faults' = faults /\ timers' = timers
      /\ tokens' \ tokens = {}
  BY <1>u
<1>1. PICK l \in {"statusSet", "sendTokens"} : Goto(p, l)
  BY DEF StatusGet, StatusSet
<1>2. l \in Label /\ l \notin Starting
  BY DEF Label, Starting
<1>3. Moves(p, l, th[p].c, th[p].row)
  BY <1>t, <1>1, <1>2, GotoMoves
<1>4. Types'
  BY <1>t, <1>u, <1>3 DEF Types, Moves
<1>5. HandlerSound(th[p])'
  BY <1>t, <1>v, <1>3 DEF HandlerSound, Moves, Starting, Writing, PastRinging
<1> QED
  BY <1>t, <1>v, <1>2, <1>3, <1>4, <1>5, PassKeeps

\* Sending the tokens of a call past ringing.
LEMMA TokensKeep ==
  ASSUME CallInv, NEW p \in Handler, SendTokens(p)
  PROVE  CallInv'
<1>t. /\ Types /\ th[p].c \in Call /\ th[p].pc = "sendTokens"
      /\ session[th[p].c].status \in Settled
  BY Acting DEF SendTokens, HandlerSound, PastRinging
<1>u. /\ UNCHANGED <<session, logs, mark, keys, timers, asked, hooks, faults>>
      /\ tokens' = tokens \cup {th[p].c}
  BY DEF SendTokens, callVars, redisVars
<1>1. Types'
  BY <1>t, <1>u, FinishMoves DEF Types, Moves, SendTokens
<1>2. session' = session /\ asked' = asked /\ faults' = faults /\ timers' = timers
      /\ \A d \in tokens' \ tokens : session[d].status \in Settled
  BY <1>t, <1>u
<1> QED
  BY <1>t, <1>1, <1>2, FinishKeeps DEF SendTokens

\* Deleting the marks.
LEMMA ClearKeeps ==
  ASSUME CallInv, NEW p \in Handler, ClearActiveCall(p)
  PROVE  CallInv'
<1>t. /\ Types /\ th[p].c \in Call /\ th[p].pc = "clear" /\ HandlerSound(th[p])
  BY Acting DEF ClearActiveCall
<1>u. UNCHANGED <<session, logs, timers, asked, tokens, hooks, faults>>
  BY DEF ClearActiveCall, callVars
<1>k. keys' \subseteq Call /\ mark' \in [User -> Call \cup {NoCall, EarlierCall}]
  BY <1>t DEF ClearActiveCall, Types
<1>v. session' = session /\ asked' = asked /\ faults' = faults /\ timers' = timers
      /\ tokens' \ tokens = {}
  BY <1>u
<1>1. CASE Finish(p)
  <2>1. Types'
    BY <1>t, <1>u, <1>k, <1>1, FinishMoves DEF Types, Moves
  <2> QED
    BY <1>t, <1>v, <1>1, <2>1, FinishKeeps
<1>2. CASE Goto(p, "logRead")
  <2>0. "logRead" \in Label /\ "logRead" \notin Starting
    BY DEF Label, Starting
  <2>1. Moves(p, "logRead", th[p].c, th[p].row)
    BY <1>t, <1>2, <2>0, GotoMoves
  <2>2. Types'
    BY <1>t, <1>u, <1>k, <2>1 DEF Types, Moves
  <2>3. HandlerSound(th[p])'
    BY <1>t, <1>v, <2>1 DEF HandlerSound, Moves, Starting, Writing, PastRinging
  <2> QED
    BY <1>t, <1>v, <2>0, <2>1, <2>2, <2>3, PassKeeps
<1> QED
  BY <1>1, <1>2 DEF ClearActiveCall

\* CallLogService reads the row before it logs the call.
LEMMA LogReadKeeps ==
  ASSUME CallInv, NEW p \in Handler, LogRead(p)
  PROVE  CallInv'
<1>t. /\ Types /\ th[p].c \in Call /\ th[p].pc = "logRead" /\ HandlerSound(th[p])
  BY Acting DEF LogRead
<1>u. UNCHANGED <<session, logs, mark, keys, timers, asked, tokens, hooks, faults>>
  BY DEF LogRead, callVars, redisVars
<1>v. session' = session /\ asked' = asked /\ faults' = faults /\ timers' = timers
      /\ tokens' \ tokens = {}
  BY <1>u
<1>1. CASE Finish(p)
  <2>1. Types'
    BY <1>t, <1>u, <1>1, FinishMoves DEF Types, Moves
  <2> QED
    BY <1>t, <1>v, <1>1, <2>1, FinishKeeps
<1>2. CASE th' = [th EXCEPT ![p].pc = "logCommit", ![p].row = session[th[p].c]]
  <2>0. "logCommit" \in Label /\ "logCommit" \notin Starting /\ session[th[p].c] \in Row
    BY <1>t DEF Label, Starting, Types
  <2>1. Moves(p, "logCommit", th[p].c, session[th[p].c])
    BY <1>t, <1>2, <2>0 DEF Moves, Types, HandlerState
  <2>2. Types'
    BY <1>t, <1>u, <2>1 DEF Types, Moves
  <2>3. session[th[p].c].status \in Settled
    BY <1>t DEF HandlerSound, PastRinging
  <2>4. HandlerSound(th[p])'
    <3>1. session[th[p].c].status # "none"
      BY <2>3 DEF Settled, Terminal
    <3> QED
      BY <1>t, <1>v, <2>1, <2>3, <3>1 DEF HandlerSound, Moves, Starting, Writing, PastRinging
  <2> QED
    BY <1>t, <1>v, <2>0, <2>1, <2>2, <2>4, PassKeeps
<1> QED
  BY <1>1, <1>2 DEF LogRead

\* It commits the entry and the row that points to it.
LEMMA LogCommitKeeps ==
  ASSUME CallInv, NEW p \in Handler, LogCommit(p)
  PROVE  CallInv'
<1>p. th[p].pc = "logCommit" /\ "logCommit" \in Writing
  BY DEF LogCommit, Writing
<1>t. /\ Types /\ th[p].row \in Row /\ th[p].c \in Call /\ th[p].row.status \in Settled
  BY <1>p, Acting DEF HandlerSound
<1>u. UNCHANGED <<mark, keys, timers, asked, tokens, hooks, faults>>
  BY DEF LogCommit, redisVars
<1>1. Moves(p, "idle", NoCall, NoRow)
  BY <1>t, FinishMoves DEF LogCommit
<1>2. logs[th[p].c] \in Seq(Entry) /\ Len(logs[th[p].c]) + 1 \in Nat
  BY <1>t DEF Types
<1> DEFINE row == [th[p].row EXCEPT !.log = Len(logs[th[p].c]) + 1]
<1>3. row \in Row /\ row.status = th[p].row.status /\ Save(th[p].c, row)
  BY <1>t, <1>2, RowTypes, Zenon DEF LogCommit
<1> HIDE DEF row
<1>4. session' \in [Call -> Row]
  BY <1>t, <1>3 DEF Save, Types
<1>5. logs' \in [Call -> Seq(Entry)]
  <2>1. [status |-> th[p].row.status, final |-> th[p].row.final] \in Entry
    BY <1>t DEF Row, Entry
  <2> QED
    BY <1>t, <1>2, <2>1 DEF LogCommit, Types
<1>6. Types'
  BY <1>t, <1>u, <1>1, <1>4, <1>5 DEF Types, Moves
<1>7. asked' = asked /\ faults' = faults /\ timers' = timers /\ tokens' = tokens
  BY <1>u
<1>8. th'[p].pc = "idle"
  BY <1>1 DEF Moves
<1> QED
  BY <1>p, <1>t, <1>1, <1>3, <1>6, <1>7, <1>8, SaveKeeps

\* A webhook patches the log entry of a call.
LEMMA PatchLogKeeps ==
  ASSUME CallInv, NEW p \in Handler, PatchLog(p)
  PROVE  CallInv'
<1>t. Types /\ th[p].row \in Row /\ th[p].c \in Call /\ th[p].pc = "patchLog"
  BY Acting DEF PatchLog
<1>u. UNCHANGED <<session, mark, keys, timers, asked, tokens, hooks, faults>>
  BY DEF PatchLog, redisVars
<1>v. session' = session /\ asked' = asked /\ faults' = faults /\ timers' = timers
      /\ tokens' \ tokens = {}
  BY <1>u
<1>1. logs[th[p].c] \in Seq(Entry) /\ th[p].row.log \in Nat
  BY <1>t DEF Types, Row
<1>2. [logs[th[p].c] EXCEPT ![th[p].row.log].final = TRUE] \in Seq(Entry)
  BY <1>1, PatchType
<1> DEFINE patched == [logs[th[p].c] EXCEPT ![th[p].row.log].final = TRUE]
<1>3. logs' = [logs EXCEPT ![th[p].c] = patched]
  BY Zenon DEF PatchLog
<1>4. patched \in Seq(Entry)
  BY <1>2
<1> HIDE DEF patched
<1>5. logs' \in [Call -> Seq(Entry)]
  BY <1>t, <1>3, <1>4 DEF Types
<1>6. th' \in [Handler -> HandlerState]
  <2>1. Finish(p)
    BY DEF PatchLog
  <2> QED
    BY <1>t, <2>1, FinishMoves DEF Moves
<1>7. Types'
  BY <1>t, <1>u, <1>5, <1>6 DEF Types
<1> QED
  BY <1>t, <1>v, <1>7, FinishKeeps DEF PatchLog

\* A webhook comes for a call that is past ringing.
LEMMA WebhookKeeps ==
  ASSUME CallInv, NEW p \in Handler, NEW c \in Call, NEW e \in HookEvent, Webhook(p, c, e)
  PROVE  CallInv'
<1>t. Types /\ c \in tokens /\ session[c].status \in Settled /\ session[c] \in Row
  BY Acting DEF Webhook, CallInv, TokensAfterRinging, Types
<1>u. UNCHANGED <<session, logs, mark, keys, timers, asked, tokens, faults>>
  BY DEF Webhook, callVars, redisVars
<1>v. session' = session /\ asked' = asked /\ faults' = faults /\ timers' = timers
      /\ tokens' = tokens
  BY <1>u
<1>h. hooks' \in [Call -> SUBSET HookEvent]
  BY <1>t DEF Webhook, Types
<1>n. session[c].status # "none"
  BY <1>t DEF Settled, Terminal
<1>1. ASSUME NEW l \in {"hookSave", "patchSave"}, NEW r \in Row, Begin(p, l, c, r),
             r.status \in Settled
      PROVE  CallInv'
  <2>1. l \in Label /\ l \in Writing
    BY DEF Label, Writing
  <2>2. Types'
    BY <1>t, <1>u, <1>h, <1>1, <2>1, BeginMoves DEF Types, Moves
  <2>3. \A d \in timers : d \in timers' \/ (d = c /\ l \in {"acceptSave", "finalSave"})
    BY <1>v
  <2>4. l \in PastRinging => session[c].status \in Settled
    BY <1>t
  <2>5. session' = session /\ asked' = asked /\ faults' = faults
    BY <1>v
  <2>6. tokens' = tokens
    BY <1>v
  <2> QED
    BY <1>1, <1>n, <2>1, <2>2, <2>3, <2>4, <2>5, <2>6, BeginKeeps
<1>2. CASE Begin(p, "hookSave", c, session[c])
  BY <1>1, <1>2, <1>t
<1>3. CASE Begin(p, "patchSave", c, [session[c] EXCEPT !.final = TRUE])
  <2>1. PICK r \in Row : r.status = session[c].status /\ Begin(p, "patchSave", c, r)
    BY <1>3, <1>t, RowTypes, Zenon
  <2> QED
    BY <1>1, <1>t, <2>1
<1>4. CASE th[p].pc = "idle" /\ th' = th
  <2>1. Types'
    BY <1>t, <1>u, <1>h, <1>4 DEF Types
  <2>2. RowsAdvance /\ OwnCall(p) /\ HandlerSound(th[p])' /\ StaysCovered(p)
    BY <1>v, <1>4 DEF RowsAdvance, OwnCall, HandlerSound, StaysCovered, Covers, Starting,
       Writing, PastRinging
  <2>3. HandlersSound' /\ StartsAlone' /\ RowsWereAsked' /\ TokensAfterRinging'
    BY <1>v, <1>4, <2>1, <2>2, StepKeeps
  <2>4. RingCovered'
    BY <1>v, <1>4, <2>2, RingKeeps
  <2> QED
    BY <2>1, <2>3, <2>4, TypesNamed DEF CallInv
<1> QED
  BY <1>2, <1>3, <1>4 DEF Webhook

\* Redis forgets, or a handler or the process dies: the rows stay.
LEMMA FaultKeeps ==
  ASSUME CallInv, Crash \/ \E p \in Handler : HandlerFails(p)
  PROVE  CallInv'
<1>t. Types
  BY TypesNamed DEF CallInv
<1>u. /\ UNCHANGED <<session, logs, mark, keys, asked, tokens, hooks>>
      /\ faults < MaxFaults /\ faults' = faults + 1 /\ timers' \subseteq timers
  BY DEF Crash, HandlerFails, callVars, redisVars
<1>1. th' \in [Handler -> HandlerState] /\ \A q \in Handler : th'[q] = th[q] \/ th'[q] = Idle
  BY <1>t, HandlerTypes DEF Crash, HandlerFails, Finish, Types
<1>2. Types'
  BY <1>t, <1>u, <1>1, BoundsAssumption DEF Types
<1>3. HandlersSound'
  BY <1>u, <1>1, HandlerTypes DEF CallInv, HandlersSound, HandlerSound, Starting, Writing,
     PastRinging
<1>4. StartsAlone'
  BY <1>1, HandlerTypes DEF CallInv, StartsAlone, Starting
<1>5. RowsWereAsked' /\ TokensAfterRinging'
  BY <1>u DEF CallInv, RowsWereAsked, TokensAfterRinging
<1>6. RingCovered'
  BY <1>t, <1>u DEF RingCovered, Types
<1> QED
  BY <1>2, <1>3, <1>4, <1>5, <1>6, TypesNamed DEF CallInv

\* A Redis key expires, or nothing happens.
LEMMA ExpiryKeeps ==
  ASSUME CallInv,
         \/ \E c \in Call : ExpireKey(c)
         \/ \E c \in Call \cup {EarlierCall} : ExpireMarks(c)
         \/ UNCHANGED vars
  PROVE  CallInv'
<1>t. Types
  BY TypesNamed DEF CallInv
<1>u. UNCHANGED <<session, logs, timers, asked, tokens, hooks, th, faults>>
  BY DEF ExpireKey, ExpireMarks, callVars, vars
<1>1. keys' \subseteq Call /\ mark' \in [User -> Call \cup {NoCall, EarlierCall}]
  BY <1>t DEF ExpireKey, ExpireMarks, vars, Types
<1>2. Types'
  BY <1>t, <1>u, <1>1 DEF Types
<1>3. /\ HandlersSound' /\ StartsAlone' /\ RowsWereAsked' /\ TokensAfterRinging'
      /\ RingCovered'
  BY <1>u DEF CallInv, HandlersSound, HandlerSound, StartsAlone, RowsWereAsked,
     TokensAfterRinging, RingCovered, InFlight
<1> QED
  BY <1>2, <1>3, TypesNamed DEF CallInv

\* The timer of a call that has ended goes.
LEMMA EndAgainKeeps ==
  ASSUME CallInv, NEW c \in Call, EndAgain(c)
  PROVE  CallInv'
<1>t. Types
  BY TypesNamed DEF CallInv
<1>u. /\ UNCHANGED <<session, logs, mark, keys, asked, tokens, hooks, th, faults>>
      /\ timers' = timers \ {c} /\ session[c].status # "ringing"
  BY DEF EndAgain, callVars, redisVars, Terminal
<1>1. Types'
  BY <1>t, <1>u DEF Types
<1>2. /\ HandlersSound' /\ StartsAlone' /\ RowsWereAsked' /\ TokensAfterRinging'
      /\ RingCovered'
  BY <1>u DEF CallInv, HandlersSound, HandlerSound, StartsAlone, RowsWereAsked,
     TokensAfterRinging, RingCovered, InFlight
<1> QED
  BY <1>1, <1>2, TypesNamed DEF CallInv

\* Every step keeps the invariant.
LEMMA InvStep ==
  ASSUME CallInv, [Next]_vars
  PROVE  CallInv'
<1>1. ASSUME NEW p \in Handler, Continue(p) PROVE CallInv'
  BY <1>1, BusyCheckKeeps, InsertKeeps, MarksKeep, ScheduleKeeps, SaveAndGoKeeps, StatusKeeps,
     TokensKeep, ClearKeeps, LogReadKeeps, LogCommitKeeps, PatchLogKeeps DEF Continue
<1>2. ASSUME NEW p \in Handler, NEW c \in Call, RingTimeout(p, c) PROVE CallInv'
  <2>1. Callee[c] \in User
    BY PartiesAssumption
  <2> QED
    BY <1>2, <2>1, AnswerKeeps
<1> QED
  BY <1>1, <1>2, InitiateKeeps, AnswerKeeps, WebhookKeeps, EndAgainKeeps, FaultKeeps,
     ExpiryKeeps DEF Next

\* The invariant holds initially.
LEMMA InvInit ==
  ASSUME Init
  PROVE  CallInv
<1> USE DEF Init
<1>1. Types
  <2>1. << >> \in Seq(Entry)
    OBVIOUS
  <2>2. mark \in [User -> Call \cup {NoCall, EarlierCall}]
    OBVIOUS
  <2>3. hooks \in [Call -> SUBSET HookEvent] /\ faults \in 0 .. MaxFaults
    BY BoundsAssumption
  <2>4. session \in [Call -> Row] /\ th \in [Handler -> HandlerState]
    BY RowTypes, HandlerTypes
  <2> QED
    BY <2>1, <2>2, <2>3, <2>4 DEF Types
<1>2. HandlersSound /\ StartsAlone
  BY HandlerTypes DEF HandlersSound, HandlerSound, StartsAlone, Starting, Writing, PastRinging
<1>3. RowsWereAsked /\ TokensAfterRinging /\ RingCovered
  BY RowTypes DEF RowsWereAsked, TokensAfterRinging, RingCovered
<1> QED
  BY <1>1, <1>2, <1>3, TypesNamed DEF CallInv

\* The invariant of the call handlers, the ring timers and the webhooks, whatever
\* the calls, users and handlers are.
THEOREM Invariance == Spec => []CallInv
<1>1. Init => CallInv
  BY InvInit
<1>2. CallInv /\ [Next]_vars => CallInv'
  BY InvStep
<1> QED
  BY <1>1, <1>2, PTL DEF Spec

\* Every variable has its type.
THEOREM TypeCorrect == Spec => []TypeOK
<1>1. CallInv => TypeOK
  BY DEF CallInv
<1> QED
  BY <1>1, Invariance, PTL

\* While nothing has failed, no early return of initiate, accept, reject or end leaves a
\* ringing call that no timer and no handler will end (ringTimeouts of CallService).
THEOREM RingsAreCovered == Spec => []RingCovered
<1>1. CallInv => RingCovered
  BY DEF CallInv
<1> QED
  BY <1>1, Invariance, PTL

-----------------------------------------------------------------------------
(* The refinement of CallLife                                              *)

\* A step that keeps the log and the rows, but for one that it settles.
LEMMA SettleLives ==
  ASSUME CallInv, NEW c \in Call, NEW r \in Row, Save(c, r), r.status \in Settled,
         session[c].status # "none", logs' = logs
  PROVE  Life!LifeNext
<1>1. \A d \in Call : session'[d] = IF d = c THEN r ELSE session[d]
  BY TypesNamed DEF CallInv, Types, Save
<1>2. Life!Settle(c)
  <2> DEFINE status == [d \in Call |-> session[d].status]
             entries == [d \in Call |-> Len(logs[d])]
  <2>1. status' = [status EXCEPT ![c] = r.status] /\ entries' = entries
    BY <1>1
  <2>2. r.status \in Life!Settled /\ status[c] # "none"
    BY DEF Life!Settled, Settled, Terminal
  <2> QED
    BY <2>1, <2>2 DEF Life!Settle
<1> QED
  BY <1>2 DEF Life!LifeNext

\* Logging a call adds one entry, of a call past ringing.
LEMMA LogLives ==
  ASSUME CallInv, NEW p \in Handler, LogCommit(p)
  PROVE  Life!LifeNext
<1>t. /\ Types /\ th[p].row \in Row /\ th[p].c \in Call /\ th[p].row.status \in Settled
      /\ session[th[p].c].status \in Settled
  BY Acting DEF LogCommit, HandlerSound, Writing, PastRinging
<1>1. PICK c \in Call : c = th[p].c
  BY <1>t
<1> DEFINE s == th[p].row.status
<1>2. \A d \in Call : session'[d].status = IF d = c THEN s ELSE session[d].status
  <2>1. Len(logs[c]) + 1 \in Nat
    BY <1>t DEF Types
  <2> DEFINE row == [th[p].row EXCEPT !.log = Len(logs[c]) + 1]
  <2>2. row.status = s /\ Save(c, row)
    BY <1>t, <1>1, <2>1, RowTypes, Zenon DEF LogCommit
  <2> HIDE DEF row
  <2> QED
    BY <1>t, <2>2 DEF Save, Types
<1>3. \A d \in Call : Len(logs'[d]) = IF d = c THEN Len(logs[d]) + 1 ELSE Len(logs[d])
  <2> DEFINE entry == [status |-> s, final |-> th[p].row.final]
  <2>1. logs' = [logs EXCEPT ![c] = Append(@, entry)]
    BY <1>1 DEF LogCommit
  <2>2. logs[c] \in Seq(Entry)
    BY <1>t DEF Types
  <2> HIDE DEF entry
  <2>3. Len(Append(logs[c], entry)) = Len(logs[c]) + 1
    BY <2>2
  <2> QED
    BY <1>t, <2>1, <2>3 DEF Types
<1>4. Life!LogCall(c)
  <2> DEFINE status == [d \in Call |-> session[d].status]
             entries == [d \in Call |-> Len(logs[d])]
  <2>1. status' = [status EXCEPT ![c] = s]
    BY <1>2
  <2>2. entries' = [entries EXCEPT ![c] = @ + 1]
    BY <1>3
  <2>3. s \in Life!Settled /\ status[c] \in Life!Settled
    BY <1>t, <1>1 DEF Life!Settled, Settled, Terminal
  <2> QED
    BY <2>1, <2>2, <2>3 DEF Life!LogCall
<1> QED
  BY <1>4 DEF Life!LifeNext

\* Every step is a step of CallLife or is not seen by it.
LEMMA LifeStep ==
  ASSUME CallInv, [Next]_vars
  PROVE  [Life!LifeNext]_(Life!lifeVars)
<1>1. ASSUME UNCHANGED <<session, logs>> PROVE UNCHANGED Life!lifeVars
  BY <1>1 DEF Life!lifeVars
<1>2. ASSUME NEW p \in Handler, InsertSession(p) PROVE Life!LifeNext
  <2>1. PICK c \in Call : c = th[p].c /\ session[c].status = "none" /\ Types
    BY <1>2, Acting DEF InsertSession, HandlerSound, Starting
  <2>2. /\ logs' = logs
        /\ \A d \in Call : session'[d] = IF d = c THEN Ringing ELSE session[d]
    BY <1>2, <2>1 DEF InsertSession, Save, Types
  <2>3. Life!StartRinging(c)
    <3>1. \A d \in Call : session'[d].status = IF d = c THEN "ringing" ELSE session[d].status
      BY <2>2, RowTypes
    <3> QED
      BY <2>1, <2>2, <3>1 DEF Life!StartRinging
  <2> QED
    BY <2>3 DEF Life!LifeNext
<1>3. ASSUME NEW p \in Handler, AcceptSave(p) \/ FinalSave(p) \/ PatchSave(p) \/ HookSave(p)
      PROVE  Life!LifeNext
  <2>1. th[p].pc \in Writing /\ logs' = logs /\ Save(th[p].c, th[p].row)
    BY <1>3 DEF AcceptSave, FinalSave, PatchSave, HookSave, Writing
  <2>2. /\ th[p].c \in Call /\ th[p].row \in Row /\ th[p].row.status \in Settled
        /\ session[th[p].c].status # "none"
    BY <2>1, Acting DEF HandlerSound, Writing
  <2> QED
    BY <2>1, <2>2, SettleLives
<1>4. ASSUME NEW p \in Handler, PatchLog(p) PROVE UNCHANGED Life!lifeVars
  <2>1. Types /\ th[p].row \in Row /\ th[p].c \in Call
    BY <1>4, Acting DEF PatchLog
  <2>2. logs[th[p].c] \in Seq(Entry) /\ th[p].row.log \in Nat
    BY <2>1 DEF Types, Row
  <2> DEFINE patched == [logs[th[p].c] EXCEPT ![th[p].row.log].final = TRUE]
  <2>3. Len(patched) = Len(logs[th[p].c])
    BY <2>2, PatchType
  <2>4. logs' = [logs EXCEPT ![th[p].c] = patched] /\ session' = session
    BY <1>4, Zenon DEF PatchLog
  <2> HIDE DEF patched
  <2>5. \A d \in Call : Len(logs'[d]) = Len(logs[d])
    BY <2>1, <2>3, <2>4 DEF Types
  <2> QED
    BY <2>4, <2>5 DEF Life!lifeVars
<1>5. ASSUME NEW p \in Handler, Continue(p) PROVE [Life!LifeNext]_(Life!lifeVars)
  <2>1. CASE \/ CheckCallerBusy(p) \/ CheckCalleeBusy(p) \/ SetActiveCall(p)
             \/ ScheduleRingTimeout(p) \/ StatusGet(p) \/ StatusSet(p) \/ SendTokens(p)
             \/ ClearActiveCall(p) \/ LogRead(p)
    BY <1>1, <2>1 DEF CheckCallerBusy, CheckCalleeBusy, SetActiveCall, ScheduleRingTimeout,
       StatusGet, StatusSet, SendTokens, ClearActiveCall, LogRead, callVars
  <2> QED
    BY <1>2, <1>3, <1>4, <1>5, <2>1, LogLives DEF Continue
<1>6. ASSUME \/ Crash \/ UNCHANGED vars
             \/ \E p \in Handler : HandlerFails(p)
             \/ \E c \in Call : EndAgain(c) \/ ExpireKey(c)
             \/ \E c \in Call \cup {EarlierCall} : ExpireMarks(c)
             \/ \E p \in Handler, c \in Call :
                  \/ Initiate(p, c) \/ RingTimeout(p, c)
                  \/ \E u \in User : Accept(p, c, u) \/ Reject(p, c, u) \/ EndCall(p, c, u)
                  \/ \E e \in HookEvent : Webhook(p, c, e)
      PROVE  UNCHANGED Life!lifeVars
  <2>1. UNCHANGED <<session, logs>>
    <3>1. Crash \/ UNCHANGED vars => UNCHANGED <<session, logs>>
      BY DEF Crash, vars, callVars
    <3>2. \A p \in Handler : HandlerFails(p) => UNCHANGED <<session, logs>>
      BY DEF HandlerFails, callVars
    <3>3. \A c : EndAgain(c) \/ ExpireKey(c) \/ ExpireMarks(c) => UNCHANGED <<session, logs>>
      BY DEF EndAgain, ExpireKey, ExpireMarks, callVars
    <3>4. ASSUME NEW p \in Handler, NEW c \in Call, Initiate(p, c) \/ RingTimeout(p, c)
          PROVE  UNCHANGED <<session, logs>>
      BY <3>4 DEF Initiate, RingTimeout, callVars
    <3>5. ASSUME NEW p \in Handler, NEW c \in Call, NEW u \in User,
                 Accept(p, c, u) \/ Reject(p, c, u) \/ EndCall(p, c, u)
          PROVE  UNCHANGED <<session, logs>>
      BY <3>5 DEF Accept, Reject, EndCall, callVars
    <3>6. ASSUME NEW p \in Handler, NEW c \in Call, NEW e \in HookEvent, Webhook(p, c, e)
          PROVE  UNCHANGED <<session, logs>>
      BY <3>6 DEF Webhook, callVars
    <3> QED
      BY <1>6, <3>1, <3>2, <3>3, <3>4, <3>5, <3>6
  <2> QED
    BY <1>1, <2>1
<1> QED
  BY <1>5, <1>6 DEF Next

\* A call rings at most once and for one stretch, and its log gets entries only after
\* the ringing, though every handler saves whole rows it read earlier.
THEOREM Refinement == Spec => ImplementsCallLife
<1>1. Init => Life!LifeInit
  <2>1. ASSUME Init PROVE \A c \in Call : session[c].status = "none" /\ Len(logs[c]) = 0
    BY <2>1, RowTypes DEF Init
  <2> QED
    BY <2>1 DEF Life!LifeInit
<1>2. CallInv /\ [Next]_vars => [Life!LifeNext]_(Life!lifeVars)
  BY LifeStep
<1> QED
  BY <1>1, <1>2, Invariance, PTL DEF Spec, ImplementsCallLife, Life!LifeSpec
=============================================================================
