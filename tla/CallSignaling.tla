---------------------------- MODULE CallSignaling ----------------------------
(***************************************************************************)
(* One-to-one calls: CallService, CallSessionService, CallLogService and   *)
(* LiveKitWebhookService.                                                  *)
(*                                                                         *)
(* A call is a row of call_sessions, a log of messages in the chat, marks  *)
(* in Redis that say who is busy, and a ring timer in the memory of the    *)
(* process.  Every socket event, timer and webhook runs a handler: a       *)
(* sequence of awaits, each an action of its own, so the row a handler     *)
(* read may be stale when it saves it.  Repository.save writes every       *)
(* column that differs from the stored row, that is, it puts the whole row *)
(* back as the handler knows it.                                           *)
(*                                                                         *)
(* Left out: the checks that refuse a call before anything is read or      *)
(* written for it (unknown callee, a block), the text of events and        *)
(* pushes, the tokens' contents and the durations' values (a duration is   *)
(* final or not).                                                          *)
(***************************************************************************)
EXTENDS Naturals, Sequences, FiniteSets

CONSTANTS
  User, Call, Handler,
  Caller, Callee,      \* [Call -> User]: who calls and who is called
  HookOf,              \* [Call -> SUBSET HookEvent]: what LiveKit may report
  NoCall,
  EarlierCall,         \* a call of before, whose marks may still be in Redis
  MaxFaults            \* bound: restarts and failing handlers

ASSUME PartiesAssumption ==
  /\ Caller \in [Call -> User]
  /\ Callee \in [Call -> User]
  /\ \A c \in Call : Caller[c] # Callee[c]
ASSUME NoCallAssumption ==
  NoCall \notin Call /\ EarlierCall \notin Call /\ NoCall # EarlierCall
ASSUME BoundsAssumption == MaxFaults \in Nat

HookEvent == {"joined", "left", "finished"}

ASSUME HookAssumption == HookOf \in [Call -> SUBSET HookEvent]

VARIABLES
  session,   \* session[c]: the row of call_sessions
  logs,      \* logs[c]: the CALL messages of the chat, with their metadata
  mark,      \* mark[u]: call:user:<u> in Redis
  keys,      \* the calls whose call:session:<uuid> is in Redis
  timers,    \* ringTimeouts: the calls whose ring timer is pending
  asked,     \* the calls that have been initiated
  tokens,    \* the calls whose LiveKit tokens have been sent
  hooks,     \* hooks[c]: the webhook events taken (their dedupe keys)
  th,        \* th[p]: where handler p is and what it read
  faults     \* restarts and failures so far

callVars == <<session, logs>>
redisVars == <<mark, keys>>
vars == <<session, logs, mark, keys, timers, asked, tokens, hooks, th, faults>>

Terminal == {"completed", "missed", "rejected", "cancelled"}
Status == {"none", "ringing", "connected"} \cup Terminal

\* The columns of a row the services branch on: its status, durationFinal, and the
\* message finalizedAt and chatMessageId stand for (0: none).
Row == [status : Status, final : BOOLEAN, log : Nat]
NoRow == [status |-> "none", final |-> FALSE, log |-> 0]
Ringing == [NoRow EXCEPT !.status = "ringing"]

Label == {"idle", "callerBusy", "calleeBusy", "insert", "marks", "ring",
          "acceptSave", "statusGet", "statusSet", "sendTokens", "finalSave", "clear", "logRead",
          "logCommit", "hookSave", "patchSave", "patchLog"}

Idle == [pc |-> "idle", c |-> NoCall, row |-> NoRow]
Goto(p, label) == th' = [th EXCEPT ![p].pc = label]
Finish(p) == th' = [th EXCEPT ![p] = Idle]
Begin(p, label, c, row) ==
  /\ th[p].pc = "idle"
  /\ th' = [th EXCEPT ![p] = [pc |-> label, c |-> c, row |-> row]]

\* The types of the variables.
TypeOK ==
  /\ session \in [Call -> Row]
  /\ logs \in [Call -> Seq([status : Status, final : BOOLEAN])]
  /\ mark \in [User -> Call \cup {NoCall, EarlierCall}]
  /\ keys \subseteq Call
  /\ timers \subseteq Call
  /\ asked \subseteq Call
  /\ tokens \subseteq Call
  /\ hooks \in [Call -> SUBSET HookEvent]
  /\ th \in [Handler -> [pc : Label, c : Call \cup {NoCall}, row : Row]]
  /\ faults \in 0 .. MaxFaults

Init ==
  /\ session = [c \in Call |-> NoRow]
  /\ logs = [c \in Call |-> <<>>]
  /\ mark \in [User -> {NoCall, EarlierCall}]
  /\ keys = {}
  /\ timers = {}
  /\ asked = {}
  /\ tokens = {}
  /\ hooks = [c \in Call |-> {}]
  /\ th = [p \in Handler |-> Idle]
  /\ faults = 0

Party(c) == {Caller[c], Callee[c]}
Save(c, row) == session' = [session EXCEPT ![c] = row]

-----------------------------------------------------------------------------
(* call.initiate                                                           *)

\* A client picks a fresh uuid and room for each call.
Initiate(p, c) ==
  /\ c \notin asked
  /\ asked' = asked \cup {c}
  /\ Begin(p, "callerBusy", c, NoRow)
  /\ UNCHANGED <<callVars, redisVars, timers, tokens, hooks, faults>>

\* getUserActiveCallUuid(callerId): call.rejected caller_busy, or go on.
CheckCallerBusy(p) ==
  /\ th[p].pc = "callerBusy"
  /\ IF mark[Caller[th[p].c]] = NoCall THEN Goto(p, "calleeBusy") ELSE Finish(p)
  /\ UNCHANGED <<callVars, redisVars, timers, asked, tokens, hooks, faults>>

\* The same of the callee; the chat of the pair is found or created.
CheckCalleeBusy(p) ==
  /\ th[p].pc = "calleeBusy"
  /\ IF mark[Callee[th[p].c]] = NoCall THEN Goto(p, "insert") ELSE Finish(p)
  /\ UNCHANGED <<callVars, redisVars, timers, asked, tokens, hooks, faults>>

InsertSession(p) ==
  /\ th[p].pc = "insert"
  /\ Save(th[p].c, Ringing)
  /\ Goto(p, "marks")
  /\ UNCHANGED <<logs, redisVars, timers, asked, tokens, hooks, faults>>

\* One pipeline sets the three keys, whoever held the users' keys before.
SetActiveCall(p) ==
  /\ th[p].pc = "marks"
  /\ keys' = keys \cup {th[p].c}
  /\ mark' = [u \in User |-> IF u \in Party(th[p].c) THEN th[p].c ELSE mark[u]]
  /\ Goto(p, "ring")
  /\ UNCHANGED <<callVars, timers, asked, tokens, hooks, faults>>

\* Mutant: the timer is not scheduled.
RingWithoutTimer(p) ==
  /\ th[p].pc = "ring"
  /\ Finish(p)
  /\ UNCHANGED <<callVars, redisVars, timers, asked, tokens, hooks, faults>>

\* call.incoming by socket or push, then scheduleRingTimeout.
ScheduleRingTimeout(p) ==
  /\ th[p].pc = "ring"
  /\ timers' = timers \cup {th[p].c}
  /\ Finish(p)
  /\ UNCHANGED <<callVars, redisVars, asked, tokens, hooks, faults>>

-----------------------------------------------------------------------------
(* call.accept                                                             *)

\* Mutant: the timer is cleared before the callee is checked.
AcceptClearsFirst(p, c, u) ==
  /\ session[c].status = "ringing"
  /\ timers' = timers \ {c}
  /\ IF u = Callee[c]
     THEN Begin(p, "acceptSave", c, [session[c] EXCEPT !.status = "connected"])
     ELSE th[p].pc = "idle" /\ UNCHANGED th
  /\ UNCHANGED <<callVars, redisVars, asked, tokens, hooks, faults>>

\* Mutant: the tokens are sent before the row is saved.
AcceptTokensFirst(p, c, u) ==
  /\ session[c].status = "ringing"
  /\ u = Callee[c]
  /\ timers' = timers \ {c}
  /\ tokens' = tokens \cup {c}
  /\ Begin(p, "acceptSave", c, [session[c] EXCEPT !.status = "connected"])
  /\ UNCHANGED <<callVars, redisVars, asked, hooks, faults>>

\* findRingingSession, the check of the callee, then clearRingTimeout.
Accept(p, c, u) ==
  /\ session[c].status = "ringing"
  /\ u = Callee[c]
  /\ timers' = timers \ {c}
  /\ Begin(p, "acceptSave", c, [session[c] EXCEPT !.status = "connected"])
  /\ UNCHANGED <<callVars, redisVars, asked, tokens, hooks, faults>>

AcceptSave(p) ==
  /\ th[p].pc = "acceptSave"
  /\ Save(th[p].c, th[p].row)
  /\ Goto(p, "statusGet")
  /\ UNCHANGED <<logs, redisVars, timers, asked, tokens, hooks, faults>>

\* updateStatus gets the session key and, if it is there, sets it: one that was deleted in
\* between is there again.
StatusGet(p) ==
  /\ th[p].pc = "statusGet"
  /\ Goto(p, IF th[p].c \in keys THEN "statusSet" ELSE "sendTokens")
  /\ UNCHANGED <<callVars, redisVars, timers, asked, tokens, hooks, faults>>

StatusSet(p) ==
  /\ th[p].pc = "statusSet"
  /\ keys' = keys \cup {th[p].c}
  /\ Goto(p, "sendTokens")
  /\ UNCHANGED <<callVars, mark, timers, asked, tokens, hooks, faults>>

\* call.accepted to both.
SendTokens(p) ==
  /\ th[p].pc = "sendTokens"
  /\ tokens' = tokens \cup {th[p].c}
  /\ Finish(p)
  /\ UNCHANGED <<callVars, redisVars, timers, asked, hooks, faults>>

-----------------------------------------------------------------------------
(* call.reject, call.end and the ring timer                                *)

\* A handler that has read the row of c and will finalize it as status.
Finalize(p, c, status) ==
  Begin(p, "finalSave", c,
        [session[c] EXCEPT !.status = status, !.final = (status # "completed")])

Reject(p, c, u) ==
  /\ session[c].status = "ringing"
  /\ u = Callee[c]
  /\ timers' = timers \ {c}
  /\ Finalize(p, c, "rejected")
  /\ UNCHANGED <<callVars, redisVars, asked, tokens, hooks, faults>>

\* Mutant: the reason of call.rejected where the status belongs.
EndReason(c, u) ==
  IF session[c].status = "connected" THEN "completed"
  ELSE IF u = Caller[c] THEN "cancelled" ELSE "declined"

EndStatus(c, u) ==
  IF session[c].status = "connected" THEN "completed"
  ELSE IF u = Caller[c] THEN "cancelled" ELSE "rejected"

\* Anyone may ask; only a party gets as far as clearRingTimeout.
EndCall(p, c, u) ==
  /\ session[c].status \in {"ringing", "connected"}
  /\ u \in Party(c)
  /\ timers' = timers \ {c}
  /\ Finalize(p, c, EndStatus(c, u))
  /\ UNCHANGED <<callVars, redisVars, asked, tokens, hooks, faults>>

\* Of a call that has ended only the timer goes, one that was set after the end.
EndAgain(c) ==
  /\ session[c].status \in Terminal
  /\ c \in timers /\ timers' = timers \ {c}
  /\ UNCHANGED <<callVars, redisVars, asked, tokens, hooks, th, faults>>

\* handleMissedCall: the timer fires, and finds the call ringing or does nothing.
RingTimeout(p, c) ==
  /\ c \in timers
  /\ timers' = timers \ {c}
  /\ IF session[c].status = "ringing"
     THEN Finalize(p, c, "missed")
     ELSE th[p].pc = "idle" /\ UNCHANGED th
  /\ UNCHANGED <<callVars, redisVars, asked, tokens, hooks, faults>>

FinalSave(p) ==
  /\ th[p].pc = "finalSave"
  /\ Save(th[p].c, th[p].row)
  /\ Goto(p, "clear")
  /\ UNCHANGED <<logs, redisVars, timers, asked, tokens, hooks, faults>>

\* Mutant: nothing more is done once the session key has expired.
ClearOrReturn(p) ==
  /\ th[p].pc = "clear"
  /\ keys' = keys \ {th[p].c}
  /\ mark' = [u \in User |->
                IF th[p].c \in keys /\ u \in Party(th[p].c) THEN NoCall ELSE mark[u]]
  /\ IF th[p].c \in keys /\ th[p].row.log = 0 THEN Goto(p, "logRead") ELSE Finish(p)
  /\ UNCHANGED <<callVars, timers, asked, tokens, hooks, faults>>

\* The keys of both parties go, even where another call set them since. finalize
\* then returns at once if the row was already logged when the handler read it.
ClearActiveCall(p) ==
  /\ th[p].pc = "clear"
  /\ keys' = keys \ {th[p].c}
  /\ mark' = [u \in User |->
                IF th[p].c \in keys /\ u \in Party(th[p].c) THEN NoCall ELSE mark[u]]
  /\ IF th[p].row.log = 0 THEN Goto(p, "logRead") ELSE Finish(p)
  /\ UNCHANGED <<callVars, timers, asked, tokens, hooks, faults>>

-----------------------------------------------------------------------------
(* CallLogService.finalize: a transaction that takes no lock               *)

LogRead(p) ==
  /\ th[p].pc = "logRead"
  /\ IF session[th[p].c].log # 0
     THEN Finish(p)
     ELSE th' = [th EXCEPT ![p].pc = "logCommit", ![p].row = session[th[p].c]]
  /\ UNCHANGED <<callVars, redisVars, timers, asked, tokens, hooks, faults>>

\* The message with its two receipts and the chat's last message, and the row as
\* the transaction read it, now logged.
LogCommit(p) ==
  LET c == th[p].c
      row == th[p].row
  IN /\ th[p].pc = "logCommit"
     /\ logs' = [logs EXCEPT ![c] = Append(@, [status |-> row.status, final |-> row.final])]
     /\ Save(c, [row EXCEPT !.log = Len(logs[c]) + 1])
     /\ Finish(p)
     /\ UNCHANGED <<redisVars, timers, asked, tokens, hooks, faults>>

-----------------------------------------------------------------------------
(* LiveKit webhooks: each event is taken once, in any order                *)

Webhook(p, c, e) ==
  /\ c \in tokens
  /\ e \in HookOf[c] \ hooks[c]
  /\ hooks' = [hooks EXCEPT ![c] = @ \cup {e}]
  /\ \/ /\ e \in {"joined", "left"}
        /\ Begin(p, "hookSave", c, session[c])
     \/ /\ e = "finished"
        /\ session[c].status = "completed" /\ session[c].log # 0
        /\ Begin(p, "patchSave", c, [session[c] EXCEPT !.final = TRUE])
     \/ /\ e = "finished"
        /\ session[c].status # "completed" \/ session[c].log = 0
        /\ th[p].pc = "idle" /\ UNCHANGED th
  /\ UNCHANGED <<callVars, redisVars, timers, asked, tokens, faults>>

\* The row as it was read, with the time the participant joined or left.
HookSave(p) ==
  /\ th[p].pc = "hookSave"
  /\ Save(th[p].c, th[p].row)
  /\ Finish(p)
  /\ UNCHANGED <<logs, redisVars, timers, asked, tokens, hooks, faults>>

PatchSave(p) ==
  /\ th[p].pc = "patchSave"
  /\ Save(th[p].c, th[p].row)
  /\ Goto(p, "patchLog")
  /\ UNCHANGED <<logs, redisVars, timers, asked, tokens, hooks, faults>>

PatchLog(p) ==
  /\ th[p].pc = "patchLog"
  /\ logs' = [logs EXCEPT ![th[p].c][th[p].row.log].final = TRUE]
  /\ Finish(p)
  /\ UNCHANGED <<session, redisVars, timers, asked, tokens, hooks, faults>>

-----------------------------------------------------------------------------
(* Redis expiry and faults                                                 *)

\* Mutant: setActiveCall gives the users' keys no TTL.
KeepMarks(c) ==
  /\ c = EarlierCall
  /\ \E u \in User : mark[u] = c
  /\ mark' = [u \in User |-> IF mark[u] = c THEN NoCall ELSE mark[u]]
  /\ UNCHANGED <<callVars, keys, timers, asked, tokens, hooks, th, faults>>

\* The three keys are set with one TTL of 120 s; accept renews that of the session
\* key only. The ring timer fires after 60 s, so they outlive it.
ExpireMarks(c) ==
  /\ c \notin timers
  /\ \E u \in User : mark[u] = c
  /\ mark' = [u \in User |-> IF mark[u] = c THEN NoCall ELSE mark[u]]
  /\ UNCHANGED <<callVars, keys, timers, asked, tokens, hooks, th, faults>>

ExpireKey(c) ==
  /\ c \in keys
  /\ \A u \in User : mark[u] # c
  /\ keys' = keys \ {c}
  /\ UNCHANGED <<callVars, mark, timers, asked, tokens, hooks, th, faults>>

\* A restart; also what a query that fails in a call.* handler comes to, whose
\* promise nobody catches.
Crash ==
  /\ faults < MaxFaults
  /\ faults' = faults + 1
  /\ timers' = {}
  /\ th' = [p \in Handler |-> Idle]
  /\ UNCHANGED <<callVars, redisVars, asked, tokens, hooks>>

\* The ring timer's handler catches its errors, the webhook's answers 500: the
\* retried event finds its dedupe key and is dropped.
HandlerFails(p) ==
  /\ faults < MaxFaults
  /\ \/ th[p].pc \in {"hookSave", "patchSave", "patchLog"}
     \/ th[p].pc \in {"finalSave", "clear"} /\ th[p].row.status = "missed"
  /\ faults' = faults + 1
  /\ Finish(p)
  /\ UNCHANGED <<callVars, redisVars, timers, asked, tokens, hooks>>

Continue(p) ==
  \/ CheckCallerBusy(p) \/ CheckCalleeBusy(p) \/ InsertSession(p)
  \/ SetActiveCall(p) \/ ScheduleRingTimeout(p)
  \/ AcceptSave(p) \/ StatusGet(p) \/ StatusSet(p) \/ SendTokens(p)
  \/ FinalSave(p) \/ ClearActiveCall(p) \/ LogRead(p) \/ LogCommit(p)
  \/ HookSave(p) \/ PatchSave(p) \/ PatchLog(p)

Next ==
  \/ \E p \in Handler :
       \/ Continue(p)
       \/ HandlerFails(p)
       \/ \E c \in Call :
            \/ Initiate(p, c)
            \/ RingTimeout(p, c)
            \/ \E u \in User : Accept(p, c, u) \/ Reject(p, c, u) \/ EndCall(p, c, u)
            \/ \E e \in HookEvent : Webhook(p, c, e)
  \/ \E c \in Call : EndAgain(c) \/ ExpireKey(c)
  \/ \E c \in Call \cup {EarlierCall} : ExpireMarks(c)
  \/ Crash

\* A handler that has started goes on, a timer fires, a key expires. Nobody has to call, answer or
\* hang up, and no webhook has to come.
Fairness ==
  /\ \A p \in Handler : WF_vars(Continue(p))
  /\ \A c \in Call : WF_vars(\E p \in Handler : RingTimeout(p, c))
  /\ \A c \in Call \cup {EarlierCall} : WF_vars(ExpireMarks(c))

Spec == Init /\ [][Next]_vars /\ Fairness

-----------------------------------------------------------------------------
(* Properties                                                              *)

InFlight(c, labels) == \E p \in Handler : th[p].c = c /\ th[p].pc \in labels

\* While nothing has failed, a call that rings has a pending ring timer or a handler
\* under way that will schedule it or end the ringing: no early return of accept,
\* reject or end may leave a ringing call without its timer.
RingCovered ==
  \A c \in Call :
    faults = 0 /\ session[c].status = "ringing" =>
      c \in timers \/ InFlight(c, {"marks", "ring", "acceptSave", "finalSave"})

\* A ringing call stops ringing if the process lives: somebody answers, or
\* handleMissedCall ends it.
RingingEnds ==
  \A c \in Call :
    (session[c].status = "ringing" /\ faults = 0)
      ~> (session[c].status # "ringing" \/ faults > 0)

\* A call that ended gets its message in the chat if nothing fails, whichever
\* handlers raced to end it.
EndedCallIsLogged ==
  \A c \in Call :
    (session[c].status \in Terminal /\ faults = 0)
      ~> (logs[c] # <<>> \/ faults > 0)

\* No mark keeps a user busy for ever: not after a restart that lost the handler, nor
\* when a call was ended before its marks were set.
BusyEnds == \A u \in User : mark[u] # NoCall ~> mark[u] = NoCall

Life == INSTANCE CallLife WITH
          status <- [c \in Call |-> session[c].status],
          entries <- [c \in Call |-> Len(logs[c])]

\* The handlers implement CallLife: a stale save never makes a call ring again, and
\* the log gets entries only after the ringing.
ImplementsCallLife == Life!LifeSpec
=============================================================================
