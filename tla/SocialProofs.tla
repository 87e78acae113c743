---------------------------- MODULE SocialProofs ----------------------------
(***************************************************************************)
(* Theorems about the services around a post and a chat, for any number of *)
(* users, rows and requests: the notifications of a user, what the members *)
(* of a chat are shown, the counters of a post and the deletion of media.  *)
(***************************************************************************)
EXTENDS Notifications, ChatHistory, Engagements, MediaRemoval, FiniteSetTheorems,
        SequenceTheorems, TLAPS

-----------------------------------------------------------------------------
(* Notifications                                                           *)

TellerPc == {"new", "check", "save", "push", "mark", "commit", "done", "failed"}

NotifyTypes ==
  /\ enabled \in BOOLEAN /\ inbox \subseteq Event
  /\ teller \in [Event -> [pc : TellerPc, sends : BOOLEAN]]
  /\ push \in [Event -> [state : {"none", "waiting", "sent", "failed"}, tries : Nat]]
  /\ skipped \in [Event -> SUBSET Event]
  /\ broadcast \in [pc : {"idle", "save", "push", "done", "failed"}, todo : SUBSET Recipient,
                    chunk : SUBSET Recipient, rows : SUBSET Recipient, pushed : SUBSET Recipient]

\* An event with a row, or one that was taken for another with a row.
Told(e) == e \in inbox \/ skipped[e] # {}

\* The key and what was skipped for it stand for rows; notify goes on from a row.
RowsComeFirst ==
  /\ dedupe \subseteq inbox
  /\ \A e \in Event : /\ skipped[e] \subseteq inbox
                      /\ teller[e].pc \in {"push", "mark"} => e \in inbox
                      /\ teller[e].pc = "commit" \/ e \in happened => Told(e)
                      /\ push[e].state # "none" => e \in inbox
  /\ happened \subseteq Event

\* Between batches, the broadcast has pushed to whom it has saved rows for.
ChunksGoTogether ==
  /\ broadcast.pushed \subseteq broadcast.rows
  /\ broadcast.pc \in {"save", "done"} => broadcast.rows = broadcast.pushed
  /\ broadcast.pc = "push" => broadcast.rows = broadcast.pushed \cup broadcast.chunk
  /\ broadcast.pc = "idle" => broadcast = NoBroadcast

NotifyInv == NotifyTypes /\ RowsComeFirst /\ ChunksGoTogether

LEMMA NotifyInitial == NotifyInit => NotifyInv
  BY DEF NotifyInit, NotifyInv, NotifyTypes, RowsComeFirst, ChunksGoTogether, NoJob, NoBroadcast,
         TellerPc

\* What notify and the push worker do for one event.
TellerSteps(e) ==
  \/ Notify(e) \/ IsDuplicate(e) \/ NotifyUser(e) \/ EnqueuePush(e)
  \/ SetDedupeKey(e) \/ Commit(e) \/ NotifyThrows(e) \/ SendPush(e)

\* notify goes on for one event.
LEMMA TellerMoves ==
  ASSUME NotifyTypes, NEW e \in Event, NEW pc \in TellerPc, GoT(e, pc)
  PROVE  /\ teller' \in [Event -> [pc : TellerPc, sends : BOOLEAN]]
         /\ teller'[e].pc = pc
         /\ \A d \in Event \ {e} : teller'[d] = teller[d]
<1>1. teller[e] \in [pc : TellerPc, sends : BOOLEAN]
  BY DEF NotifyTypes
<1> DEFINE told == [teller[e] EXCEPT !.pc = pc]
<1>2. told \in [pc : TellerPc, sends : BOOLEAN] /\ told.pc = pc
  BY <1>1
<1>3. teller' = [teller EXCEPT ![e] = told]
  BY DEF GoT
<1> HIDE DEF told
<1> QED
  BY <1>2, <1>3 DEF NotifyTypes

\* The push worker goes on with one job.
LEMMA JobMoves ==
  ASSUME NotifyTypes, NEW e \in Event, SendPush(e)
  PROVE  /\ push' \in [Event -> [state : {"none", "waiting", "sent", "failed"}, tries : Nat]]
         /\ \A d \in Event \ {e} : push'[d] = push[d]
<1>1. push[e].tries + 1 \in Nat
  BY DEF NotifyTypes
<1>2. PICK st \in {"waiting", "sent", "failed"} :
        push' = [push EXCEPT ![e].tries = @ + 1, ![e].state = st]
  BY DEF SendPush
<1> DEFINE next == [push[e] EXCEPT !.tries = @ + 1, !.state = st]
<1>3. push' = [push EXCEPT ![e] = next]
  BY <1>2
<1> DEFINE Job == [state : {"none", "waiting", "sent", "failed"}, tries : Nat]
<1>4. push \in [Event -> Job] /\ push[e] \in Job
  BY DEF NotifyTypes
<1>5. next \in Job
  BY <1>1, <1>4
<1> HIDE DEF next, Job
<1>6. push' \in [Event -> Job] /\ \A d \in Event \ {e} : push'[d] = push[d]
  BY <1>3, <1>4, <1>5
<1> QED
  BY <1>6 DEF Job

LEMMA TellerTypes ==
  ASSUME NotifyInv, NEW e \in Event, TellerSteps(e)
  PROVE  NotifyTypes'
<1> USE DEF NotifyInv, NotifyTypes, RowsComeFirst, TellerPc
<1>1. CASE Notify(e)
  BY <1>1 DEF Notify
<1>2. CASE IsDuplicate(e)
  <2>1. \E pc \in TellerPc : GoT(e, pc)
    BY <1>2 DEF IsDuplicate
  <2>2. skipped' \in [Event -> SUBSET Event]
    BY <1>2 DEF IsDuplicate
  <2> QED
    BY <1>2, <2>1, <2>2, TellerMoves DEF IsDuplicate
<1>3. CASE NotifyUser(e)
  BY <1>3, TellerMoves DEF NotifyUser
<1>4. CASE EnqueuePush(e)
  <2>1. push' \in [Event -> [state : {"none", "waiting", "sent", "failed"}, tries : Nat]]
    BY <1>4 DEF EnqueuePush
  <2>2. \E pc \in TellerPc : GoT(e, pc)
    BY <1>4 DEF EnqueuePush
  <2> QED
    BY <1>4, <2>1, <2>2, TellerMoves DEF EnqueuePush
<1>5. CASE SetDedupeKey(e)
  BY <1>5, TellerMoves DEF SetDedupeKey
<1>6. CASE Commit(e)
  BY <1>6, TellerMoves DEF Commit
<1>7. CASE NotifyThrows(e)
  BY <1>7, TellerMoves DEF NotifyThrows
<1>8. CASE SendPush(e)
  BY <1>8, JobMoves DEF SendPush
<1> QED
  BY <1>1, <1>2, <1>3, <1>4, <1>5, <1>6, <1>7, <1>8 DEF TellerSteps

LEMMA TellerStep ==
  ASSUME NotifyInv, NEW e \in Event, TellerSteps(e)
  PROVE  NotifyInv'
<1>1. NotifyTypes'
  BY TellerTypes
<1>2. ChunksGoTogether'
  BY DEF NotifyInv, ChunksGoTogether, TellerSteps, Notify, IsDuplicate, NotifyUser, EnqueuePush,
         SetDedupeKey, Commit, NotifyThrows, SendPush
<1>3. RowsComeFirst'
  <2> USE DEF NotifyInv, RowsComeFirst, Told, AtT, TellerPc
  <2>1. CASE Notify(e)
    BY <2>1 DEF Notify, NotifyTypes
  <2>2. CASE IsDuplicate(e)
    <3>1. CASE dedupe # {} /\ GoT(e, "commit") /\ skipped' = [skipped EXCEPT ![e] = dedupe]
      BY <2>2, <3>1, TellerMoves DEF IsDuplicate, NotifyTypes
    <3>2. CASE GoT(e, "save") /\ UNCHANGED skipped
      BY <2>2, <3>2, TellerMoves DEF IsDuplicate
    <3> QED
      BY <2>2, <3>1, <3>2 DEF IsDuplicate
  <2>3. CASE NotifyUser(e)
    BY <2>3, TellerMoves DEF NotifyUser
  <2>4. CASE EnqueuePush(e)
    <3>1. \A d \in Event \ {e} : push'[d] = push[d]
      BY <2>4 DEF EnqueuePush, NotifyTypes
    <3> QED
      BY <2>4, <3>1, TellerMoves DEF EnqueuePush
  <2>5. CASE SetDedupeKey(e)
    BY <2>5, TellerMoves DEF SetDedupeKey
  <2>6. CASE Commit(e)
    BY <2>6, TellerMoves DEF Commit
  <2>7. CASE NotifyThrows(e)
    BY <2>7, TellerMoves DEF NotifyThrows
  <2>8. CASE SendPush(e)
    BY <2>8, JobMoves DEF SendPush
  <2> QED
    BY <2>1, <2>2, <2>3, <2>4, <2>5, <2>6, <2>7, <2>8 DEF TellerSteps
<1> QED
  BY <1>1, <1>2, <1>3 DEF NotifyInv

LEMMA BroadcastStep ==
  ASSUME NotifyInv,
         \/ \E to \in SUBSET Recipient : Broadcast(to)
         \/ SaveChunk \/ PushChunk \/ BroadcastThrows
  PROVE  NotifyInv'
<1>1. RowsComeFirst'
  BY DEF NotifyInv, RowsComeFirst, Told, Broadcast, SaveChunk, PushChunk, BroadcastThrows
<1>2. NotifyTypes' /\ ChunksGoTogether'
  <2> USE DEF NotifyInv, NotifyTypes, ChunksGoTogether
  <2>1. CASE \E to \in SUBSET Recipient : Broadcast(to)
    <3>1. PICK to \in SUBSET Recipient :
            broadcast' = [broadcast EXCEPT !.pc = "save", !.todo = to]
      BY <2>1 DEF Broadcast
    <3>2. broadcast = NoBroadcast
      BY <2>1 DEF Broadcast
    <3>3. broadcast' = [NoBroadcast EXCEPT !.pc = "save", !.todo = to]
      BY <3>1, <3>2
    <3> QED
      BY <2>1, <3>3 DEF Broadcast, NoBroadcast
  <2>2. CASE SaveChunk
    <3>1. PICK chunk \in SUBSET broadcast.todo :
            broadcast' = [broadcast EXCEPT !.pc = "push", !.chunk = chunk, !.rows = @ \cup chunk]
      BY <2>2 DEF SaveChunk
    <3>2. broadcast.rows = broadcast.pushed
      BY <2>2 DEF SaveChunk
    <3> QED
      BY <2>2, <3>1, <3>2 DEF SaveChunk
  <2>3. CASE PushChunk
    BY <2>3 DEF PushChunk
  <2>4. CASE BroadcastThrows
    BY <2>4 DEF BroadcastThrows
  <2> QED
    BY <2>1, <2>2, <2>3, <2>4
<1> QED
  BY <1>1, <1>2 DEF NotifyInv

\* In every interleaving of events, push jobs and chunks of a broadcast: dedupe keys, pushes
\* and events that were told stand for rows, and a broadcast pushes what it has saved.
THEOREM NotifyInvariant == NotifySpec => []NotifyInv
<1>1. NotifyInv /\ [NotifyNext]_notifyVars => NotifyInv'
  <2> SUFFICES ASSUME NotifyInv, [NotifyNext]_notifyVars PROVE NotifyInv'
    OBVIOUS
  <2>1. CASE \E e \in Event : TellerSteps(e)
    BY <2>1, TellerStep
  <2>2. CASE DedupeKeyExpires \/ UpdatePreference
    BY <2>2 DEF NotifyInv, NotifyTypes, RowsComeFirst, Told, ChunksGoTogether,
                DedupeKeyExpires, UpdatePreference
  <2>3. CASE \/ \E to \in SUBSET Recipient : Broadcast(to)
             \/ SaveChunk \/ PushChunk \/ BroadcastThrows
    BY <2>3, BroadcastStep
  <2>4. CASE UNCHANGED notifyVars
    BY <2>4 DEF notifyVars, NotifyInv, NotifyTypes, RowsComeFirst, Told, ChunksGoTogether
  <2> QED
    BY <2>1, <2>2, <2>3, <2>4 DEF NotifyNext, TellerSteps
<1> QED
  BY <1>1, NotifyInitial, PTL DEF NotifySpec

\* Whatever is rolled back, deduplicated or broken off, what happened is in the inbox, for
\* itself or for another event about its entity, and no push goes out without a row, for
\* any number of events, recipients and attempts.
THEOREM InboxComplete == NotifySpec => []InboxIsComplete
<1>1. NotifyInv => InboxIsComplete
  BY DEF NotifyInv, RowsComeFirst, Told, ChunksGoTogether, InboxIsComplete
<1> QED
  BY <1>1, NotifyInvariant, PTL

-----------------------------------------------------------------------------
(* What the members of a chat are shown                                    *)

Seat == [joinedAt : Nat, lastReadAt : Nat, isAdmin : BOOLEAN]

SendState == [pc : {"idle", "read", "created", "saved", "failed"}, to : SUBSET Person]
NoteRow == [at : Nat, deleted : BOOLEAN, deletedForMe : BOOLEAN]

HistoryTypes ==
  /\ seats \in [Person -> SUBSET Seat]
  /\ note \in [Note -> NoteRow]
  /\ copy \in [Note -> [Person -> {"none", "kept", "deleted"}]]
  /\ sending \in [Note -> SendState]
  /\ editing \in [Note -> SUBSET BOOLEAN]
  /\ marking \in [Person -> [Note -> {"none", "kept", "deleted"}]]
  /\ clock \in Nat /\ left \in [Person -> Nat]

\* A row of a member is younger than the last time its user left, and nothing is from the
\* future.
SeatsInTime ==
  \A u \in Person : left[u] <= clock /\ \A row \in seats[u] : left[u] < row.joinedAt

\* A message that exists was created by its handler, which never counts the author among
\* the recipients.
NotesInTime ==
  \A m \in Note : /\ note[m].at <= clock /\ AuthorOf[m] \notin sending[m].to
                  /\ note[m].at > 0 => sending[m].pc \in {"created", "saved", "failed"}

\* A receipt that is missing went when its user left.
ReceiptsHold ==
  \A m \in Note : \A u \in sending[m].to :
    sending[m].pc = "saved" /\ copy[m][u] = "none" => note[m].at <= left[u]

HistoryInv == HistoryTypes /\ SeatsInTime /\ NotesInTime /\ ReceiptsHold

\* A step that changes seats, the clock and when a user left.
LEMMA SeatStep ==
  ASSUME HistoryInv, NEW u \in Person,
         \/ ExitGroupChat(u)
         \/ \E users \in SUBSET (Person \ {u}) : CreateGroupChat(u, users) \/ AddChatMembers(u, users)
  PROVE  HistoryInv'
<1>1. HistoryTypes /\ SeatsInTime /\ NotesInTime /\ ReceiptsHold
  BY DEF HistoryInv
<1>2. clock \in Nat /\ clock' = clock + 1 /\ left \in [Person -> Nat]
  BY <1>1 DEF ExitGroupChat, CreateGroupChat, AddChatMembers, Tick, HistoryTypes
<1>3. note' = note /\ sending' = sending /\ editing' = editing /\ marking' = marking
  BY DEF ExitGroupChat, CreateGroupChat, AddChatMembers
<1>4. \A x \in BOOLEAN : Row(x) \in Seat /\ Row(x).joinedAt = clock + 1
  BY <1>2 DEF Row, Seat
<1>5. CASE ExitGroupChat(u)
  <2>1. /\ seats' = [seats EXCEPT ![u] = {}] /\ left' = [left EXCEPT ![u] = clock + 1]
        /\ copy' = [m \in Note |-> [copy[m] EXCEPT ![u] = "none"]]
    BY <1>5 DEF ExitGroupChat
  <2>2. HistoryTypes'
    BY <1>1, <1>2, <1>3, <2>1 DEF HistoryTypes
  <2>3. SeatsInTime'
    BY <1>1, <1>2, <2>1 DEF SeatsInTime, HistoryTypes
  <2>4. NotesInTime'
    BY <1>1, <1>2, <1>3 DEF NotesInTime, HistoryTypes, NoteRow
  <2>5. ReceiptsHold'
    <3>1. ASSUME NEW m \in Note, NEW v \in sending[m].to, sending[m].pc = "saved",
                 copy'[m][v] = "none"
          PROVE  note[m].at <= left'[v]
      <4>1. v \in Person /\ note[m].at \in Nat /\ note[m].at <= clock /\ left[v] \in Nat
        BY <1>1 DEF HistoryTypes, NoteRow, SendState, NotesInTime
      <4>2. CASE v = u
        BY <1>2, <2>1, <4>1, <4>2
      <4>3. CASE v # u
        <5>1. copy[m][v] = "none"
          BY <1>1, <2>1, <3>1, <4>1, <4>3 DEF HistoryTypes
        <5> QED
          BY <1>1, <1>2, <2>1, <3>1, <4>1, <4>3, <5>1 DEF ReceiptsHold
      <4> QED
        BY <4>2, <4>3
    <3> QED
      BY <1>3, <3>1 DEF ReceiptsHold
  <2> QED
    BY <2>2, <2>3, <2>4, <2>5 DEF HistoryInv
<1>6. CASE ~ExitGroupChat(u)
  <2>1. copy' = copy /\ left' = left
    BY <1>6 DEF CreateGroupChat, AddChatMembers
  <2>2. /\ seats' \in [Person -> SUBSET Seat]
        /\ \A v \in Person : \A row \in seats'[v] : left[v] < row.joinedAt
    <3>1. \A v \in Person : left[v] \in Nat /\ left[v] < clock + 1
      BY <1>1, <1>2 DEF SeatsInTime
    <3>2. ASSUME NEW users \in SUBSET (Person \ {u}), CreateGroupChat(u, users)
          PROVE  <2>2!:
      <4>1. seats' = [v \in Person |-> IF v = u THEN {Row(TRUE)}
                                       ELSE IF v \in users THEN {Row(FALSE)} ELSE {}]
        BY <3>2 DEF CreateGroupChat
      <4> QED
        BY <1>4, <3>1, <4>1
    <3>3. ASSUME NEW users \in SUBSET (Person \ {u}), AddChatMembers(u, users)
          PROVE  <2>2!:
      <4>1. seats' = [v \in Person |-> IF v \in users \ {u} THEN seats[v] \cup {Row(FALSE)}
                                       ELSE seats[v]]
        BY <3>3 DEF AddChatMembers
      <4> QED
        BY <1>1, <1>4, <3>1, <4>1 DEF HistoryTypes, SeatsInTime
    <3> QED
      BY <1>6, <3>2, <3>3
  <2>3. HistoryTypes'
    BY <1>1, <1>2, <1>3, <2>1, <2>2 DEF HistoryTypes
  <2>4. SeatsInTime'
    BY <1>1, <1>2, <2>1, <2>2 DEF SeatsInTime
  <2>5. NotesInTime'
    BY <1>1, <1>2, <1>3 DEF NotesInTime, HistoryTypes, NoteRow
  <2>6. ReceiptsHold'
    BY <1>1, <1>3, <2>1 DEF ReceiptsHold
  <2> QED
    BY <2>3, <2>4, <2>5, <2>6 DEF HistoryInv
<1> QED
  BY <1>5, <1>6

\* Reading the chat: the receipts as they were found, and saved again.
LEMMA MarkStep ==
  ASSUME HistoryInv, NEW u \in Person, FindsReceipts(u) \/ MarkRead(u)
  PROVE  HistoryInv'
<1>1. HistoryTypes /\ SeatsInTime /\ NotesInTime /\ ReceiptsHold
  BY DEF HistoryInv
<1>2. note' = note /\ sending' = sending /\ editing' = editing /\ left' = left
  BY DEF FindsReceipts, MarkRead
<1>3. \A m \in Note : note[m].at \in Nat
  BY <1>1 DEF HistoryTypes, NoteRow
<1>4. CASE FindsReceipts(u)
  <2>1. PICK S \in SUBSET Note :
          marking' = [marking EXCEPT ![u] = [m \in Note |-> IF m \in S THEN copy[m][u] ELSE "none"]]
    BY <1>4 DEF FindsReceipts
  <2> DEFINE found == [m \in Note |-> IF m \in S THEN copy[m][u] ELSE "none"]
  <2>2. found \in [Note -> {"none", "kept", "deleted"}]
    BY <1>1 DEF HistoryTypes
  <2>3. marking' = [marking EXCEPT ![u] = found]
    BY <2>1
  <2> HIDE DEF found
  <2>4. marking' \in [Person -> [Note -> {"none", "kept", "deleted"}]]
    BY <1>1, <2>2, <2>3 DEF HistoryTypes
  <2>5. seats' = seats /\ copy' = copy /\ clock' = clock
    BY <1>4 DEF FindsReceipts
  <2> QED
    BY <1>1, <1>2, <2>4, <2>5
       DEF HistoryInv, HistoryTypes, SeatsInTime, NotesInTime, ReceiptsHold
<1>5. CASE MarkRead(u)
  <2> DEFINE read == {[row EXCEPT !.lastReadAt = clock + 1] : row \in seats[u]}
  <2>1. /\ seats' = [seats EXCEPT ![u] = read] /\ clock' = clock + 1 /\ clock \in Nat
        /\ copy' = [m \in Note |-> [copy[m] EXCEPT ![u] = Saved(marking[u][m], @)]]
        /\ marking' = [marking EXCEPT ![u] = NoReceipts]
    BY <1>1, <1>5 DEF MarkRead, Tick, HistoryTypes
  <2>2. \A r \in Seat : LET n == [r EXCEPT !.lastReadAt = clock + 1]
                        IN n \in Seat /\ n.joinedAt = r.joinedAt
    BY <2>1 DEF Seat
  <2>3. \A r \in seats[u] : r \in Seat /\ left[u] < r.joinedAt
    BY <1>1 DEF HistoryTypes, SeatsInTime
  <2>4. read \subseteq Seat /\ \A r \in read : left[u] < r.joinedAt
    BY <2>2, <2>3
  <2> HIDE DEF read
  <2>5. /\ seats' \in [Person -> SUBSET Seat]
        /\ \A v \in Person : \A row \in seats'[v] : left[v] < row.joinedAt
    BY <1>1, <2>1, <2>4 DEF HistoryTypes, SeatsInTime
  <2>6. /\ copy' \in [Note -> [Person -> {"none", "kept", "deleted"}]]
        /\ \A m \in Note, v \in Person : copy'[m][v] = "none" => copy[m][v] = "none"
    BY <1>1, <2>1 DEF HistoryTypes, Saved
  <2>7. marking' \in [Person -> [Note -> {"none", "kept", "deleted"}]]
    BY <1>1, <2>1 DEF HistoryTypes, NoReceipts
  <2>8. HistoryTypes'
    BY <1>1, <1>2, <2>1, <2>5, <2>6, <2>7 DEF HistoryTypes
  <2>9. SeatsInTime'
    BY <1>1, <1>2, <2>1, <2>5 DEF SeatsInTime, HistoryTypes
  <2>10. NotesInTime'
    BY <1>1, <1>2, <1>3, <2>1 DEF NotesInTime
  <2>11. ReceiptsHold'
    <3>1. \A m \in Note : sending[m].to \subseteq Person
      BY <1>1 DEF HistoryTypes, SendState
    <3> QED
      BY <1>1, <1>2, <2>6, <3>1 DEF ReceiptsHold
  <2> QED
    BY <2>8, <2>9, <2>10, <2>11 DEF HistoryInv
<1> QED
  BY <1>4, <1>5

\* What changes a message: its time and its receipts.
LEMMA NoteStep ==
  ASSUME HistoryInv, NEW m \in Note,
         \/ ReadsMembers(m) \/ CreatesNote(m) \/ SavesReceipts(m) \/ SendFails(m)
         \/ DeleteForEveryone(m) \/ ReadsNote(m) \/ SavesNote(m)
         \/ \E u \in Person : DeleteForUser(m, u)
  PROVE  HistoryInv'
<1>1. HistoryTypes /\ SeatsInTime /\ NotesInTime /\ ReceiptsHold
  BY DEF HistoryInv
<1>2. /\ seats' = seats /\ left' = left /\ clock' \in {clock, clock + 1} /\ clock \in Nat
      /\ marking' = marking
  BY <1>1 DEF ReadsMembers, CreatesNote, SavesReceipts, SendFails, DeleteForEveryone, ReadsNote,
     SavesNote, DeleteForUser, Tick, HistoryTypes
<1>3. SeatsInTime'
  BY <1>1, <1>2 DEF SeatsInTime, HistoryTypes
<1>8. ASSUME NEW n \in NoteRow, note' = [note EXCEPT ![m] = n]
      PROVE  /\ note' \in [Note -> NoteRow]
             /\ \A k \in Note : note'[k] = IF k = m THEN n ELSE note[k]
  BY <1>1, <1>8 DEF HistoryTypes
<1>9. note[m] \in NoteRow
  BY <1>1 DEF HistoryTypes
<1>10. ASSUME NEW x \in {"created", "saved", "failed"}, sending' = [sending EXCEPT ![m].pc = x]
       PROVE  /\ sending' \in [Note -> SendState]
              /\ \A k \in Note : /\ sending'[k].to = sending[k].to
                                 /\ sending'[k].pc = IF k = m THEN x ELSE sending[k].pc
                                 /\ k # m => sending'[k] = sending[k]
  <2>1. sending[m] \in SendState
    BY <1>1 DEF HistoryTypes
  <2> DEFINE n == [sending[m] EXCEPT !.pc = x]
  <2>2. n \in SendState /\ n.to = sending[m].to /\ n.pc = x
    BY <2>1 DEF SendState
  <2>3. sending' = [sending EXCEPT ![m] = n]
    BY <1>10
  <2> HIDE DEF n
  <2> QED
    BY <1>1, <2>2, <2>3 DEF HistoryTypes
<1>4. CASE ReadsMembers(m) \/ SendFails(m) \/ ReadsNote(m)
  <2>1. note' = note /\ copy' = copy
    BY <1>4 DEF ReadsMembers, SendFails, ReadsNote
  <2>2. HistoryTypes' /\ \A n \in Note : /\ AuthorOf[n] \notin sending'[n].to
                                         /\ note[n].at > 0 =>
                                              sending'[n].pc \in {"created", "saved", "failed"}
                                         /\ sending'[n].pc = "saved" => sending'[n] = sending[n]
    <3>1. CASE ReadsMembers(m)
      <4> DEFINE n == [pc |-> "read", to |-> Members \ {AuthorOf[m]}]
      <4>1. /\ sending' = [sending EXCEPT ![m] = n] /\ editing' = editing
            /\ sending[m].pc = "idle"
        BY <3>1 DEF ReadsMembers
      <4>2. n \in SendState /\ n.pc = "read" /\ AuthorOf[m] \notin n.to
        BY DEF SendState, Members
      <4> HIDE DEF n
      <4>3. HistoryTypes'
        BY <1>1, <1>2, <2>1, <4>1, <4>2 DEF HistoryTypes
      <4> QED
        BY <1>1, <4>1, <4>2, <4>3 DEF NotesInTime, HistoryTypes
    <3>2. CASE SendFails(m)
      <4>1. /\ sending' = [sending EXCEPT ![m].pc = "failed"] /\ editing' = editing
            /\ sending[m].pc \in {"read", "created"}
        BY <3>2 DEF SendFails
      <4>2. /\ sending' \in [Note -> SendState]
            /\ \A k \in Note : /\ sending'[k].to = sending[k].to
                               /\ sending'[k].pc = IF k = m THEN "failed" ELSE sending[k].pc
                               /\ k # m => sending'[k] = sending[k]
        BY <1>10, <4>1
      <4>3. HistoryTypes'
        BY <1>1, <1>2, <2>1, <4>1, <4>2 DEF HistoryTypes
      <4> QED
        BY <1>1, <4>2, <4>3 DEF NotesInTime
    <3>3. CASE ReadsNote(m)
      <4>1. editing' = [editing EXCEPT ![m] = {note[m].deleted}] /\ sending' = sending
        BY <3>3 DEF ReadsNote
      <4>2. note[m].deleted \in BOOLEAN
        BY <1>9 DEF NoteRow
      <4>3. editing' \in [Note -> SUBSET BOOLEAN]
        BY <1>1, <4>1, <4>2 DEF HistoryTypes
      <4> QED
        BY <1>1, <1>2, <2>1, <4>1, <4>3 DEF HistoryTypes, NotesInTime
    <3> QED
      BY <1>4, <3>1, <3>2, <3>3
  <2>3. NotesInTime'
    BY <1>1, <1>2, <2>1, <2>2 DEF NotesInTime, HistoryTypes, NoteRow
  <2>4. ReceiptsHold'
    BY <1>1, <1>2, <2>1, <2>2 DEF ReceiptsHold
  <2> QED
    BY <1>3, <2>2, <2>3, <2>4 DEF HistoryInv
<1>5. CASE CreatesNote(m)
  <2>1. /\ note' = [note EXCEPT ![m].at = clock + 1] /\ clock' = clock + 1
        /\ sending' = [sending EXCEPT ![m].pc = "created"]
        /\ copy' = copy /\ editing' = editing
    BY <1>5 DEF CreatesNote, Tick
  <2> DEFINE n == [note[m] EXCEPT !.at = clock + 1]
  <2>5. n \in NoteRow /\ n.at = clock + 1
    BY <1>2, <1>9 DEF NoteRow
  <2>6. note' = [note EXCEPT ![m] = n]
    BY <2>1
  <2> HIDE DEF n
  <2>7. /\ note' \in [Note -> NoteRow]
        /\ \A k \in Note : note'[k] = IF k = m THEN n ELSE note[k]
    BY <1>8, <2>5, <2>6
  <2>2. HistoryTypes'
    <3>1. sending' \in [Note -> SendState]
      BY <1>10, <2>1
    <3>2. copy' = copy /\ editing' = editing /\ clock' \in Nat
      BY <1>2, <2>1
    <3> QED
      BY <1>1, <1>2, <2>7, <3>1, <3>2 DEF HistoryTypes
  <2>3. NotesInTime'
    BY <1>1, <1>2, <2>1, <2>5, <2>7 DEF NotesInTime, HistoryTypes, NoteRow
  <2>4. ReceiptsHold'
    BY <1>1, <1>2, <2>1, <2>5, <2>7 DEF ReceiptsHold, HistoryTypes, NoteRow, SendState
  <2> QED
    BY <1>3, <2>2, <2>3, <2>4 DEF HistoryInv
<1>6. CASE SavesReceipts(m)
  <2> DEFINE row == [u \in Person |-> IF u \in sending[m].to THEN "kept" ELSE copy[m][u]]
  <2>1. /\ copy' = [copy EXCEPT ![m] = row] /\ sending' = [sending EXCEPT ![m].pc = "saved"]
        /\ note' = note /\ editing' = editing /\ clock' = clock
        /\ sending[m].pc = "created"
    BY <1>6 DEF SavesReceipts
  <2>2. row \in [Person -> {"none", "kept", "deleted"}]
    BY <1>1 DEF HistoryTypes
  <2>3. \A u \in sending[m].to : row[u] = "kept"
    BY <1>1 DEF HistoryTypes, SendState
  <2> HIDE DEF row
  <2>7. sending' \in [Note -> SendState]
    BY <1>10, <2>1
  <2>8. copy' \in [Note -> [Person -> {"none", "kept", "deleted"}]]
    BY <1>1, <2>1, <2>2 DEF HistoryTypes
  <2>4. HistoryTypes'
    BY <1>1, <1>2, <2>1, <2>7, <2>8 DEF HistoryTypes
  <2>5. NotesInTime'
    BY <1>1, <1>2, <2>1 DEF NotesInTime, HistoryTypes, NoteRow
  <2>6. ReceiptsHold'
    BY <1>1, <1>2, <2>1, <2>3 DEF ReceiptsHold, HistoryTypes, NoteRow, SendState
  <2> QED
    BY <1>3, <2>4, <2>5, <2>6 DEF HistoryInv
<1>7. CASE DeleteForEveryone(m) \/ SavesNote(m) \/ \E u \in Person : DeleteForUser(m, u)
  <2>1. sending' = sending
    BY <1>7 DEF DeleteForEveryone, SavesNote, DeleteForUser
  <2>2. /\ HistoryTypes' /\ \A n \in Note : note'[n].at = note[n].at
        /\ \A n \in Note, u \in Person : copy'[n][u] = "none" => copy[n][u] = "none"
    <3>4. ASSUME NEW n \in NoteRow, n.at = note[m].at, note' = [note EXCEPT ![m] = n],
                 copy' = copy, editing' \in [Note -> SUBSET BOOLEAN]
          PROVE  <2>2!:
      BY <1>1, <1>2, <1>8, <2>1, <3>4 DEF HistoryTypes
    <3>1. CASE DeleteForEveryone(m)
      <4> DEFINE n == [note[m] EXCEPT !.deleted = TRUE]
      <4>1. n \in NoteRow /\ n.at = note[m].at
        BY <1>9 DEF NoteRow
      <4>2. note' = [note EXCEPT ![m] = n] /\ copy' = copy /\ editing' = editing
        BY <3>1 DEF DeleteForEveryone
      <4> HIDE DEF n
      <4> QED
        BY <1>1, <3>4, <4>1, <4>2 DEF HistoryTypes
    <3>2. CASE SavesNote(m)
      <4>1. PICK was \in editing[m] : note' = [note EXCEPT ![m].deleted = was]
        BY <3>2 DEF SavesNote
      <4> DEFINE n == [note[m] EXCEPT !.deleted = was]
      <4>2. n \in NoteRow /\ n.at = note[m].at
        BY <1>1, <1>9 DEF NoteRow, HistoryTypes
      <4>3. /\ note' = [note EXCEPT ![m] = n] /\ copy' = copy
            /\ editing' = [editing EXCEPT ![m] = {}]
        BY <3>2, <4>1 DEF SavesNote
      <4> HIDE DEF n
      <4>4. editing' \in [Note -> SUBSET BOOLEAN]
        BY <1>1, <4>3 DEF HistoryTypes
      <4> QED
        BY <3>4, <4>2, <4>3, <4>4
    <3>3. ASSUME NEW u \in Person, DeleteForUser(m, u) PROVE <2>2!:
      <4>1. CASE u = AuthorOf[m]
        <5> DEFINE n == [note[m] EXCEPT !.deletedForMe = TRUE]
        <5>1. n \in NoteRow /\ n.at = note[m].at
          BY <1>9 DEF NoteRow
        <5>2. note' = [note EXCEPT ![m] = n] /\ copy' = copy /\ editing' = editing
          BY <3>3, <4>1 DEF DeleteForUser
        <5> HIDE DEF n
        <5> QED
          BY <1>1, <3>4, <5>1, <5>2 DEF HistoryTypes
      <4>2. CASE u # AuthorOf[m]
        <5> DEFINE c == [copy[m] EXCEPT ![u] = IF @ = "none" THEN "none" ELSE "deleted"]
        <5>1. /\ c \in [Person -> {"none", "kept", "deleted"}]
              /\ \A v \in Person : c[v] = "none" => copy[m][v] = "none"
          BY <1>1 DEF HistoryTypes
        <5>2. copy' = [copy EXCEPT ![m] = c] /\ note' = note /\ editing' = editing
          BY <3>3, <4>2 DEF DeleteForUser
        <5> HIDE DEF c
        <5> QED
          BY <1>1, <1>2, <2>1, <5>1, <5>2 DEF HistoryTypes
      <4> QED
        BY <4>1, <4>2
    <3> QED
      BY <1>7, <3>1, <3>2, <3>3
  <2>3. NotesInTime'
    BY <1>1, <1>2, <2>1, <2>2 DEF NotesInTime, HistoryTypes, NoteRow
  <2>4. ReceiptsHold'
    BY <1>1, <1>2, <2>1, <2>2 DEF ReceiptsHold, HistoryTypes, NoteRow, SendState
  <2> QED
    BY <1>3, <2>2, <2>3, <2>4 DEF HistoryInv
<1> QED
  BY <1>4, <1>5, <1>6, <1>7

\* The chat keeps the inductive invariant, for any people and messages.
THEOREM HistoryInvariant == HistorySpec => []HistoryInv
<1>1. HistoryInit => HistoryInv
  BY HistoryAssumption DEF HistoryInit, HistoryInv, HistoryTypes, SeatsInTime, NotesInTime,
     ReceiptsHold, NoNote, NoReceipts, NoteRow, SendState
<1>2. HistoryInv /\ [HistoryNext]_historyVars => HistoryInv'
  <2> SUFFICES ASSUME HistoryInv, [HistoryNext]_historyVars PROVE HistoryInv'
    OBVIOUS
  <2>1. CASE UNCHANGED historyVars
    BY <2>1 DEF historyVars, HistoryInv, HistoryTypes, SeatsInTime, NotesInTime, ReceiptsHold
  <2> QED
    BY <2>1, SeatStep, MarkStep, NoteStep DEF HistoryNext
<1> QED
  BY <1>1, <1>2, PTL DEF HistorySpec

\* Nobody who left and came back is shown what was sent before, what was sent to a member
\* is shown to her until she deletes it, and what counts as unread is shown or has a reason
\* not to be: for any people, messages and interleaving of handlers.
THEOREM HistoriesAreTheirs == HistorySpec => []HistoryIsTheirs
<1>1. HistoryInv => HistoryIsTheirs
  <2> SUFFICES ASSUME HistoryInv, NEW u \in Members
               PROVE  /\ \A m \in ChatMessages(u) : note[m].at > left[u]
                      /\ \A m \in Created : \A row \in seats[u] :
                           sending[m].pc = "saved" /\ u \in sending[m].to
                           /\ note[m].at >= row.joinedAt =>
                             (m \in ChatMessages(u)) = (copy[m][u] # "deleted" \/ note[m].deleted)
                      /\ \A pair \in Unread(u) :
                           LET m == pair[2] IN \/ m \in ChatMessages(u)
                                               \/ sending[m].pc \in {"created", "failed"}
                                               \/ u \notin sending[m].to
                                               \/ copy[m][u] = "deleted"
    BY DEF HistoryIsTheirs
  <2>1. HistoryTypes /\ SeatsInTime /\ NotesInTime /\ ReceiptsHold /\ u \in Person
    BY DEF HistoryInv, Members
  <2>2. \A row \in seats[u] : row.joinedAt \in Nat /\ left[u] < row.joinedAt /\ left[u] \in Nat
    BY <2>1 DEF HistoryTypes, SeatsInTime, Seat
  <2>3. \A m \in Created : m \in Note /\ note[m].at \in Nat /\ note[m].at > 0
    BY <2>1 DEF Created, HistoryTypes, NoteRow
  <2>4. \A m \in ChatMessages(u) : note[m].at > left[u]
    BY <2>2, <2>3 DEF ChatMessages
  <2>5. ASSUME NEW m \in Created, NEW row \in seats[u], sending[m].pc = "saved",
               u \in sending[m].to, note[m].at >= row.joinedAt
        PROVE  (m \in ChatMessages(u)) = (copy[m][u] # "deleted" \/ note[m].deleted)
    <3>1. AuthorOf[m] # u
      BY <2>1, <2>3, <2>5 DEF NotesInTime
    <3>2. copy[m][u] # "none"
      BY <2>1, <2>2, <2>3, <2>5 DEF ReceiptsHold
    <3>3. copy[m][u] \in {"kept", "deleted"} /\ note[m].deleted \in BOOLEAN
      BY <2>1, <2>3, <3>2 DEF HistoryTypes, NoteRow
    <3>4. m \in ChatMessages(u) <=> Allowed(u, m)
      BY <2>5 DEF ChatMessages
    <3>5. Allowed(u, m) <=> (copy[m][u] # "deleted" \/ note[m].deleted)
      BY <3>1, <3>3 DEF Allowed
    <3> QED
      BY <3>4, <3>5
  <2>6. ASSUME NEW pair \in Unread(u), sending[pair[2]].pc \notin {"created", "failed"},
               u \in sending[pair[2]].to, copy[pair[2]][u] # "deleted"
        PROVE  pair[2] \in ChatMessages(u)
    <3>1. /\ pair[1] \in seats[u] /\ pair[2] \in Created
          /\ note[pair[2]].at >= pair[1].joinedAt
      BY DEF Unread
    <3>2. sending[pair[2]].pc = "saved"
      BY <2>1, <2>3, <2>6, <3>1 DEF NotesInTime
    <3> QED
      BY <2>5, <2>6, <3>1, <3>2
  <2> QED
    BY <2>4, <2>5, <2>6
<1> QED
  BY <1>1, HistoryInvariant, PTL

\* An author has no receipt for her own message, and none that is being saved.
AuthorsHaveNone ==
  \A m \in Note : copy[m][AuthorOf[m]] = "none" /\ marking[AuthorOf[m]][m] = "none"

\* What u deleted for herself is not kept, and nobody is to save it again.
ErasedFor(m, u) ==
  /\ note[m].at > 0
  /\ u = AuthorOf[m] => note[m].deletedForMe
  /\ copy[m][u] # "kept" /\ ~SavesLater(m, u)

DeletionsHold ==
  /\ AuthorsHaveNone
  /\ \A m \in Note : <<m, Everyone>> \in erased => note[m].deleted /\ FALSE \notin editing[m]
  /\ \A m \in Note, u \in Person : <<m, u>> \in erased => ErasedFor(m, u)

\* A step that forgets no deletion and adds none.
LEMMA DeletionsStay ==
  ASSUME HistoryInv, DeletionsHold, AuthorsHaveNone', erased' = erased,
         \A m \in Note : note[m].deleted /\ FALSE \notin editing[m] =>
                           note'[m].deleted /\ FALSE \notin editing'[m],
         \A m \in Note, u \in Person : ErasedFor(m, u) => ErasedFor(m, u)'
  PROVE  DeletionsHold'
  BY DEF DeletionsHold

\* Members come and go, and mark what they have read.
LEMMA MemberDeletes ==
  ASSUME HistoryInv, DeletionsHold, NEW v \in Person,
         \/ ExitGroupChat(v) \/ FindsReceipts(v) \/ MarkRead(v)
         \/ \E users \in SUBSET (Person \ {v}) : CreateGroupChat(v, users) \/ AddChatMembers(v, users)
  PROVE  DeletionsHold'
<1>1. /\ HistoryTypes /\ AuthorsHaveNone
      /\ copy \in [Note -> [Person -> {"none", "kept", "deleted"}]]
      /\ marking \in [Person -> [Note -> {"none", "kept", "deleted"}]]
      /\ \A m \in Note : AuthorOf[m] \in Person
  BY HistoryAssumption DEF HistoryInv, DeletionsHold, HistoryTypes
<1>2. note' = note /\ sending' = sending /\ editing' = editing /\ erased' = erased
  BY DEF ExitGroupChat, FindsReceipts, MarkRead, CreateGroupChat, AddChatMembers
<1>3. /\ \A m \in Note, u \in Person : copy'[m][u] = "kept" => copy[m][u] = "kept" \/ marking[u][m] = "kept"
      /\ \A m \in Note, u \in Person : marking'[u][m] = "kept" => copy[m][u] = "kept" \/ marking[u][m] = "kept"
      /\ \A m \in Note, u \in Person : copy[m][u] = "none" /\ marking[u][m] = "none" =>
                                         copy'[m][u] = "none" /\ marking'[u][m] = "none"
  <2>1. CASE ExitGroupChat(v)
    BY <1>1, <2>1 DEF ExitGroupChat
  <2>2. CASE FindsReceipts(v)
    <3>1. PICK S \in SUBSET Note :
            marking' = [marking EXCEPT ![v] = [m \in Note |-> IF m \in S THEN copy[m][v] ELSE "none"]]
      BY <2>2 DEF FindsReceipts
    <3>2. copy' = copy
      BY <2>2 DEF FindsReceipts
    <3> QED
      BY <1>1, <3>1, <3>2
  <2>3. CASE MarkRead(v)
    BY <1>1, <2>3 DEF MarkRead, Saved, NoReceipts
  <2>4. CASE \E users \in SUBSET (Person \ {v}) : CreateGroupChat(v, users) \/ AddChatMembers(v, users)
    BY <2>4 DEF CreateGroupChat, AddChatMembers
  <2> QED
    BY <2>1, <2>2, <2>3, <2>4
<1>4. AuthorsHaveNone'
  BY <1>1, <1>3 DEF AuthorsHaveNone
<1>5. ASSUME NEW m \in Note, NEW u \in Person, ErasedFor(m, u)
      PROVE  ErasedFor(m, u)'
  <2>1. copy[m][u] # "kept" /\ marking[u][m] # "kept"
    BY <1>1, <1>5 DEF ErasedFor, SavesLater, AuthorsHaveNone
  <2>2. copy'[m][u] # "kept" /\ marking'[u][m] # "kept"
    BY <1>3, <2>1
  <2> QED
    BY <1>2, <1>5, <2>2 DEF ErasedFor, SavesLater
<1> QED
  BY <1>2, <1>4, <1>5, DeletionsStay

\* A message is sent, edited and deleted.
LEMMA NoteDeletes ==
  ASSUME HistoryInv, DeletionsHold, NEW k \in Note,
         \/ ReadsMembers(k) \/ CreatesNote(k) \/ SavesReceipts(k) \/ SendFails(k)
         \/ ReadsNote(k) \/ SavesNote(k)
  PROVE  DeletionsHold'
<1>1. /\ HistoryTypes /\ AuthorsHaveNone /\ NotesInTime
      /\ copy \in [Note -> [Person -> {"none", "kept", "deleted"}]]
      /\ \A m \in Note : AuthorOf[m] \in Person /\ note[m] \in NoteRow /\ sending[m] \in SendState
      /\ note \in [Note -> NoteRow] /\ sending \in [Note -> SendState]
      /\ editing \in [Note -> SUBSET BOOLEAN]
  BY HistoryAssumption DEF HistoryInv, DeletionsHold, HistoryTypes
<1>2. marking' = marking /\ erased' = erased
  BY DEF ReadsMembers, CreatesNote, SavesReceipts, SendFails, ReadsNote, SavesNote
<1>3. CASE ReadsMembers(k)
  <2>1. /\ sending[k].pc = "idle" /\ note' = note /\ copy' = copy /\ editing' = editing
        /\ sending' = [sending EXCEPT ![k] = [pc |-> "read", to |-> Members \ {AuthorOf[k]}]]
    BY <1>3 DEF ReadsMembers
  <2>2. \A m \in Note : sending'[m].pc = "created" => sending'[m] = sending[m]
    BY <1>1, <2>1
  <2>3. AuthorsHaveNone'
    BY <1>1, <1>2, <2>1 DEF AuthorsHaveNone
  <2>4. ASSUME NEW m \in Note, NEW u \in Person, ErasedFor(m, u)
        PROVE  ErasedFor(m, u)'
    BY <1>2, <2>1, <2>2, <2>4 DEF ErasedFor, SavesLater
  <2> QED
    BY <1>2, <2>1, <2>3, <2>4, DeletionsStay
<1>4. CASE CreatesNote(k)
  <2>1. /\ sending[k].pc = "read" /\ note' = [note EXCEPT ![k].at = clock + 1]
        /\ copy' = copy /\ editing' = editing
        /\ sending' = [sending EXCEPT ![k].pc = "created"]
    BY <1>4 DEF CreatesNote
  <2>2. ~(note[k].at > 0)
    BY <1>1, <2>1 DEF NotesInTime
  <2>3. \A m \in Note : /\ note'[m].deleted = note[m].deleted
                        /\ m # k => note'[m] = note[m] /\ sending'[m] = sending[m]
    BY <1>1, <2>1 DEF NoteRow
  <2>4. AuthorsHaveNone'
    BY <1>1, <1>2, <2>1 DEF AuthorsHaveNone
  <2>5. ASSUME NEW m \in Note, NEW u \in Person, ErasedFor(m, u)
        PROVE  ErasedFor(m, u)'
    <3>1. m # k
      BY <2>2, <2>5 DEF ErasedFor
    <3> QED
      BY <1>2, <2>1, <2>3, <2>5, <3>1 DEF ErasedFor, SavesLater
  <2> QED
    BY <1>2, <2>1, <2>3, <2>4, <2>5, DeletionsStay
<1>5. CASE SavesReceipts(k)
  <2> DEFINE row == [u \in Person |-> IF u \in sending[k].to THEN "kept" ELSE copy[k][u]]
  <2>1. /\ sending[k].pc = "created" /\ note' = note /\ editing' = editing
        /\ copy' = [copy EXCEPT ![k] = row] /\ sending' = [sending EXCEPT ![k].pc = "saved"]
    BY <1>5 DEF SavesReceipts
  <2>2. \A m \in Note, u \in Person :
          copy'[m][u] = IF m = k /\ u \in sending[k].to THEN "kept" ELSE copy[m][u]
    BY <1>1, <2>1
  <2>3. \A m \in Note : sending'[m].pc = "created" => sending'[m] = sending[m]
    BY <1>1, <2>1 DEF SendState
  <2>4. AuthorsHaveNone'
    <3>1. \A m \in Note : AuthorOf[m] \notin sending[m].to
      BY <1>1 DEF NotesInTime
    <3> QED
      BY <1>1, <1>2, <2>2, <3>1 DEF AuthorsHaveNone
  <2>5. ASSUME NEW m \in Note, NEW u \in Person, ErasedFor(m, u)
        PROVE  ErasedFor(m, u)'
    <3>1. m = k => u \notin sending[k].to
      BY <1>1, <2>1, <2>5 DEF ErasedFor, SavesLater, NotesInTime
    <3>2. copy'[m][u] # "kept"
      BY <2>2, <2>5, <3>1 DEF ErasedFor
    <3>3. ~SavesLater(m, u)'
      BY <1>2, <2>3, <2>5 DEF ErasedFor, SavesLater
    <3> QED
      BY <2>1, <2>5, <3>2, <3>3 DEF ErasedFor
  <2> QED
    BY <1>2, <2>1, <2>4, <2>5, DeletionsStay
<1>6. CASE SendFails(k)
  <2>1. /\ note' = note /\ copy' = copy /\ editing' = editing
        /\ sending' = [sending EXCEPT ![k].pc = "failed"]
    BY <1>6 DEF SendFails
  <2>2. \A m \in Note : sending'[m].pc = "created" => sending'[m] = sending[m]
    BY <1>1, <2>1 DEF SendState
  <2>3. AuthorsHaveNone'
    BY <1>1, <1>2, <2>1 DEF AuthorsHaveNone
  <2>4. ASSUME NEW m \in Note, NEW u \in Person, ErasedFor(m, u)
        PROVE  ErasedFor(m, u)'
    BY <1>2, <2>1, <2>2, <2>4 DEF ErasedFor, SavesLater
  <2> QED
    BY <1>2, <2>1, <2>3, <2>4, DeletionsStay
<1>7. CASE ReadsNote(k)
  <2>1. /\ note' = note /\ copy' = copy /\ sending' = sending
        /\ editing' = [editing EXCEPT ![k] = {note[k].deleted}]
    BY <1>7 DEF ReadsNote
  <2>2. \A m \in Note : editing'[m] = IF m = k THEN {note[k].deleted} ELSE editing[m]
    BY <1>1, <2>1
  <2>3. AuthorsHaveNone'
    BY <1>1, <1>2, <2>1 DEF AuthorsHaveNone
  <2>4. ASSUME NEW m \in Note, NEW u \in Person, ErasedFor(m, u)
        PROVE  ErasedFor(m, u)'
    BY <1>2, <2>1, <2>4 DEF ErasedFor, SavesLater
  <2>5. ASSUME NEW m \in Note, note[m].deleted, FALSE \notin editing[m]
        PROVE  FALSE \notin editing'[m]
    <3>1. note[m].deleted = TRUE
      BY <1>1, <2>5 DEF NoteRow
    <3> QED
      BY <2>2, <2>5, <3>1
  <2> QED
    BY <1>2, <2>1, <2>3, <2>4, <2>5, DeletionsStay
<1>8. CASE SavesNote(k)
  <2>1. PICK was \in editing[k] : note' = [note EXCEPT ![k].deleted = was]
    BY <1>8 DEF SavesNote
  <2>2. copy' = copy /\ sending' = sending /\ editing' = [editing EXCEPT ![k] = {}]
    BY <1>8 DEF SavesNote
  <2>3. \A m \in Note : /\ note'[m].deleted = IF m = k THEN was ELSE note[m].deleted
                        /\ note'[m].at = note[m].at
                        /\ note'[m].deletedForMe = note[m].deletedForMe
                        /\ editing'[m] = IF m = k THEN {} ELSE editing[m]
    BY <1>1, <2>1, <2>2 DEF NoteRow
  <2>4. AuthorsHaveNone'
    BY <1>1, <1>2, <2>2 DEF AuthorsHaveNone
  <2>5. ASSUME NEW m \in Note, NEW u \in Person, ErasedFor(m, u)
        PROVE  ErasedFor(m, u)'
    BY <1>2, <2>2, <2>3, <2>5 DEF ErasedFor, SavesLater
  <2>6. was \in BOOLEAN
    BY <1>1
  <2>7. ASSUME NEW m \in Note, note[m].deleted, FALSE \notin editing[m]
        PROVE  note'[m].deleted /\ FALSE \notin editing'[m]
    <3>1. CASE m = k
      <4>1. was = TRUE
        BY <2>1, <2>6, <2>7, <3>1
      <4> QED
        BY <2>3, <3>1, <4>1
    <3>2. CASE m # k
      BY <2>3, <2>7, <3>2
    <3> QED
      BY <3>1, <3>2
  <2> QED
    BY <1>2, <2>4, <2>5, <2>7, DeletionsStay
<1> QED
  BY <1>3, <1>4, <1>5, <1>6, <1>7, <1>8

\* A deletion, which no later save is to undo if it is counted.
LEMMA DeleteDeletes ==
  ASSUME HistoryInv, DeletionsHold, NEW k \in Note,
         DeleteForEveryone(k) \/ \E v \in Person : DeleteForUser(k, v)
  PROVE  DeletionsHold'
<1>1. /\ HistoryTypes /\ AuthorsHaveNone
      /\ copy \in [Note -> [Person -> {"none", "kept", "deleted"}]]
      /\ \A m \in Note : AuthorOf[m] \in Person
      /\ note \in [Note -> NoteRow]
  BY HistoryAssumption DEF HistoryInv, DeletionsHold, HistoryTypes
<1>2. /\ marking' = marking /\ sending' = sending /\ editing' = editing
      /\ \A m \in Note, u \in Person : SavesLater(m, u)' <=> SavesLater(m, u)
  BY DEF DeleteForEveryone, DeleteForUser, SavesLater
<1>3. CASE DeleteForEveryone(k)
  <2>1. /\ note' = [note EXCEPT ![k].deleted = TRUE] /\ copy' = copy
        /\ erased' = erased \cup {pair \in {<<k, Everyone>>} : FALSE \notin editing[k]}
    BY <1>3 DEF DeleteForEveryone
  <2>2. \A m \in Note : /\ note'[m].deleted = IF m = k THEN TRUE ELSE note[m].deleted
                        /\ note'[m].at = note[m].at
                        /\ note'[m].deletedForMe = note[m].deletedForMe
    BY <1>1, <2>1 DEF NoteRow
  <2>3. AuthorsHaveNone'
    BY <1>1, <1>2, <2>1 DEF AuthorsHaveNone
  <2>4. ASSUME NEW m \in Note, <<m, Everyone>> \in erased'
        PROVE  note'[m].deleted /\ FALSE \notin editing'[m]
    <3>1. CASE <<m, Everyone>> \in erased
      BY <1>2, <2>2, <3>1 DEF DeletionsHold
    <3>2. CASE m = k /\ FALSE \notin editing[k]
      BY <1>2, <2>2, <3>2
    <3> QED
      BY <2>1, <2>4, <3>1, <3>2
  <2>5. ASSUME NEW m \in Note, NEW u \in Person, <<m, u>> \in erased'
        PROVE  ErasedFor(m, u)'
    <3>1. <<m, u>> \in erased
      BY <2>1, <2>5, HistoryAssumption
    <3>2. ErasedFor(m, u)
      BY <3>1 DEF DeletionsHold
    <3> QED
      BY <1>2, <2>1, <2>2, <3>2 DEF ErasedFor
  <2> QED
    BY <2>3, <2>4, <2>5 DEF DeletionsHold
<1>4. ASSUME NEW v \in Person, DeleteForUser(k, v)
      PROVE  DeletionsHold'
  <2>1. /\ note[k].at > 0
        /\ erased' = erased \cup {pair \in {<<k, v>>} : ~SavesLater(k, v)}
    BY <1>4 DEF DeleteForUser
  <2>2. /\ \A m \in Note : /\ note'[m].deleted = note[m].deleted /\ note'[m].at = note[m].at
                           /\ note[m].deletedForMe => note'[m].deletedForMe
        /\ v = AuthorOf[k] => note'[k].deletedForMe
    BY <1>1, <1>4 DEF DeleteForUser, NoteRow
  <2>3. /\ \A m \in Note, u \in Person : /\ copy'[m][u] = "kept" => copy[m][u] = "kept"
                                         /\ copy[m][u] = "none" => copy'[m][u] = "none"
        /\ v # AuthorOf[k] => copy'[k][v] # "kept"
    BY <1>1, <1>4 DEF DeleteForUser
  <2>4. AuthorsHaveNone'
    BY <1>1, <1>2, <2>3 DEF AuthorsHaveNone
  <2>5. ASSUME NEW m \in Note, <<m, Everyone>> \in erased'
        PROVE  note'[m].deleted /\ FALSE \notin editing'[m]
    <3>1. <<m, Everyone>> \in erased
      BY <2>1, <2>5, HistoryAssumption
    <3> QED
      BY <1>2, <2>2, <3>1 DEF DeletionsHold
  <2>6. ASSUME NEW m \in Note, NEW u \in Person, <<m, u>> \in erased'
        PROVE  ErasedFor(m, u)'
    <3>1. CASE <<m, u>> \in erased
      <4>1. ErasedFor(m, u)
        BY <3>1 DEF DeletionsHold
      <4> QED
        BY <1>2, <2>2, <2>3, <4>1 DEF ErasedFor
    <3>2. CASE m = k /\ u = v /\ ~SavesLater(k, v)
      <4>1. copy'[k][v] # "kept"
        BY <1>1, <2>3 DEF AuthorsHaveNone
      <4>2. note'[k].at > 0
        BY <2>1, <2>2
      <4> QED
        BY <1>2, <2>2, <3>2, <4>1, <4>2 DEF ErasedFor
    <3> QED
      BY <2>1, <2>6, <3>1, <3>2
  <2> QED
    BY <2>4, <2>5, <2>6 DEF DeletionsHold
<1> QED
  BY <1>3, <1>4

\* Deleted for herself or for everyone, a message stays so, whatever is read, edited, left
\* and joined after, unless a handler under way saves what it had read before: for any
\* people, messages and interleaving of handlers.
THEOREM DeletionsAreKept == HistorySpec => []DeletionsLast
<1>1. HistoryInit => DeletionsHold
  BY HistoryAssumption DEF HistoryInit, DeletionsHold, AuthorsHaveNone, NoReceipts
<1>2. HistoryInv /\ DeletionsHold /\ [HistoryNext]_historyVars => DeletionsHold'
  <2> SUFFICES ASSUME HistoryInv, DeletionsHold, [HistoryNext]_historyVars PROVE DeletionsHold'
    OBVIOUS
  <2>1. CASE UNCHANGED historyVars
    BY <2>1 DEF historyVars, DeletionsHold, AuthorsHaveNone, ErasedFor, SavesLater
  <2> QED
    BY <2>1, MemberDeletes, NoteDeletes, DeleteDeletes DEF HistoryNext
<1>3. DeletionsHold => DeletionsLast
  <2> SUFFICES ASSUME DeletionsHold, NEW m \in Note, NEW u \in Person, <<m, u>> \in erased,
                      m \in ChatMessages(u)
               PROVE  note[m].deleted
    BY DEF DeletionsHold, DeletionsLast
  <2>1. ErasedFor(m, u) /\ Allowed(u, m)
    BY DEF DeletionsHold, ChatMessages
  <2> QED
    BY <2>1 DEF ErasedFor, Allowed
<1> QED
  BY <1>1, <1>2, <1>3, HistoryInvariant, PTL DEF HistorySpec

-----------------------------------------------------------------------------
(* The counters of a post                                                  *)

EditPc == {"reply", "delete", "approve", "reject"}
Job == [pc : {"idle"} \cup Mark \cup EditPc, u : User \cup {"none"}, id : 0 .. MaxComments,
        row : Comment, had : BOOLEAN]

EngageTypes ==
  /\ marks \in [Mark -> SUBSET (User \cup {"none"})] /\ markCount \in [Mark -> Int]
  /\ \A k \in Mark : IsFiniteSet(marks[k])
  /\ comments \in Seq(Comment) /\ Len(comments) <= MaxComments
  /\ commentCount \in Int /\ counted \subseteq DOMAIN comments
  /\ work \in [Server -> Job]

\* Comments that are deleted, or were when a transaction read them that will save them.
Deleted ==
  {i \in DOMAIN comments :
     \/ comments[i].deleted
     \/ \E s \in Server : work[s].pc \in EditPc /\ work[s].id = i /\ work[s].row.deleted}

Answers(i) == {j \in counted : i \in {comments[j].parent, comments[j].replyTo}}

\* A row that was read is one of a comment that exists, in the same place, and has no more
\* replies than were counted.
RowSound(j) ==
  j.pc \in EditPc =>
    /\ j.id \in DOMAIN comments
    /\ j.row.parent = comments[j.id].parent /\ j.row.replyTo = comments[j.id].replyTo
    /\ j.row.replies <= Cardinality(Answers(j.id))
RowsHold == \A s \in Server : RowSound(work[s])

MarksHold == \A k \in Mark : markCount[k] <= Cardinality(marks[k])
CommentsHold == commentCount <= Cardinality(counted \ Deleted)
RepliesHold == \A i \in DOMAIN comments : comments[i].replies <= Cardinality(Answers(i))

EngageInv == EngageTypes /\ RowsHold /\ MarksHold /\ CommentsHold /\ RepliesHold

LEMMA RestingJob ==
  /\ Resting \in Job /\ Resting.pc = "idle"
  /\ Nothing \in Comment /\ Nothing.replies = 0 /\ ~Nothing.deleted
  BY EngagementsAssumption DEF Resting, Nothing, Job, Comment

\* Sets of comments are finite.
LEMMA CommentsFinite ==
  ASSUME NEW q \in Seq(Comment), NEW S \in SUBSET (DOMAIN q)
  PROVE  /\ IsFiniteSet(S) /\ Cardinality(S) \in Nat
         /\ \A T \in SUBSET S : Cardinality(T) <= Cardinality(S)
<1>1. DOMAIN q = 1 .. Len(q) /\ Len(q) \in Nat
  BY LenProperties
<1>2. IsFiniteSet(1 .. Len(q))
  BY <1>1, FS_Interval
<1> QED
  BY <1>1, <1>2, FS_Subset, FS_CardinalityType

\* The counters of replies move with a comment, and nothing else of the rows does.
LEMMA MovesRows ==
  ASSUME EngageTypes, NEW c \in Comment, NEW by \in Int
  PROVE  /\ Moves(c, by) \in Seq(Comment) /\ Len(Moves(c, by)) = Len(comments)
         /\ \A i \in DOMAIN comments :
              /\ Moves(c, by)[i] \in Comment
              /\ Moves(c, by)[i].parent = comments[i].parent
              /\ Moves(c, by)[i].replyTo = comments[i].replyTo
              /\ Moves(c, by)[i].deleted = comments[i].deleted
              /\ Moves(c, by)[i].replies = IF i \in {c.parent, c.replyTo} \ {0}
                                           THEN comments[i].replies + by ELSE comments[i].replies
<1> DEFINE m == Moves(c, by)
           touched == {c.parent, c.replyTo} \ {0}
<1>1. DOMAIN comments = 1 .. Len(comments) /\ Len(comments) \in Nat
  BY LenProperties DEF EngageTypes
<1>2. \A i \in DOMAIN comments : comments[i] \in Comment
  BY <1>1, ElementOfSeq DEF EngageTypes
<1>3. ASSUME NEW i \in DOMAIN comments
      PROVE  /\ m[i] \in Comment /\ m[i].parent = comments[i].parent
             /\ m[i].replyTo = comments[i].replyTo /\ m[i].deleted = comments[i].deleted
             /\ m[i].replies = IF i \in touched THEN comments[i].replies + by
                               ELSE comments[i].replies
  <2>1. m[i] = IF i \in touched THEN [comments[i] EXCEPT !.replies = @ + by] ELSE comments[i]
    BY DEF Moves
  <2>2. comments[i] \in Comment
    BY <1>2
  <2> HIDE DEF m, touched
  <2> QED
    BY <2>1, <2>2 DEF Comment
<1>4. m = [i \in 1 .. Len(comments) |-> m[i]]
  BY <1>1 DEF Moves
<1> HIDE DEF m
<1>5. m \in [1 .. Len(comments) -> Comment]
  BY <1>1, <1>3, <1>4
<1>6. m \in Seq(Comment) /\ Len(m) = Len(comments)
  BY <1>1, <1>5
<1> QED
  BY <1>3, <1>6 DEF m

\* What answers a comment only grows.
LEMMA AnswersGrow ==
  ASSUME comments \in Seq(Comment), comments' \in Seq(Comment),
         counted \subseteq DOMAIN comments, counted' \subseteq DOMAIN comments',
         counted \subseteq counted',
         \A i \in DOMAIN comments : /\ comments'[i].parent = comments[i].parent
                                    /\ comments'[i].replyTo = comments[i].replyTo
  PROVE  \A i : /\ Answers(i) \subseteq Answers(i)' /\ IsFiniteSet(Answers(i))
                /\ IsFiniteSet(Answers(i)')
                /\ Cardinality(Answers(i)) \in Nat /\ Cardinality(Answers(i)') \in Nat
                /\ Cardinality(Answers(i)) <= Cardinality(Answers(i)')
<1> TAKE i
<1>1. Answers(i) \subseteq Answers(i)'
  BY DEF Answers
<1>2. Answers(i) \in SUBSET (DOMAIN comments) /\ Answers(i)' \in SUBSET (DOMAIN comments')
  BY DEF Answers
<1> QED
  BY <1>1, <1>2, CommentsFinite

\* A transaction that commits changes of the comments.
LEMMA WriteStep ==
  ASSUME EngageInv, NEW s \in Server,
         work' = work \/ work' = [work EXCEPT ![s] = Resting],
         marks' = marks, markCount' = markCount,
         comments' \in Seq(Comment), Len(comments) <= Len(comments'), Len(comments') <= MaxComments,
         \A i \in DOMAIN comments : /\ comments'[i].parent = comments[i].parent
                                    /\ comments'[i].replyTo = comments[i].replyTo,
         counted \subseteq counted', counted' \subseteq DOMAIN comments', commentCount' \in Int,
         CommentsHold', RepliesHold'
  PROVE  EngageInv'
<1>1. EngageTypes /\ RowsHold /\ MarksHold
  BY DEF EngageInv
<1>2. \A t \in Server : work'[t] = work[t] \/ (work'[t] = Resting /\ work'[t].pc = "idle")
  BY <1>1, RestingJob DEF EngageTypes
<1>3. EngageTypes'
  BY <1>1, <1>2, RestingJob DEF EngageTypes
<1>4. MarksHold'
  BY <1>1 DEF MarksHold
<1>5. RowsHold'
  <2>1. DOMAIN comments \subseteq DOMAIN comments'
    BY <1>1, LenProperties DEF EngageTypes
  <2>2. ASSUME NEW j \in Job, RowSound(j) PROVE RowSound(j)'
    <3> SUFFICES ASSUME j.pc \in EditPc PROVE RowSound(j)'
      BY DEF RowSound
    <3>1. /\ j.id \in DOMAIN comments /\ j.row.parent = comments[j.id].parent
          /\ j.row.replyTo = comments[j.id].replyTo
          /\ j.row.replies <= Cardinality(Answers(j.id)) /\ j.row.replies \in Int
      BY <2>2 DEF RowSound, Job, Comment
    <3>2. /\ Cardinality(Answers(j.id)) \in Nat /\ Cardinality(Answers(j.id)') \in Nat
          /\ Cardinality(Answers(j.id)) <= Cardinality(Answers(j.id)')
      BY <1>1, AnswersGrow DEF EngageTypes
    <3>3. j.row.replies <= Cardinality(Answers(j.id)')
      BY <3>1, <3>2
    <3> QED
      BY <2>1, <3>1, <3>3 DEF RowSound
  <2>3. ASSUME NEW t \in Server PROVE RowSound(work[t])'
    <3>1. PICK j \in Job : j = work'[t]
      BY <1>3 DEF EngageTypes
    <3>2. RowSound(j)
      BY <1>1, <1>2, <3>1 DEF RowsHold, RowSound, EditPc
    <3>3. RowSound(j)'
      BY <2>2, <3>2
    <3> QED
      BY <3>1, <3>3 DEF RowSound, Answers
  <2> QED
    BY <2>3 DEF RowsHold
<1> QED
  BY <1>3, <1>4, <1>5 DEF EngageInv

\* A comment that is written, with its effects or without.
LEMMA AddStep ==
  ASSUME EngageInv, NEW s \in Server, NEW row \in Comment, row.replies = 0, ~row.deleted,
         Adds(s, row), work' = work \/ work' = [work EXCEPT ![s] = Resting],
         marks' = marks, markCount' = markCount
  PROVE  EngageInv'
<1> DEFINE n == Len(comments) + 1
           held == row.status = "pending"
           base == IF held THEN comments ELSE Moves(row, 1)
<1>1. EngageTypes /\ RowsHold /\ CommentsHold /\ RepliesHold
  BY DEF EngageInv
<1>2. /\ Len(comments) \in Nat /\ DOMAIN comments = 1 .. Len(comments) /\ n \in Nat
      /\ n \notin DOMAIN comments /\ n <= MaxComments
  BY <1>1, LenProperties, EngagementsAssumption DEF EngageTypes, Adds
<1>3. \A i \in DOMAIN comments : comments[i] \in Comment /\ comments[i].replies \in Int
  <2>1. \A i \in DOMAIN comments : comments[i] \in Comment
    BY <1>1, <1>2, ElementOfSeq DEF EngageTypes
  <2> QED
    BY <2>1 DEF Comment
<1>4. /\ base \in Seq(Comment) /\ Len(base) = Len(comments)
      /\ \A i \in DOMAIN comments :
           /\ base[i] \in Comment /\ base[i].parent = comments[i].parent
           /\ base[i].replyTo = comments[i].replyTo /\ base[i].deleted = comments[i].deleted
           /\ base[i].replies = IF ~held /\ i \in {row.parent, row.replyTo} \ {0}
                                THEN comments[i].replies + 1 ELSE comments[i].replies
  BY <1>1, <1>2, <1>3, MovesRows DEF EngageTypes
<1>5. /\ comments' = Append(base, row)
      /\ held => commentCount' = commentCount /\ counted' = counted
      /\ ~held => commentCount' = commentCount + 1 /\ counted' = counted \cup {n}
  BY DEF Adds
<1> HIDE DEF base
<1>6. /\ comments' \in Seq(Comment) /\ Len(comments') = n /\ DOMAIN comments' = 1 .. n
      /\ comments'[n] = row
      /\ \A i \in DOMAIN comments : i \in DOMAIN comments' /\ comments'[i] = base[i]
  BY <1>2, <1>4, <1>5, AppendProperties, LenProperties
<1>7. counted \subseteq counted' /\ counted' \subseteq DOMAIN comments' /\ n \notin counted
  BY <1>1, <1>2, <1>5, <1>6 DEF EngageTypes
<1>8. \A t \in Server : work'[t] = work[t] \/ work'[t].pc = "idle"
  BY <1>1, RestingJob DEF EngageTypes
<1>9. Deleted' \subseteq Deleted
  <2>1. ASSUME NEW i \in Deleted' PROVE i \in Deleted
    <3>1. CASE comments'[i].deleted
      <4>1. i # n /\ i \in DOMAIN comments
        BY <1>2, <1>6, <3>1 DEF Deleted
      <4> QED
        BY <1>4, <1>6, <3>1, <4>1 DEF Deleted
    <3>2. ASSUME NEW t \in Server, work'[t].pc \in EditPc, work'[t].id = i, work'[t].row.deleted
          PROVE  i \in Deleted
      <4>1. work'[t] = work[t]
        BY <1>8, <3>2 DEF EditPc
      <4> QED
        BY <1>1, <3>2, <4>1 DEF Deleted, RowsHold, RowSound
    <3> QED
      BY <3>1, <3>2 DEF Deleted
  <2> QED
    BY <2>1
<1>10. CommentsHold'
  <2> DEFINE S == counted \ Deleted
             T == counted' \ Deleted'
  <2>1. S \in SUBSET (DOMAIN comments) /\ T \in SUBSET (DOMAIN comments')
    BY <1>1, <1>7 DEF EngageTypes
  <2>2. /\ IsFiniteSet(S) /\ Cardinality(S) \in Nat /\ Cardinality(T) \in Nat
        /\ \A U \in SUBSET T : Cardinality(U) <= Cardinality(T)
    BY <1>1, <1>6, <2>1, CommentsFinite DEF EngageTypes
  <2>3. S \subseteq T /\ n \notin S /\ (~held => S \cup {n} \subseteq T)
    <3>1. n \notin Deleted'
      BY <1>2, <1>9 DEF Deleted
    <3> QED
      BY <1>5, <1>7, <1>9, <3>1
  <2>4. commentCount \in Int /\ commentCount <= Cardinality(S)
    BY <1>1 DEF CommentsHold, EngageTypes
  <2> HIDE DEF S, T
  <2>5. Cardinality(S \cup {n}) = Cardinality(S) + 1
    BY <2>2, <2>3, FS_AddElement
  <2>8. Cardinality(S) <= Cardinality(T)
    BY <2>2, <2>3
  <2>6. held => commentCount' <= Cardinality(T)
    BY <1>5, <2>2, <2>4, <2>8
  <2>7. ~held => commentCount' <= Cardinality(T)
    BY <1>5, <2>2, <2>3, <2>4, <2>5
  <2>9. commentCount' <= Cardinality(T)
    BY <2>6, <2>7
  <2> QED
    BY <2>9 DEF CommentsHold, T
<1>11. \A i : /\ Answers(i) \subseteq Answers(i)' /\ IsFiniteSet(Answers(i))
              /\ IsFiniteSet(Answers(i)')
              /\ Cardinality(Answers(i)) \in Nat /\ Cardinality(Answers(i)') \in Nat
              /\ Cardinality(Answers(i)) <= Cardinality(Answers(i)')
  BY <1>1, <1>4, <1>6, <1>7, AnswersGrow DEF EngageTypes
<1>12. RepliesHold'
  <2> SUFFICES ASSUME NEW i \in DOMAIN comments'
               PROVE  comments'[i].replies <= Cardinality(Answers(i)')
    BY DEF RepliesHold
  <2>1. CASE i = n
    BY <1>6, <1>11, <2>1
  <2>2. CASE i # n /\ ~held /\ i \in {row.parent, row.replyTo} \ {0}
    <3>1. i \in DOMAIN comments
      BY <1>2, <1>6, <2>2
    <3>2. comments'[i].replies = comments[i].replies + 1
      BY <1>4, <1>6, <2>2, <3>1
    <3>3. n \in Answers(i)' /\ n \notin Answers(i)
      BY <1>5, <1>6, <1>7, <2>2 DEF Answers
    <3>4. Answers(i) \cup {n} \subseteq Answers(i)'
      BY <1>11, <3>3
    <3>5. /\ Cardinality(Answers(i) \cup {n}) = Cardinality(Answers(i)) + 1
          /\ Cardinality(Answers(i) \cup {n}) <= Cardinality(Answers(i)')
      BY <1>11, <3>3, <3>4, FS_AddElement, FS_Subset
    <3> QED
      BY <1>1, <1>3, <1>11, <3>1, <3>2, <3>5 DEF RepliesHold
  <2>3. CASE i # n /\ ~(~held /\ i \in {row.parent, row.replyTo} \ {0})
    <3>1. i \in DOMAIN comments
      BY <1>2, <1>6, <2>3
    <3>2. comments'[i].replies = comments[i].replies
      BY <1>4, <1>6, <2>3, <3>1
    <3> QED
      BY <1>1, <1>3, <1>11, <3>1, <3>2 DEF RepliesHold
  <2> QED
    BY <2>1, <2>2, <2>3
<1> QED
  <2>1. \A i \in DOMAIN comments : /\ comments'[i].parent = comments[i].parent
                                   /\ comments'[i].replyTo = comments[i].replyTo
    BY <1>4, <1>6
  <2>2. commentCount' \in Int
    BY <1>1, <1>5 DEF EngageTypes
  <2> QED
    BY <1>2, <1>6, <1>7, <1>10, <1>12, <2>1, <2>2, WriteStep

\* A row that was read and is saved whole, over rows that kept their place and have no more
\* replies than before.
LEMMA SaveStep ==
  ASSUME EngageInv, NEW s \in Server, work[s].pc \in EditPc,
         work' = [work EXCEPT ![s] = Resting], marks' = marks, markCount' = markCount,
         NEW base \in Seq(Comment), Len(base) = Len(comments),
         \A i \in DOMAIN comments :
           /\ base[i].parent = comments[i].parent /\ base[i].replyTo = comments[i].replyTo
           /\ base[i].deleted = comments[i].deleted
           /\ base[i].replies <= comments[i].replies,
         NEW row \in Comment, row.parent = work[s].row.parent, row.replyTo = work[s].row.replyTo,
         row.replies = work[s].row.replies,
         comments' = [base EXCEPT ![work[s].id] = row], counted' = counted,
         \/ commentCount' = commentCount /\ row.deleted = work[s].row.deleted
         \/ commentCount' = commentCount - 1
  PROVE  EngageInv'
<1>1. EngageTypes /\ RowsHold /\ CommentsHold /\ RepliesHold
  BY DEF EngageInv
<1>2. PICK j \in Job : j = work[s]
  BY <1>1 DEF EngageTypes
<1>3. /\ Len(comments) \in Nat /\ DOMAIN comments = 1 .. Len(comments)
      /\ \A i \in DOMAIN comments : comments[i] \in Comment /\ comments[i].replies \in Int
  <2>1. Len(comments) \in Nat /\ DOMAIN comments = 1 .. Len(comments)
    BY <1>1, LenProperties DEF EngageTypes
  <2>2. \A i \in DOMAIN comments : comments[i] \in Comment
    BY <1>1, <2>1, ElementOfSeq DEF EngageTypes
  <2> QED
    BY <2>1, <2>2 DEF Comment
<1>4. /\ j.id \in DOMAIN comments /\ j.row.parent = comments[j.id].parent
      /\ j.row.replyTo = comments[j.id].replyTo /\ j.row.replies \in Int
      /\ j.row.replies <= Cardinality(Answers(j.id))
  BY <1>1, <1>2 DEF RowsHold, RowSound, Job, Comment
<1>5. DOMAIN base = DOMAIN comments /\ \A i \in DOMAIN comments : base[i].replies \in Int
  <2>1. DOMAIN base = 1 .. Len(base) /\ DOMAIN base = DOMAIN comments
    BY <1>3, LenProperties
  <2>2. \A i \in DOMAIN base : base[i] \in Comment
    BY <2>1, ElementOfSeq
  <2> QED
    BY <2>1, <2>2 DEF Comment
<1>6. /\ comments' \in Seq(Comment) /\ Len(comments') = Len(comments)
      /\ DOMAIN comments' = DOMAIN comments
      /\ \A i \in DOMAIN comments : comments'[i] = IF i = j.id THEN row ELSE base[i]
  BY <1>2, <1>3, <1>4, <1>5, ExceptSeq, LenProperties
<1>7. \A i \in DOMAIN comments : /\ comments'[i].parent = comments[i].parent
                                 /\ comments'[i].replyTo = comments[i].replyTo
  BY <1>2, <1>4, <1>6
<1>8. \A i : /\ Cardinality(Answers(i)) \in Nat /\ Cardinality(Answers(i)') \in Nat
             /\ Cardinality(Answers(i)) <= Cardinality(Answers(i)')
  BY <1>1, <1>6, <1>7, AnswersGrow DEF EngageTypes
<1>9. RepliesHold'
  <2> SUFFICES ASSUME NEW i \in DOMAIN comments
               PROVE  comments'[i].replies <= Cardinality(Answers(i)')
    BY <1>6 DEF RepliesHold
  <2>1. CASE i = j.id
    BY <1>2, <1>4, <1>6, <1>8, <2>1
  <2>2. CASE i # j.id
    BY <1>1, <1>3, <1>5, <1>6, <1>8, <2>2 DEF RepliesHold
  <2> QED
    BY <2>1, <2>2
<1>10. /\ Deleted' \subseteq Deleted \cup {j.id}
       /\ (row.deleted = j.row.deleted) => Deleted' \subseteq Deleted
  <2>1. \A t \in Server : work'[t] = work[t] \/ work'[t].pc = "idle"
    BY <1>1, RestingJob DEF EngageTypes
  <2>2. ASSUME NEW i \in Deleted', i # j.id PROVE i \in Deleted
    <3>1. i \in DOMAIN comments
      BY <1>6 DEF Deleted
    <3>2. comments'[i].deleted => comments[i].deleted
      BY <1>6, <2>2, <3>1
    <3> QED
      BY <2>1, <2>2, <3>1, <3>2 DEF Deleted, EditPc
  <2>3. ASSUME row.deleted = j.row.deleted, j.id \in Deleted' PROVE j.id \in Deleted
    <3>1. comments'[j.id].deleted => j.row.deleted
      BY <1>4, <1>6, <2>3
    <3>2. j.row.deleted => j.id \in Deleted
      BY <1>2, <1>4 DEF Deleted
    <3> QED
      BY <1>4, <2>1, <2>3, <3>1, <3>2 DEF Deleted, EditPc
  <2> QED
    BY <2>2, <2>3
<1>11. CommentsHold'
  <2> DEFINE S == counted \ Deleted
             T == counted' \ Deleted'
  <2>1. S \in SUBSET (DOMAIN comments) /\ T \in SUBSET (DOMAIN comments')
    BY <1>1, <1>6 DEF EngageTypes
  <2>2. /\ IsFiniteSet(S) /\ Cardinality(S) \in Nat /\ Cardinality(T) \in Nat
        /\ \A U \in SUBSET T : Cardinality(U) <= Cardinality(T)
    BY <1>1, <1>6, <2>1, CommentsFinite DEF EngageTypes
  <2>3. S \ {j.id} \subseteq T /\ ((row.deleted = j.row.deleted) => S \subseteq T)
    BY <1>10
  <2> HIDE DEF S, T
  <2>4. Cardinality(S \ {j.id}) >= Cardinality(S) - 1
    <3>1. Cardinality(S \ {j.id}) = IF j.id \in S THEN Cardinality(S) - 1 ELSE Cardinality(S)
      BY <2>2, FS_RemoveElement
    <3> QED
      BY <2>2, <3>1
  <2>5. commentCount' <= Cardinality(T)
    <3>1. commentCount \in Int /\ commentCount <= Cardinality(S)
      BY <1>1 DEF CommentsHold, EngageTypes, S
    <3>2. CASE commentCount' = commentCount /\ row.deleted = j.row.deleted
      BY <2>2, <2>3, <3>1, <3>2
    <3>3. CASE commentCount' = commentCount - 1
      <4>1. Cardinality(S \ {j.id}) <= Cardinality(T) /\ Cardinality(S \ {j.id}) \in Nat
        BY <2>2, <2>3, FS_RemoveElement, FS_CardinalityType
      <4> QED
        BY <2>2, <2>4, <3>1, <3>3, <4>1
    <3> QED
      BY <1>2, <3>2, <3>3
  <2> QED
    BY <2>5 DEF CommentsHold, T
<1> QED
  <2>1. commentCount' \in Int /\ counted' \subseteq DOMAIN comments' /\ counted \subseteq counted'
    BY <1>1, <1>6 DEF EngageTypes
  <2>2. Len(comments) <= Len(comments') /\ Len(comments') <= MaxComments
    BY <1>1, <1>3, <1>6 DEF EngageTypes
  <2> QED
    BY <1>6, <1>7, <1>9, <1>11, <2>1, <2>2, WriteStep

\* A transaction that reads what it will write.
LEMMA OpenStep ==
  ASSUME EngageInv, NEW s \in Server, NEW n \in Job, work' = [work EXCEPT ![s] = n],
         UNCHANGED <<marks, markCount, comments, commentCount, counted>>,
         n.pc \in EditPc => n.id \in DOMAIN comments /\ n.row = comments[n.id]
  PROVE  EngageInv'
<1>1. EngageTypes /\ RowsHold /\ MarksHold /\ CommentsHold /\ RepliesHold
  BY DEF EngageInv
<1>2. \A t \in Server : work'[t] = IF t = s THEN n ELSE work[t]
  BY <1>1 DEF EngageTypes
<1>3. EngageTypes'
  BY <1>1 DEF EngageTypes
<1>4. \A i : Answers(i)' = Answers(i)
  BY DEF Answers
<1>5. \A j : RowSound(j)' <=> RowSound(j)
  BY <1>4 DEF RowSound
<1>6. RowSound(n)
  BY <1>1 DEF RowSound, RepliesHold
<1>7. RowsHold'
  <2>1. ASSUME NEW t \in Server PROVE RowSound(work[t])'
    <3>1. PICK j \in Job : j = work'[t]
      BY <1>3 DEF EngageTypes
    <3>2. RowSound(j)'
      BY <1>1, <1>2, <1>5, <1>6, <3>1 DEF RowsHold
    <3> QED
      BY <3>1, <3>2 DEF RowSound, Answers
  <2> QED
    BY <2>1 DEF RowsHold
<1>8. Deleted' \subseteq Deleted
  BY <1>1, <1>2 DEF Deleted
<1>9. CommentsHold'
  <2> DEFINE S == counted \ Deleted
             T == counted' \ Deleted'
  <2>1. S \subseteq T /\ T \in SUBSET (DOMAIN comments)
    BY <1>1, <1>8 DEF EngageTypes
  <2>2. /\ Cardinality(T) \in Nat /\ \A U \in SUBSET T : Cardinality(U) <= Cardinality(T)
    BY <1>1, <2>1, CommentsFinite DEF EngageTypes
  <2>3. Cardinality(S) \in Nat
    BY <1>1, <2>1, CommentsFinite DEF EngageTypes
  <2>4. commentCount \in Int /\ commentCount <= Cardinality(S) /\ commentCount' = commentCount
    BY <1>1 DEF CommentsHold, EngageTypes
  <2> HIDE DEF S, T
  <2>5. Cardinality(S) <= Cardinality(T)
    BY <2>1, <2>2
  <2>6. commentCount' <= Cardinality(T)
    BY <2>2, <2>3, <2>4, <2>5
  <2> QED
    BY <2>6 DEF CommentsHold, T
<1>10. RepliesHold' /\ MarksHold'
  BY <1>1, <1>4 DEF RepliesHold, MarksHold
<1> QED
  BY <1>3, <1>7, <1>9, <1>10 DEF EngageInv

\* A toggle that commits: the count moves up only with a row, and a row that goes takes at
\* least itself off the count.
LEMMA ToggleStep ==
  ASSUME EngageInv, NEW s \in Server, NEW k \in Mark, ToggleWrites(s, k)
  PROVE  EngageInv'
<1> DEFINE u == work[s].u
           has == IF work[s].had THEN marks[k] \ {u} ELSE marks[k] \cup {u}
           by == IF work[s].had THEN -1 ELSE IF u \in marks[k] THEN 0 ELSE 1
<1>1. EngageTypes /\ RowsHold /\ MarksHold /\ CommentsHold /\ RepliesHold
  BY DEF EngageInv
<1>2. /\ marks' = [marks EXCEPT ![k] = has] /\ markCount' = [markCount EXCEPT ![k] = @ + by]
      /\ work' = [work EXCEPT ![s] = Resting]
      /\ comments' = comments /\ commentCount' = commentCount /\ counted' = counted
  BY DEF ToggleWrites, Commits, SetsMark
<1>3. /\ marks[k] \in SUBSET (User \cup {"none"}) /\ IsFiniteSet(marks[k]) /\ markCount[k] \in Int
      /\ u \in User \cup {"none"}
  BY <1>1 DEF EngageTypes, Job
<1>4. /\ has \in SUBSET (User \cup {"none"}) /\ IsFiniteSet(has) /\ by \in Int
      /\ Cardinality(has) >= Cardinality(marks[k]) + by
  <2>1. Cardinality(marks[k]) \in Nat
    BY <1>3, FS_CardinalityType
  <2> DEFINE M == marks[k]
  <2>2. /\ IsFiniteSet(M \cup {u}) /\ IsFiniteSet(M \ {u})
        /\ Cardinality(M \cup {u}) = IF u \in M THEN Cardinality(M) ELSE Cardinality(M) + 1
        /\ Cardinality(M \ {u}) = IF u \in M THEN Cardinality(M) - 1 ELSE Cardinality(M)
    BY <1>3, FS_AddElement, FS_RemoveElement
  <2> QED
    BY <1>3, <2>1, <2>2
<1>5. \A j \in Mark : /\ marks'[j] = IF j = k THEN has ELSE marks[j]
                      /\ markCount'[j] = IF j = k THEN markCount[k] + by ELSE markCount[j]
  BY <1>1, <1>2 DEF EngageTypes
<1> HIDE DEF has, by, u
<1>6. marks' \in [Mark -> SUBSET (User \cup {"none"})] /\ markCount' \in [Mark -> Int]
  BY <1>1, <1>2, <1>3, <1>4 DEF EngageTypes
<1>7. \A j \in Mark : IsFiniteSet(marks'[j]) /\ markCount'[j] <= Cardinality(marks'[j])
  <2>1. /\ Cardinality(marks[k]) \in Nat /\ Cardinality(has) \in Nat
        /\ markCount[k] <= Cardinality(marks[k])
    BY <1>1, <1>3, <1>4, FS_CardinalityType DEF MarksHold
  <2>2. markCount[k] + by <= Cardinality(has)
    BY <1>3, <1>4, <2>1
  <2> QED
    BY <1>1, <1>4, <1>5, <2>2 DEF EngageTypes, MarksHold
<1>8. /\ comments' \in Seq(Comment) /\ Len(comments') <= MaxComments
      /\ \A t \in Server : work'[t] = work[t] \/ (work'[t] = Resting /\ work'[t].pc = "idle")
      /\ work' \in [Server -> Job]
  BY <1>1, <1>2, RestingJob DEF EngageTypes
<1>9. EngageTypes'
  BY <1>1, <1>2, <1>6, <1>7, <1>8 DEF EngageTypes
<1>10. Deleted' \subseteq Deleted /\ \A i : Answers(i)' = Answers(i)
  BY <1>2, <1>8 DEF Deleted, EditPc, Answers
<1>11. RowsHold'
  <2>1. \A j : RowSound(j)' <=> RowSound(j)
    BY <1>2, <1>10 DEF RowSound
  <2>2. ASSUME NEW t \in Server PROVE RowSound(work[t])'
    <3>1. PICK j \in Job : j = work'[t]
      BY <1>8
    <3>2. RowSound(j)
      BY <1>1, <1>8, <3>1 DEF RowsHold, RowSound, EditPc
    <3> QED
      BY <2>1, <3>1, <3>2 DEF RowSound, Answers
  <2> QED
    BY <2>2 DEF RowsHold
<1>12. CommentsHold'
  <2> DEFINE S == counted \ Deleted
             T == counted' \ Deleted'
  <2>1. S \subseteq T /\ S \in SUBSET (DOMAIN comments) /\ T \in SUBSET (DOMAIN comments)
    BY <1>1, <1>2, <1>10 DEF EngageTypes
  <2>2. /\ Cardinality(S) \in Nat /\ Cardinality(T) \in Nat
        /\ \A U \in SUBSET T : Cardinality(U) <= Cardinality(T)
    BY <1>1, <2>1, CommentsFinite DEF EngageTypes
  <2>4. commentCount \in Int /\ commentCount <= Cardinality(S) /\ commentCount' = commentCount
    BY <1>1, <1>2 DEF CommentsHold, EngageTypes
  <2> HIDE DEF S, T
  <2>5. Cardinality(S) <= Cardinality(T)
    BY <2>1, <2>2
  <2>6. commentCount' <= Cardinality(T)
    BY <2>2, <2>4, <2>5
  <2> QED
    BY <2>6 DEF CommentsHold, T
<1>13. RepliesHold' /\ MarksHold'
  BY <1>1, <1>2, <1>7, <1>10 DEF RepliesHold, MarksHold
<1> QED
  BY <1>9, <1>11, <1>12, <1>13 DEF EngageInv

\* What a transaction opens with is a job.
LEMMA Opening ==
  ASSUME EngageInv, NEW s \in Server, NEW label, NEW f \in Job, Opens(s, label, f),
         \/ label \in Mark
         \/ label \in EditPc /\ f.id \in DOMAIN comments /\ f.row = comments[f.id]
  PROVE  EngageInv'
<1> DEFINE n == [f EXCEPT !.pc = label]
<1>1. n \in Job /\ n.pc = label /\ n.id = f.id /\ n.row = f.row
  BY DEF Job
<1>2. /\ work' = [work EXCEPT ![s] = n]
      /\ UNCHANGED <<marks, markCount, comments, commentCount, counted>>
  BY DEF Opens
<1> HIDE DEF n
<1>3. n.pc \in EditPc => n.id \in DOMAIN comments /\ n.row = comments[n.id]
  BY <1>1 DEF EditPc, Mark
<1> QED
  BY <1>1, <1>2, <1>3, OpenStep

\* The transactions that open.
OpeningSteps(s) ==
  \/ \E u \in User : ToggleLike(s, u) \/ ToggleBookmark(s, u) \/ ToggleRepost(s, u)
  \/ \E i \in Id : ReplyToComment(s, i) \/ DeleteComment(s, i)
  \/ \E i \in Id, verdict \in {"approve", "reject"} : ModerateComment(s, i, verdict)

LEMMA OpeningStep ==
  ASSUME EngageInv, NEW s \in Server, OpeningSteps(s)
  PROVE  EngageInv'
<1>1. EngageTypes
  BY DEF EngageInv
<1>2. \A u \in User, had \in BOOLEAN : [Resting EXCEPT !.u = u, !.had = had] \in Job
  BY RestingJob DEF Job
<1>3. ASSUME NEW u \in User, NEW k \in Mark, FindsMark(s, k, u) PROVE EngageInv'
  <2> DEFINE f == [Resting EXCEPT !.u = u, !.had = u \in marks[k]]
  <2>1. f \in Job
    <3>1. (u \in marks[k]) \in BOOLEAN
      OBVIOUS
    <3> QED
      BY <1>2, <3>1, Zenon
  <2>2. Opens(s, k, f)
    BY <1>3 DEF FindsMark
  <2> HIDE DEF f
  <2> QED
    BY <2>1, <2>2, Opening
<1>4. ASSUME NEW i \in DOMAIN comments, NEW label \in EditPc,
             Opens(s, label, [Resting EXCEPT !.id = i, !.row = comments[i]])
      PROVE  EngageInv'
  <2> DEFINE f == [Resting EXCEPT !.id = i, !.row = comments[i]]
  <2>1. DOMAIN comments = 1 .. Len(comments) /\ Len(comments) \in Nat
    BY <1>1, LenProperties DEF EngageTypes
  <2>2. i \in 0 .. MaxComments /\ comments[i] \in Comment
    BY <1>1, <2>1, ElementOfSeq, EngagementsAssumption DEF EngageTypes
  <2>3. f \in Job /\ f.id = i /\ f.row = comments[i]
    BY <2>2, RestingJob DEF Job
  <2> HIDE DEF f
  <2>4. f.id \in DOMAIN comments /\ f.row = comments[f.id]
    BY <2>3
  <2>5. Opens(s, label, f)
    BY <1>4 DEF f
  <2> QED
    BY <2>3, <2>4, <2>5, Opening
<1> QED
  BY <1>3, <1>4 DEF OpeningSteps, ToggleLike, ToggleBookmark, ToggleRepost, ReplyToComment,
     DeleteComment, ModerateComment, Mark, EditPc

\* The transactions that write comments.
CommentSteps(s) ==
  \/ \E status \in {"passed", "pending"} : CreateComment(s, status) \/ ReplyWrites(s, status)
  \/ DeleteWrites(s) \/ ApproveWrites(s) \/ RejectWrites(s)

LEMMA CommentStep ==
  ASSUME EngageInv, NEW s \in Server, CommentSteps(s)
  PROVE  EngageInv'
<1>1. EngageTypes /\ RowsHold
  BY DEF EngageInv
<1>2. PICK j \in Job : j = work[s]
  BY <1>1 DEF EngageTypes
<1>3. ASSUME NEW status \in {"passed", "pending"}, CreateComment(s, status) PROVE EngageInv'
  <2> DEFINE row == [Nothing EXCEPT !.status = status]
  <2>1. row \in Comment /\ row.replies = 0 /\ ~row.deleted
    BY RestingJob DEF Comment
  <2>2. Adds(s, row) /\ work' = work /\ marks' = marks /\ markCount' = markCount
    BY <1>3 DEF CreateComment
  <2> HIDE DEF row
  <2> QED
    BY <2>1, <2>2, AddStep
<1>4. ASSUME NEW status \in {"passed", "pending"}, ReplyWrites(s, status) PROVE EngageInv'
  <2> DEFINE parent == IF j.row.parent # 0 THEN j.row.parent ELSE j.id
             row == [Nothing EXCEPT !.parent = parent, !.replyTo = j.id, !.status = status]
  <2>1. parent \in 0 .. MaxComments /\ j.id \in 0 .. MaxComments
    BY DEF Job, Comment
  <2> HIDE DEF parent
  <2>2. row \in Comment /\ row.replies = 0 /\ ~row.deleted
    BY <2>1, RestingJob DEF Comment
  <2>3. /\ Adds(s, row) /\ work' = [work EXCEPT ![s] = Resting]
        /\ marks' = marks /\ markCount' = markCount
    BY <1>2, <1>4 DEF ReplyWrites, Commits, parent
  <2> HIDE DEF row
  <2> QED
    BY <2>2, <2>3, AddStep
<1>5. j.row \in Comment /\ (j.pc \in EditPc => j.id \in DOMAIN comments)
  BY <1>1, <1>2 DEF Job, RowsHold, RowSound
<1>6. ASSUME DeleteWrites(s) PROVE EngageInv'
  <2> DEFINE row == [j.row EXCEPT !.deleted = TRUE]
  <2>1. /\ row \in Comment /\ row.parent = j.row.parent /\ row.replyTo = j.row.replyTo
        /\ row.replies = j.row.replies
    BY <1>5 DEF Comment
  <2>2. /\ work[s].pc \in EditPc /\ work' = [work EXCEPT ![s] = Resting]
        /\ marks' = marks /\ markCount' = markCount /\ counted' = counted
        /\ commentCount' = commentCount - 1
        /\ comments' = [Moves(row, -1) EXCEPT ![j.id] = row]
    BY <1>2, <1>6 DEF DeleteWrites, Commits, EditPc
  <2> HIDE DEF row
  <2> DEFINE base == Moves(row, -1)
  <2>3. \A i \in DOMAIN comments : comments[i].replies \in Int
    <3>1. \A i \in DOMAIN comments : comments[i] \in Comment
      BY <1>1, LenProperties, ElementOfSeq DEF EngageTypes
    <3> QED
      BY <3>1 DEF Comment
  <2>4. /\ base \in Seq(Comment) /\ Len(base) = Len(comments)
        /\ \A i \in DOMAIN comments :
             /\ base[i].parent = comments[i].parent /\ base[i].replyTo = comments[i].replyTo
             /\ base[i].deleted = comments[i].deleted
             /\ base[i].replies <= comments[i].replies
    <3>1. /\ base \in Seq(Comment) /\ Len(base) = Len(comments)
          /\ \A i \in DOMAIN comments :
               /\ base[i].parent = comments[i].parent /\ base[i].replyTo = comments[i].replyTo
               /\ base[i].deleted = comments[i].deleted
               /\ base[i].replies = IF i \in {row.parent, row.replyTo} \ {0}
                                    THEN comments[i].replies + (-1) ELSE comments[i].replies
      <4>1. -1 \in Int
        OBVIOUS
      <4> QED
        BY <1>1, <2>1, <4>1, MovesRows
    <3> HIDE DEF base
    <3> QED
      BY <2>3, <3>1
  <2>5. comments' = [base EXCEPT ![work[s].id] = row]
    BY <1>2, <2>2
  <2>6. /\ row.parent = work[s].row.parent /\ row.replyTo = work[s].row.replyTo
        /\ row.replies = work[s].row.replies
    BY <1>2, <2>1
  <2>7. \/ commentCount' = commentCount /\ row.deleted = work[s].row.deleted
        \/ commentCount' = commentCount - 1
    BY <2>2
  <2>8. /\ work[s].pc \in EditPc /\ work' = [work EXCEPT ![s] = Resting]
        /\ marks' = marks /\ markCount' = markCount /\ counted' = counted
    BY <2>2
  <2> HIDE DEF base
  <2> QED
    BY <2>1, <2>4, <2>5, <2>6, <2>7, <2>8, SaveStep
<1>7. ASSUME ApproveWrites(s) \/ RejectWrites(s) PROVE EngageInv'
  <2> DEFINE row == [j.row EXCEPT !.status = IF ApproveWrites(s) THEN "passed" ELSE "rejected"]
  <2>1. /\ row \in Comment /\ row.parent = j.row.parent /\ row.replyTo = j.row.replyTo
        /\ row.replies = j.row.replies /\ row.deleted = j.row.deleted
        /\ row.status # "pending"
    BY <1>5 DEF Comment
  <2>2. /\ work[s].pc \in EditPc /\ work' = [work EXCEPT ![s] = Resting]
        /\ marks' = marks /\ markCount' = markCount /\ counted' = counted
        /\ commentCount' = commentCount
        /\ comments' = [comments EXCEPT ![j.id] = row]
    <3>1. CASE ApproveWrites(s)
      <4>1. row = [j.row EXCEPT !.status = "passed"]
        BY <3>1
      <4>2. FinalizePendingComment(row, j.id)
        BY <1>2, <3>1, <4>1 DEF ApproveWrites
      <4> HIDE DEF row
      <4> QED
        BY <2>1, <3>1, <4>2 DEF ApproveWrites, FinalizePendingComment, Commits, EditPc
    <3>2. CASE ~ApproveWrites(s)
      BY <1>2, <1>7, <3>2 DEF RejectWrites, Commits, EditPc
    <3> QED
      BY <3>1, <3>2
  <2> HIDE DEF row
  <2>3. \A i \in DOMAIN comments : comments[i].replies <= comments[i].replies
    <3>1. \A i \in DOMAIN comments : comments[i] \in Comment
      BY <1>1, LenProperties, ElementOfSeq DEF EngageTypes
    <3> QED
      BY <3>1 DEF Comment
  <2>4. comments \in Seq(Comment)
    BY <1>1 DEF EngageTypes
  <2> QED
    BY <1>2, <2>1, <2>2, <2>3, <2>4, SaveStep
<1> QED
  BY <1>3, <1>4, <1>6, <1>7 DEF CommentSteps

\* The counters of a post keep the inductive invariant.
THEOREM EngageInvariant == EngageSpec => []EngageInv
<1>1. EngageInit => EngageInv
  <2> SUFFICES ASSUME EngageInit PROVE EngageInv
    OBVIOUS
  <2>1. IsFiniteSet({}) /\ Cardinality({}) = 0
    BY FS_EmptySet
  <2>2. comments \in Seq(Comment) /\ Len(comments) = 0 /\ DOMAIN comments = {}
    BY EmptySeq, LenProperties DEF EngageInit
  <2>3. EngageTypes
    BY <2>1, <2>2, RestingJob, EngagementsAssumption DEF EngageInit, EngageTypes
  <2>4. counted \ Deleted = {} /\ \A s \in Server : work[s].pc \notin EditPc
    BY RestingJob DEF EngageInit, EditPc
  <2> QED
    BY <2>1, <2>2, <2>3, <2>4 DEF EngageInit, EngageInv, RowsHold, RowSound, MarksHold,
       CommentsHold, RepliesHold
<1>2. EngageInv /\ [EngageNext]_engageVars => EngageInv'
  <2> SUFFICES ASSUME EngageInv, [EngageNext]_engageVars PROVE EngageInv'
    OBVIOUS
  <2>1. CASE UNCHANGED engageVars
    <3>1. Deleted' = Deleted /\ \A i : Answers(i)' = Answers(i)
      BY <2>1 DEF engageVars, Deleted, Answers
    <3>2. \A j : RowSound(j)' <=> RowSound(j)
      BY <2>1, <3>1 DEF engageVars, RowSound
    <3>3. EngageTypes' /\ MarksHold' /\ CommentsHold' /\ RepliesHold'
      BY <2>1, <3>1 DEF engageVars, EngageInv, EngageTypes, MarksHold, CommentsHold, RepliesHold
    <3>4. RowsHold'
      BY <2>1 DEF engageVars, EngageInv, RowsHold, RowSound, Answers
    <3> QED
      BY <3>3, <3>4 DEF EngageInv
  <2>2. CASE \E s \in Server : OpeningSteps(s)
    BY <2>2, OpeningStep
  <2>3. CASE \E s \in Server : CommentSteps(s)
    BY <2>3, CommentStep
  <2>4. CASE \E s \in Server : LikeWrites(s) \/ BookmarkWrites(s) \/ RepostWrites(s)
    BY <2>4, ToggleStep DEF LikeWrites, BookmarkWrites, RepostWrites, Mark
  <2> QED
    BY <2>1, <2>2, <2>3, <2>4 DEF EngageNext, OpeningSteps, CommentSteps
<1> QED
  BY <1>1, <1>2, PTL DEF EngageSpec

\* No counter of likes, bookmarks, reposts, comments or replies says more than there is, for
\* any number of accounts and overlapping requests.
THEOREM NoOvershoot == EngageSpec => []CountersNeverOvershoot
<1>1. EngageInv => CountersNeverOvershoot
  <2> SUFFICES ASSUME EngageInv PROVE CountersNeverOvershoot
    OBVIOUS
  <2>1. EngageTypes /\ MarksHold /\ CommentsHold /\ RepliesHold
    BY DEF EngageInv
  <2> DEFINE S == counted \ Deleted
             T == {i \in counted : ~comments[i].deleted}
  <2>2. S \subseteq T /\ S \in SUBSET (DOMAIN comments) /\ T \in SUBSET (DOMAIN comments)
    BY <2>1 DEF EngageTypes, Deleted
  <2>3. /\ Cardinality(S) \in Nat /\ Cardinality(T) \in Nat
        /\ \A U \in SUBSET T : Cardinality(U) <= Cardinality(T)
    BY <2>1, <2>2, CommentsFinite DEF EngageTypes
  <2>4. commentCount \in Int /\ commentCount <= Cardinality(S)
    BY <2>1 DEF EngageTypes, CommentsHold
  <2> HIDE DEF S, T
  <2>5. commentCount <= Cardinality(T)
    <3>1. Cardinality(S) <= Cardinality(T)
      BY <2>2, <2>3
    <3> QED
      BY <2>3, <2>4, <3>1
  <2> QED
    BY <2>1, <2>5 DEF CountersNeverOvershoot, MarksHold, RepliesHold, Answers, T
<1> QED
  BY <1>1, EngageInvariant, PTL

-----------------------------------------------------------------------------
(* The deletion of media                                                   *)

Purge == {"jobs", "objects", "row"}
Visit == {"check"} \cup Purge
Place == {"idle", "link", "statuses", "filter", "next"} \cup Visit

TaskState == [pc : Place, of : SUBSET Item, ids : SUBSET Medium, m : SUBSET Medium,
              variants : BOOLEAN]

RemovalTypes ==
  /\ media \in [Medium -> [there : BOOLEAN, variants : BOOLEAN]]
  /\ files \in [Medium -> SUBSET {"source", "variants"}]
  /\ item \in [Item -> [state : {"new", "live", "gone"}, uses : SUBSET Medium]]
  /\ job \in [Medium -> {"waiting", "active", "written", "none"}]
  /\ task \in [Task -> TaskState]
  /\ breaks \in Nat /\ overran \subseteq Medium /\ attachedLate \subseteq Item

\* A visit is of one media, and a task that deletes statuses knows all they use.
TasksSound ==
  \A t \in Task :
    /\ task[t].pc \in Visit => \E m \in Medium : task[t].m = {m}
    /\ task[t].pc = "statuses" =>
         \A c \in task[t].of : item[c].state # "new" /\ item[c].uses \subseteq task[t].ids

\* Whoever uses what is being purged, or has lost its source, came after the look.
LateUsesKnown ==
  \A c \in Live, m \in Medium :
    m \in item[c].uses /\ (Purging(m) \/ "source" \notin files[m]) => c \in attachedLate

\* A transcode runs once; variants are in the store only if their job has yet to name them,
\* the row names them, or a purge ran beside the job.
VariantsKnown ==
  \A m \in Medium :
    /\ media[m].variants => There(m) /\ job[m] = "none"
    /\ job[m] \in {"active", "written"} /\ ~There(m) => m \in overran
    /\ "variants" \in files[m] => job[m] = "written" \/ media[m].variants \/ m \in overran
    /\ ~There(m) /\ "source" \in files[m] => m \in overran

\* What a visit read of the variants, and what its purge has taken from the store.
VisitsKnown ==
  \A t \in Task : \A m \in task[t].m :
    /\ task[t].pc \in Visit /\ task[t].variants => job[m] = "none"
    /\ task[t].pc = "row" => "source" \notin files[m]
    /\ task[t].pc = "row" /\ task[t].variants => "variants" \notin files[m]

\* A task that will come to m, or is there.
WillVisit(t, m) ==
  \/ task[t].pc \in {"filter", "next"} \cup Visit /\ m \in task[t].ids
  \/ task[t].pc \in Visit /\ m \in task[t].m

OrphansAreKnown ==
  breaks = 0 =>
    \A c \in Item : item[c].state = "gone" =>
      \A m \in item[c].uses : There(m) => m \in Used \/ \E t \in Task : WillVisit(t, m)

RemovalInv ==
  /\ RemovalTypes /\ TasksSound /\ LateUsesKnown /\ VariantsKnown /\ VisitsKnown
  /\ OrphansAreKnown

-----------------------------------------------------------------------------
(* Steps of one task                                                       *)

\* Task t goes on with r.
Turns(t, r) ==
  /\ task' \in [Task -> TaskState] /\ task'[t] = r
  /\ \A q \in Task \ {t} : task'[q] = task[q]

\* A task that takes a new state leaves the others alone.
LEMMA TaskTurns ==
  ASSUME RemovalTypes, NEW t \in Task, NEW r \in TaskState, task' = [task EXCEPT ![t] = r]
  PROVE  Turns(t, r)
BY DEF RemovalTypes, Turns

\* A task that does nothing is a task, wherever it goes from there.
LEMMA NoTaskType == /\ NoTask \in TaskState /\ NoTask.pc = "idle"
                    /\ \A pc \in Place : /\ [NoTask EXCEPT !.pc = pc] \in TaskState
  BY DEF NoTask, TaskState, Place, Visit, Purge

\* A task that only goes on keeps what it carries.
LEMMA GoesTurns ==
  ASSUME RemovalTypes, NEW t \in Task, NEW pc \in Place, Goes(t, pc)
  PROVE  \E r \in TaskState : /\ Turns(t, r) /\ r.pc = pc
                              /\ r.of = task[t].of /\ r.ids = task[t].ids
                              /\ r.m = task[t].m /\ r.variants = task[t].variants
<1> DEFINE r == [task[t] EXCEPT !.pc = pc]
<1>1. task' = [task EXCEPT ![t] = r]
  BY DEF Goes, RemovalTypes
<1>2. task[t] \in TaskState
  BY DEF RemovalTypes
<1>3. /\ r \in TaskState /\ r.pc = pc /\ r.of = task[t].of /\ r.ids = task[t].ids
      /\ r.m = task[t].m /\ r.variants = task[t].variants
  BY <1>2 DEF TaskState
<1> HIDE DEF r
<1> QED
  BY <1>1, <1>3, TaskTurns

\* At first nothing is attached, purged or transcoded.
LEMMA RemovalInitial == RemovalInit => RemovalInv
<1> SUFFICES ASSUME RemovalInit PROVE RemovalInv
  OBVIOUS
<1>1. RemovalTypes
  BY NoTaskType DEF RemovalInit, RemovalTypes
<1>2. Live = {} /\ \A c \in Item : item[c].state = "new"
  BY DEF RemovalInit, Live
<1>3. \A t \in Task : task[t].pc = "idle" /\ task[t].m = {}
  BY DEF RemovalInit, NoTask
<1>4. \A m \in Medium : There(m) /\ ~media[m].variants /\ files[m] = {"source"} /\ job[m] = "waiting"
  BY DEF RemovalInit, There
<1>5. TasksSound /\ LateUsesKnown /\ OrphansAreKnown
  BY <1>2, <1>3 DEF TasksSound, LateUsesKnown, OrphansAreKnown, Visit, Purge
<1>6. VariantsKnown /\ VisitsKnown
  BY <1>3, <1>4 DEF VariantsKnown, VisitsKnown
<1> QED
  BY <1>1, <1>5, <1>6 DEF RemovalInv

-----------------------------------------------------------------------------
(* Attaching                                                               *)

\* A task that starts, ends or goes on with nothing but its own place, where it is not in
\* a purge, with whatever it must still visit.
LEMMA QuietStep ==
  ASSUME RemovalInv, NEW t \in Task, NEW r \in TaskState, Turns(t, r),
         UNCHANGED <<media, files, item, job, overran, attachedLate>>,
         breaks' \in Nat, breaks' = 0 => breaks = 0,
         r.pc \in Purge => r.pc = "jobs" /\ \A m \in r.m : m \notin Used,
         r.pc \in Visit => /\ \E m \in Medium : r.m = {m}
                           /\ r.variants => \A m \in r.m : job[m] = "none",
         r.pc = "statuses" =>
            \A c \in r.of : item[c].state # "new" /\ item[c].uses \subseteq r.ids,
         breaks' = 0 => \A m \in Medium : There(m) /\ WillVisit(t, m) => m \in Used \/ WillVisit(t, m)'
  PROVE  RemovalInv'
<1>1. /\ RemovalTypes /\ RemovalTypes' /\ task' \in [Task -> TaskState]
      /\ \A q \in Task \ {t} : task'[q] = task[q]
      /\ task'[t] = r
  BY DEF RemovalInv, RemovalTypes, Turns
<1>2. Live' = Live /\ Used' = Used /\ \A m : There(m)' = There(m)
  BY DEF Live, Used, There
<1>3. TasksSound'
  BY <1>1 DEF RemovalInv, TasksSound
<1>4. LateUsesKnown'
  <2>1. ASSUME NEW c \in Live, NEW m \in Medium, m \in item[c].uses, Purging(m)'
        PROVE  c \in attachedLate
    <3>1. m \in Used
      BY <2>1 DEF Used
    <3>2. PICK q \in Task : task'[q].m = {m} /\ task'[q].pc \in Purge
      BY <2>1 DEF Purging, Purge
    <3>3. task[q].m = {m} /\ task[q].pc \in Purge
      BY <1>1, <3>1, <3>2
    <3> QED
      BY <2>1, <3>3 DEF RemovalInv, LateUsesKnown, Purging, Purge
  <2> QED
    BY <1>2, <2>1 DEF RemovalInv, LateUsesKnown
<1>5. VariantsKnown'
  BY <1>2 DEF RemovalInv, VariantsKnown
<1>6. VisitsKnown'
  <2>1. ASSUME NEW m \in task'[t].m
        PROVE  /\ task'[t].pc \in Visit /\ task'[t].variants => job[m] = "none"
               /\ task'[t].pc = "row" => "source" \notin files[m]
               /\ task'[t].pc = "row" /\ task'[t].variants => "variants" \notin files[m]
    <3>1. task'[t].pc # "row"
      BY <1>1 DEF Purge
    <3> QED
      BY <1>1, <2>1, <3>1
  <2> QED
    BY <1>1, <2>1 DEF RemovalInv, VisitsKnown
<1>7. OrphansAreKnown'
  <2>1. ASSUME breaks' = 0, NEW c \in Item, item[c].state = "gone", NEW m \in item[c].uses, There(m)
        PROVE  m \in Used \/ \E q \in Task : WillVisit(q, m)'
    <3>1. m \in Medium
      BY <1>1 DEF RemovalTypes
    <3>2. m \in Used \/ \E q \in Task : WillVisit(q, m)
      BY <2>1 DEF RemovalInv, OrphansAreKnown
    <3>3. \A q \in Task \ {t} : WillVisit(q, m) => WillVisit(q, m)'
      BY <1>1 DEF WillVisit
    <3> QED
      BY <2>1, <3>1, <3>2, <3>3
  <2> QED
    BY <1>2, <2>1 DEF OrphansAreKnown
<1> QED
  BY <1>1, <1>3, <1>4, <1>5, <1>6, <1>7 DEF RemovalInv

\* validateMediaIds only notes which media are to be linked.
LEMMA ValidateStep ==
  ASSUME RemovalInv, NEW t \in Task, NEW c \in Item, NEW ids \in SUBSET Medium, Validate(t, c, ids)
  PROVE  RemovalInv'
<1> DEFINE r == [NoTask EXCEPT !.pc = "link", !.of = {c}, !.ids = ids]
<1>1. /\ task[t].pc = "idle" /\ task' = [task EXCEPT ![t] = r]
      /\ UNCHANGED <<media, files, item, job, breaks, overran, attachedLate>>
  BY DEF Validate, On
<1>2. r \in TaskState /\ r.pc = "link"
  BY DEF NoTask, TaskState, Place, Visit, Purge
<1> HIDE DEF r
<1>3. Turns(t, r) /\ breaks' \in Nat
  BY <1>1, <1>2, TaskTurns DEF RemovalInv, RemovalTypes
<1>4. \A m \in Medium : ~WillVisit(t, m)
  BY <1>1 DEF WillVisit, Visit, Purge
<1> QED
  BY <1>1, <1>2, <1>3, <1>4, QuietStep DEF Visit, Purge

\* Content that is linked while one of its media is being purged is in the history.
LEMMA LinkStep == ASSUME RemovalInv, NEW t \in Task, Link(t) PROVE RemovalInv'
<1>1. /\ RemovalTypes /\ task[t].pc = "link" /\ task[t] \in TaskState
      /\ task' = [task EXCEPT ![t] = NoTask]
      /\ UNCHANGED <<media, files, job, breaks, overran>>
  BY DEF Link, On, Ends, RemovalInv, RemovalTypes
<1>2. Turns(t, NoTask)
  BY <1>1, NoTaskType, TaskTurns
<1>3. CASE UNCHANGED <<item, attachedLate>>
  <2>1. breaks' \in Nat
    BY <1>1 DEF RemovalTypes
  <2>2. \A m \in Medium : ~WillVisit(t, m)
    BY <1>1 DEF WillVisit, Visit, Purge
  <2> QED
    BY <1>1, <1>2, <1>3, <2>1, <2>2, NoTaskType, QuietStep DEF Visit, Purge
<1>4. ASSUME NEW c \in task[t].of, item[c].state = "new",
             item' = [item EXCEPT ![c] = [state |-> "live", uses |-> task[t].ids]],
             attachedLate' = IF \E m \in task[t].ids : Purging(m) \/ "source" \notin files[m]
                             THEN attachedLate \cup {c} ELSE attachedLate
      PROVE  RemovalInv'
  <2>1. c \in Item /\ task[t].ids \subseteq Medium
    BY <1>1 DEF TaskState
  <2>2. /\ item'[c].state = "live" /\ item'[c].uses = task[t].ids
        /\ \A d \in Item \ {c} : item'[d] = item[d]
        /\ \A m : There(m)' = There(m)
    BY <1>1, <1>4, <2>1 DEF RemovalTypes, There
  <2>3. \A m \in Medium : Purging(m)' => Purging(m)
    BY <1>2, NoTaskType DEF Turns, Purging
  <2>4. RemovalTypes'
    BY <1>1, <1>2, <1>4, <2>1 DEF RemovalTypes, Turns
  <2>5. Live' = Live \cup {c} /\ c \notin Live
    BY <1>4, <2>1, <2>2 DEF Live
  <2>6. TasksSound'
    BY <1>2, <1>4, <2>2, NoTaskType DEF RemovalInv, TasksSound, Turns, Visit, Purge
  <2>7. LateUsesKnown'
    <3>1. ASSUME NEW d \in Live, NEW m \in Medium, m \in item'[d].uses,
                 Purging(m)' \/ "source" \notin files[m]
          PROVE  d \in attachedLate'
      BY <1>4, <2>2, <2>3, <2>5, <3>1 DEF RemovalInv, LateUsesKnown, Live
    <3>2. ASSUME NEW m \in Medium, m \in item'[c].uses, Purging(m)' \/ "source" \notin files[m]
          PROVE  c \in attachedLate'
      BY <1>4, <2>2, <2>3, <3>2
    <3> QED
      BY <1>1, <2>5, <3>1, <3>2 DEF LateUsesKnown
  <2>8. VariantsKnown' /\ VisitsKnown'
    BY <1>1, <1>2, <2>2, NoTaskType DEF RemovalInv, VariantsKnown, VisitsKnown, Turns, Visit, Purge
  <2>9. OrphansAreKnown'
    <3>1. \A m \in Used : m \in Used'
      BY <2>2, <2>5 DEF Used, Live
    <3>2. \A q \in Task, m \in Medium : WillVisit(q, m) => WillVisit(q, m)'
      BY <1>1, <1>2 DEF WillVisit, Turns, Visit, Purge
    <3>3. ASSUME breaks = 0, NEW d \in Item, item'[d].state = "gone", NEW m \in item'[d].uses, There(m)
          PROVE  m \in Used' \/ \E q \in Task : WillVisit(q, m)'
      <4>1. d # c /\ item'[d] = item[d]
        BY <2>2, <3>3
      <4>2. m \in Medium /\ (m \in Used \/ \E q \in Task : WillVisit(q, m))
        BY <1>1, <3>3, <4>1 DEF RemovalInv, OrphansAreKnown, RemovalTypes
      <4> QED
        BY <3>1, <3>2, <4>2
    <3> QED
      BY <1>1, <2>2, <3>3 DEF OrphansAreKnown
  <2> QED
    BY <2>4, <2>6, <2>7, <2>8, <2>9 DEF RemovalInv
<1> QED
  BY <1>3, <1>4 DEF Link

-----------------------------------------------------------------------------
(* Deleting contents                                                       *)

\* Contents go and a task takes over everything they use.
LEMMA GoneStep ==
  ASSUME RemovalInv, NEW t \in Task, NEW S \in SUBSET Item, NEW r \in TaskState, Turns(t, r),
         item' = [c \in Item |-> IF c \in S THEN [item[c] EXCEPT !.state = "gone"] ELSE item[c]],
         \A c \in S : item[c].state # "new" /\ item[c].uses \subseteq r.ids,
         r.pc = "filter", task[t].pc \in {"idle", "statuses"},
         UNCHANGED <<media, files, job, breaks, overran, attachedLate>>
  PROVE  RemovalInv'
<1>1. /\ RemovalTypes /\ task' \in [Task -> TaskState] /\ task'[t] = r
      /\ \A q \in Task \ {t} : task'[q] = task[q]
  BY DEF RemovalInv, Turns
<1>2. /\ \A c \in Item : item'[c].uses = item[c].uses
      /\ \A c \in S : item'[c].state = "gone"
      /\ \A c \in Item \ S : item'[c] = item[c]
      /\ \A c \in Item : item[c].state # "new" => item'[c].state # "new"
      /\ item' \in [Item -> [state : {"new", "live", "gone"}, uses : SUBSET Medium]]
  BY <1>1 DEF RemovalTypes
<1>3. Live' = Live \ S /\ \A m : There(m)' = There(m)
  BY <1>2 DEF Live, There
<1>4. RemovalTypes'
  BY <1>1, <1>2 DEF RemovalTypes
<1>5. TasksSound'
  <2>1. ASSUME NEW q \in Task, task'[q].pc \in Visit PROVE \E m \in Medium : task'[q].m = {m}
    BY <1>1, <2>1 DEF RemovalInv, TasksSound, Visit, Purge
  <2>2. ASSUME NEW q \in Task, task'[q].pc = "statuses", NEW c \in task'[q].of
        PROVE  item'[c].state # "new" /\ item'[c].uses \subseteq task'[q].ids
    <3>1. q # t /\ task'[q] = task[q]
      BY <1>1, <2>2
    <3>2. c \in Item
      BY <1>1, <2>2 DEF TaskState
    <3>3. item[c].state # "new" /\ item[c].uses \subseteq task[q].ids
      BY <2>2, <3>1 DEF RemovalInv, TasksSound
    <3> QED
      BY <1>2, <3>1, <3>2, <3>3
  <2> QED
    BY <2>1, <2>2 DEF TasksSound
<1>6. LateUsesKnown'
  <2>1. \A m \in Medium : Purging(m)' => Purging(m)
    BY <1>1 DEF Purging
  <2> QED
    BY <1>2, <1>3, <2>1 DEF RemovalInv, LateUsesKnown, Live
<1>7. VariantsKnown' /\ VisitsKnown'
  BY <1>1, <1>3 DEF RemovalInv, VariantsKnown, VisitsKnown, Visit, Purge
<1>8. OrphansAreKnown'
  <2>1. \A q \in Task, m \in Medium : WillVisit(q, m) => WillVisit(q, m)'
    BY <1>1 DEF WillVisit, Visit, Purge
  <2>2. \A c \in S : \A m \in item[c].uses : WillVisit(t, m)'
    BY <1>1 DEF WillVisit
  <2>3. ASSUME breaks = 0, NEW c \in Item, item'[c].state = "gone", NEW m \in item[c].uses, There(m)
        PROVE  m \in Used' \/ \E q \in Task : WillVisit(q, m)'
    <3>1. m \in Medium
      BY <1>1 DEF RemovalTypes
    <3>2. CASE c \in S
      BY <2>2, <3>2
    <3>3. CASE c \notin S
      <4>1. m \in Used \/ \E q \in Task : WillVisit(q, m)
        BY <1>2, <2>3, <3>3 DEF RemovalInv, OrphansAreKnown
      <4>2. ASSUME NEW d \in Live, m \in item[d].uses
            PROVE  m \in Used' \/ WillVisit(t, m)'
        <5>1. d \in Item
          BY DEF Live
        <5>2. CASE d \in S
          BY <2>2, <4>2, <5>2
        <5>3. CASE d \notin S
          BY <1>2, <1>3, <4>2, <5>1, <5>3 DEF Used
        <5> QED
          BY <5>2, <5>3
      <4> QED
        BY <2>1, <3>1, <4>1, <4>2 DEF Used
    <3> QED
      BY <3>2, <3>3
  <2> QED
    BY <1>2, <1>3, <2>3 DEF OrphansAreKnown
<1> QED
  BY <1>4, <1>5, <1>6, <1>7, <1>8 DEF RemovalInv

\* deletePost and deleteMessageForEveryone take over the media of the content they delete.
LEMMA DeleteContentStep ==
  ASSUME RemovalInv, NEW t \in Task, NEW c \in Item, DeleteContent(t, c)
  PROVE  RemovalInv'
<1> DEFINE r == [NoTask EXCEPT !.pc = "filter", !.ids = item[c].uses]
<1>1. /\ task[t].pc = "idle" /\ c \in Live /\ item' = [item EXCEPT ![c].state = "gone"]
      /\ task' = [task EXCEPT ![t] = r] /\ RemovalTypes
      /\ UNCHANGED <<media, files, job, breaks, overran, attachedLate>>
  BY DEF DeleteContent, On, RemovalInv
<1>2. item[c].uses \subseteq Medium /\ item[c].state = "live"
  BY <1>1 DEF RemovalTypes, Live
<1>3. r \in TaskState /\ r.pc = "filter" /\ r.ids = item[c].uses
  BY <1>2 DEF NoTask, TaskState, Place, Visit, Purge
<1> HIDE DEF r
<1>4. Turns(t, r)
  BY <1>1, <1>3, TaskTurns
<1>5. item' = [d \in Item |-> IF d \in {c} THEN [item[d] EXCEPT !.state = "gone"] ELSE item[d]]
  BY <1>1 DEF RemovalTypes
<1> QED
  BY <1>1, <1>2, <1>3, <1>4, <1>5, GoneStep

\* Finding statuses notes all they use before any of them goes.
LEMMA FindStatusesStep ==
  ASSUME RemovalInv, NEW t \in Task, NEW S \in SUBSET Item, FindStatuses(t, S)
  PROVE  RemovalInv'
<1> DEFINE ids == UNION {item[c].uses : c \in S}
           r == [NoTask EXCEPT !.pc = "statuses", !.of = S, !.ids = ids]
<1>1. /\ task[t].pc = "idle" /\ S \subseteq Live /\ task' = [task EXCEPT ![t] = r] /\ RemovalTypes
      /\ UNCHANGED <<media, files, item, job, breaks, overran, attachedLate>>
  BY DEF FindStatuses, On, RemovalInv
<1>2. ids \subseteq Medium /\ \A c \in S : item[c].state = "live" /\ item[c].uses \subseteq ids
  BY <1>1 DEF RemovalTypes, Live
<1> HIDE DEF ids
<1>3. r \in TaskState /\ r.pc = "statuses" /\ r.of = S /\ r.ids = ids
  BY <1>2 DEF NoTask, TaskState, Place, Visit, Purge
<1> HIDE DEF r
<1>4. Turns(t, r) /\ breaks' \in Nat
  BY <1>1, <1>3, TaskTurns DEF RemovalTypes
<1>5. \A m \in Medium : ~WillVisit(t, m)
  BY <1>1 DEF WillVisit, Visit, Purge
<1> QED
  BY <1>1, <1>2, <1>3, <1>4, <1>5, QuietStep DEF Visit, Purge

\* The statuses go, and their media are the task's to look at.
LEMMA DeleteStatusesStep ==
  ASSUME RemovalInv, NEW t \in Task, DeleteStatuses(t)
  PROVE  RemovalInv'
<1>1. /\ task[t].pc = "statuses" /\ RemovalTypes /\ Goes(t, "filter") /\ task[t] \in TaskState
      /\ UNCHANGED <<media, files, job, breaks, overran, attachedLate>>
      /\ item' = [c \in Item |-> IF c \in task[t].of THEN [item[c] EXCEPT !.state = "gone"]
                                 ELSE item[c]]
  BY DEF DeleteStatuses, On, RemovalInv, RemovalTypes
<1>2. "filter" \in Place
  BY DEF Place
<1>3. PICK r \in TaskState : Turns(t, r) /\ r.pc = "filter" /\ r.ids = task[t].ids
  BY <1>1, <1>2, GoesTurns
<1>4. task[t].of \in SUBSET Item
  BY <1>1 DEF TaskState
<1>5. \A c \in task[t].of : item[c].state # "new" /\ item[c].uses \subseteq r.ids
  BY <1>1, <1>3 DEF RemovalInv, TasksSound
<1> QED
  BY <1>1, <1>3, <1>4, <1>5, GoneStep

-----------------------------------------------------------------------------
(* The loop and its purges                                                 *)

\* Only media in use are dropped from the list.
LEMMA FilterStep ==
  ASSUME RemovalInv, NEW t \in Task, FilterOrphanMediaIds(t)
  PROVE  RemovalInv'
<1> DEFINE r == [task[t] EXCEPT !.ids = @ \ Used, !.pc = "next"]
<1>1. /\ task[t].pc = "filter" /\ RemovalTypes /\ task[t] \in TaskState
      /\ task' = [task EXCEPT ![t].ids = @ \ Used, ![t].pc = "next"]
      /\ UNCHANGED <<media, files, item, job, breaks, overran, attachedLate>>
  BY DEF FilterOrphanMediaIds, On, RemovalInv, RemovalTypes
<1>2. task' = [task EXCEPT ![t] = r]
  BY <1>1 DEF RemovalTypes
<1>3. r \in TaskState /\ r.pc = "next" /\ r.ids = task[t].ids \ Used
  BY <1>1 DEF TaskState, Place, Visit, Purge
<1> HIDE DEF r
<1>4. Turns(t, r) /\ breaks' \in Nat
  BY <1>1, <1>2, <1>3, TaskTurns DEF RemovalTypes
<1>5. \A m \in Medium : WillVisit(t, m) => m \in Used \/ WillVisit(t, m)'
  BY <1>1, <1>3, <1>4 DEF WillVisit, Turns, Visit, Purge
<1> QED
  BY <1>1, <1>3, <1>4, <1>5, QuietStep DEF Visit, Purge

\* The next media is visited, or its row is gone.
LEMMA NextStep ==
  ASSUME RemovalInv, NEW t \in Task, NextOrphan(t)
  PROVE  RemovalInv'
<1>1. /\ task[t].pc = "next" /\ RemovalTypes /\ task[t] \in TaskState /\ breaks' \in Nat
      /\ UNCHANGED <<media, files, item, job, breaks, overran, attachedLate>>
  BY DEF NextOrphan, On, RemovalInv, RemovalTypes
<1>2. CASE task[t].ids = {} /\ Ends(t)
  <2>1. Turns(t, NoTask)
    BY <1>1, <1>2, NoTaskType, TaskTurns DEF Ends
  <2>2. \A m \in Medium : ~WillVisit(t, m)
    BY <1>1, <1>2 DEF WillVisit, Visit, Purge
  <2> QED
    BY <1>1, <2>1, <2>2, NoTaskType, QuietStep DEF Visit, Purge
<1>3. ASSUME NEW m \in task[t].ids,
             task' = [task EXCEPT ![t].ids = @ \ {m}, ![t].m = {m}, ![t].variants = media[m].variants,
                        ![t].pc = IF There(m) THEN "check" ELSE "next"]
      PROVE  RemovalInv'
  <2> DEFINE r == [task[t] EXCEPT !.ids = @ \ {m}, !.m = {m}, !.variants = media[m].variants,
                     !.pc = IF There(m) THEN "check" ELSE "next"]
  <2>1. task' = [task EXCEPT ![t] = r]
    BY <1>1, <1>3 DEF RemovalTypes
  <2>2. m \in Medium /\ media[m].variants \in BOOLEAN
    BY <1>1 DEF TaskState, RemovalTypes
  <2>3. /\ r \in TaskState /\ r.pc = (IF There(m) THEN "check" ELSE "next")
        /\ r.ids = task[t].ids \ {m} /\ r.m = {m} /\ r.variants = media[m].variants
    BY <1>1, <2>2 DEF TaskState, Place, Visit
  <2> HIDE DEF r
  <2>4. Turns(t, r)
    BY <1>1, <2>1, <2>3, TaskTurns
  <2>5. ASSUME NEW n \in Medium, There(n), WillVisit(t, n) PROVE WillVisit(t, n)'
    <3>1. n \in task[t].ids
      BY <1>1, <2>5 DEF WillVisit, Visit, Purge
    <3> QED
      BY <2>3, <2>4, <2>5, <3>1 DEF WillVisit, Turns, Visit
  <2>6. r.variants => job[m] = "none"
    BY <2>2, <2>3 DEF RemovalInv, VariantsKnown
  <2> QED
    BY <1>1, <2>2, <2>3, <2>4, <2>5, <2>6, QuietStep DEF Purge
<1> QED
  BY <1>2, <1>3 DEF NextOrphan

\* A purge starts on media that is in no use.
LEMMA CheckStep ==
  ASSUME RemovalInv, NEW t \in Task, IsMediaInUse(t)
  PROVE  RemovalInv'
<1> DEFINE pc == IF task[t].m \subseteq Used THEN "next" ELSE "jobs"
<1>1. /\ task[t].pc = "check" /\ RemovalTypes /\ task[t] \in TaskState /\ breaks' \in Nat
      /\ Goes(t, pc) /\ pc \in Place
      /\ UNCHANGED <<media, files, item, job, breaks, overran, attachedLate>>
  BY DEF IsMediaInUse, On, RemovalInv, RemovalTypes, Place, Visit, Purge
<1>2. PICK r \in TaskState : /\ Turns(t, r) /\ r.pc = pc /\ r.ids = task[t].ids
                             /\ r.m = task[t].m /\ r.variants = task[t].variants
  BY <1>1, GoesTurns
<1>3. PICK m \in Medium : task[t].m = {m}
  BY <1>1 DEF RemovalInv, TasksSound, Visit
<1>4. r.pc \in Purge => r.pc = "jobs" /\ \A n \in r.m : n \notin Used
  BY <1>2, <1>3 DEF Purge
<1>5. r.variants => \A n \in r.m : job[n] = "none"
  BY <1>1, <1>2 DEF RemovalInv, VisitsKnown, Visit
<1>6. \A n \in Medium : WillVisit(t, n) => n \in Used \/ WillVisit(t, n)'
  BY <1>1, <1>2, <1>3 DEF WillVisit, Turns, Visit, Purge
<1>7. r.pc # "statuses"
  BY <1>2
<1> QED
  BY <1>1, <1>2, <1>3, <1>4, <1>5, <1>6, <1>7, QuietStep

\* The cancel job visits one media, as the loop does.
LEMMA CancelStep ==
  ASSUME RemovalInv, NEW t \in Task, NEW m \in Medium, CancelUpload(t, m)
  PROVE  RemovalInv'
<1> DEFINE r == [NoTask EXCEPT !.pc = IF There(m) THEN "check" ELSE "idle", !.m = {m},
                   !.variants = media[m].variants]
<1>1. /\ task[t].pc = "idle" /\ RemovalTypes /\ breaks' \in Nat /\ task' = [task EXCEPT ![t] = r]
      /\ UNCHANGED <<media, files, item, job, breaks, overran, attachedLate>>
  BY DEF CancelUpload, On, RemovalInv, RemovalTypes
<1>2. media[m].variants \in BOOLEAN
  BY <1>1 DEF RemovalTypes
<1>3. /\ r \in TaskState /\ r.pc \in {"check", "idle"}
      /\ r.m = {m} /\ r.variants = media[m].variants
  BY <1>2 DEF NoTask, TaskState, Place, Visit, Purge
<1> HIDE DEF r
<1>4. Turns(t, r)
  BY <1>1, <1>3, TaskTurns
<1>5. r.variants => job[m] = "none"
  BY <1>3 DEF RemovalInv, VariantsKnown
<1>6. \A n \in Medium : ~WillVisit(t, n)
  BY <1>1 DEF WillVisit, Visit, Purge
<1> QED
  BY <1>1, <1>3, <1>4, <1>5, <1>6, QuietStep DEF Purge

\* A task that breaks leaves its media behind, which the history knows.
LEMMA BreakStep ==
  ASSUME RemovalInv, NEW t \in Task, TaskBreaks(t)
  PROVE  RemovalInv'
<1>1. /\ RemovalTypes /\ breaks' \in Nat /\ breaks' # 0
      /\ UNCHANGED <<media, files, item, job, overran, attachedLate>>
  BY DEF TaskBreaks, RemovalInv, RemovalTypes
<1>2. CASE Ends(t)
  <2>1. Turns(t, NoTask)
    BY <1>1, <1>2, NoTaskType, TaskTurns DEF Ends
  <2> QED
    BY <1>1, <2>1, NoTaskType, QuietStep DEF Visit, Purge
<1>3. CASE Goes(t, "next")
  <2>1. "next" \in Place
    BY DEF Place
  <2>2. PICK r \in TaskState : Turns(t, r) /\ r.pc = "next"
    BY <1>1, <1>3, <2>1, GoesTurns
  <2> QED
    BY <1>1, <2>2, QuietStep DEF Visit, Purge
<1> QED
  BY <1>2, <1>3 DEF TaskBreaks

\* What a purge goes on with, whatever it is about to do.
LEMMA PurgeTurns ==
  ASSUME RemovalInv, NEW t \in Task, task[t].pc \in Purge, NEW pc \in Place, Goes(t, pc)
  PROVE  \E m \in Medium, r \in TaskState :
           /\ task[t].m = {m} /\ Turns(t, r) /\ r.pc = pc /\ r.of = task[t].of
           /\ r.ids = task[t].ids /\ r.m = {m} /\ r.variants = task[t].variants
<1>1. PICK m \in Medium : task[t].m = {m}
  BY DEF RemovalInv, TasksSound, Visit
<1>2. PICK r \in TaskState : /\ Turns(t, r) /\ r.pc = pc /\ r.of = task[t].of
                             /\ r.ids = task[t].ids /\ r.m = task[t].m
                             /\ r.variants = task[t].variants
  BY GoesTurns DEF RemovalInv
<1> QED
  BY <1>1, <1>2

\* Removing waiting jobs ends those transcodes for good.
LEMMA RemoveJobsStep ==
  ASSUME RemovalInv, NEW t \in Task, RemovePendingJobs(t)
  PROVE  RemovalInv'
<1>1. /\ task[t].pc = "jobs" /\ task[t].pc \in Purge /\ RemovalTypes
      /\ UNCHANGED <<media, files, item, breaks, overran, attachedLate>>
      /\ job' = [m \in Medium |-> IF m \in task[t].m /\ job[m] = "waiting" THEN "none" ELSE job[m]]
      /\ Goes(t, "objects") /\ "objects" \in Place
  BY DEF RemovePendingJobs, On, RemovalInv, Place, Visit, Purge
<1>2. PICK m \in Medium, r \in TaskState :
        /\ task[t].m = {m} /\ Turns(t, r) /\ r.pc = "objects" /\ r.of = task[t].of
        /\ r.ids = task[t].ids /\ r.m = {m} /\ r.variants = task[t].variants
  BY <1>1, PurgeTurns
<1>3. /\ task' \in [Task -> TaskState] /\ task'[t] = r
      /\ \A q \in Task \ {t} : task'[q] = task[q]
  BY <1>2 DEF Turns
<1>4. /\ Live' = Live /\ Used' = Used /\ \A n : There(n)' = There(n)
      /\ \A n \in Medium : job'[n] = job[n] \/ (job[n] = "waiting" /\ job'[n] = "none")
  BY <1>1 DEF Live, Used, There
<1>5. RemovalTypes' /\ TasksSound'
  <2>1. job' \in [Medium -> {"waiting", "active", "written", "none"}]
    BY <1>1 DEF RemovalTypes
  <2>2. RemovalTypes'
    BY <1>1, <1>3, <2>1 DEF RemovalTypes
  <2>3. TasksSound'
    BY <1>1, <1>2, <1>3 DEF RemovalInv, TasksSound
  <2> QED
    BY <2>2, <2>3
<1>6. LateUsesKnown'
  <2>1. \A n \in Medium : Purging(n)' => Purging(n)
    BY <1>1, <1>2, <1>3 DEF Purging
  <2> QED
    BY <1>1, <1>4, <2>1 DEF RemovalInv, LateUsesKnown
<1>7. VariantsKnown'
  BY <1>1, <1>4 DEF RemovalInv, VariantsKnown
<1>8. VisitsKnown'
  <2>1. ASSUME NEW q \in Task, NEW n \in task'[q].m, task'[q].pc \in Visit, task'[q].variants
        PROVE  job'[n] = "none"
    <3>1. n \in task[q].m /\ task[q].pc \in Visit /\ task[q].variants /\ n \in Medium
      BY <1>1, <1>2, <1>3, <2>1 DEF TaskState, Visit
    <3> QED
      BY <1>4, <3>1 DEF RemovalInv, VisitsKnown
  <2>2. \A q \in Task : task'[q].pc = "row" => task'[q] = task[q]
    BY <1>2, <1>3
  <2> QED
    BY <1>1, <2>1, <2>2 DEF RemovalInv, VisitsKnown
<1>9. OrphansAreKnown'
  <2>1. \A q \in Task, n \in Medium : WillVisit(q, n) => WillVisit(q, n)'
    BY <1>1, <1>2, <1>3 DEF WillVisit, Visit, Purge
  <2>2. \A c \in Item : item[c].uses \subseteq Medium
    BY <1>1 DEF RemovalTypes
  <2> QED
    BY <1>1, <1>4, <2>1, <2>2 DEF RemovalInv, OrphansAreKnown
<1> QED
  BY <1>5, <1>6, <1>7, <1>8, <1>9 DEF RemovalInv

\* The objects go: whoever uses the media attached it after the look.
LEMMA SnapshotStep ==
  ASSUME RemovalInv, NEW t \in Task, DeleteMediaSnapshot(t)
  PROVE  RemovalInv'
<1>1. /\ task[t].pc = "objects" /\ task[t].pc \in Purge /\ RemovalTypes
      /\ UNCHANGED <<media, item, job, breaks, overran, attachedLate>>
      /\ files' = [m \in Medium |-> IF m \in task[t].m THEN {} ELSE files[m]]
      /\ Goes(t, "row") /\ "row" \in Place
  BY DEF DeleteMediaSnapshot, On, RemovalInv, Place, Visit, Purge
<1>2. PICK m \in Medium, r \in TaskState :
        /\ task[t].m = {m} /\ Turns(t, r) /\ r.pc = "row" /\ r.of = task[t].of
        /\ r.ids = task[t].ids /\ r.m = {m} /\ r.variants = task[t].variants
  BY <1>1, PurgeTurns
<1>3. /\ task' \in [Task -> TaskState] /\ task'[t] = r
      /\ \A q \in Task \ {t} : task'[q] = task[q]
  BY <1>2 DEF Turns
<1>4. /\ Live' = Live /\ Used' = Used /\ \A n : There(n)' = There(n)
      /\ \A n \in Medium : files'[n] \subseteq files[n]
      /\ \A n \in Medium \ {m} : files'[n] = files[n]
      /\ "source" \notin files'[m]
      /\ task[t].variants => "variants" \notin files'[m]
  BY <1>1, <1>2 DEF Live, Used, There
<1>5. RemovalTypes' /\ TasksSound'
  <2>1. files' \in [Medium -> SUBSET {"source", "variants"}]
    BY <1>1 DEF RemovalTypes
  <2>2. RemovalTypes'
    BY <1>1, <1>3, <2>1 DEF RemovalTypes
  <2>3. TasksSound'
    BY <1>1, <1>2, <1>3 DEF RemovalInv, TasksSound
  <2> QED
    BY <2>2, <2>3
<1>6. LateUsesKnown'
  <2>1. \A n \in Medium : Purging(n)' => Purging(n)
    BY <1>1, <1>2, <1>3 DEF Purging
  <2>2. Purging(m)
    BY <1>1, <1>2 DEF Purging
  <2> QED
    BY <1>1, <1>4, <2>1, <2>2 DEF RemovalInv, LateUsesKnown
<1>7. VariantsKnown'
  BY <1>1, <1>4 DEF RemovalInv, VariantsKnown
<1>8. VisitsKnown'
  <2>1. ASSUME NEW q \in Task, q # t, NEW n \in task'[q].m
        PROVE  /\ task'[q].pc \in Visit /\ task'[q].variants => job'[n] = "none"
               /\ task'[q].pc = "row" => "source" \notin files'[n]
               /\ task'[q].pc = "row" /\ task'[q].variants => "variants" \notin files'[n]
    <3>1. task'[q] = task[q] /\ n \in Medium
      BY <1>3, <2>1 DEF TaskState
    <3> QED
      BY <1>1, <1>4, <2>1, <3>1 DEF RemovalInv, VisitsKnown
  <2>2. task[t].variants => job[m] = "none"
    BY <1>1, <1>2 DEF RemovalInv, VisitsKnown, Visit
  <2> QED
    BY <1>1, <1>2, <1>3, <1>4, <2>1, <2>2 DEF VisitsKnown
<1>9. OrphansAreKnown'
  <2>1. \A q \in Task, n \in Medium : WillVisit(q, n) => WillVisit(q, n)'
    BY <1>1, <1>2, <1>3 DEF WillVisit, Visit, Purge
  <2>2. \A c \in Item : item[c].uses \subseteq Medium
    BY <1>1 DEF RemovalTypes
  <2> QED
    BY <1>1, <1>4, <2>1, <2>2 DEF RemovalInv, OrphansAreKnown
<1> QED
  BY <1>5, <1>6, <1>7, <1>8, <1>9 DEF RemovalInv

\* The row goes, with the objects or with a purge that ran beside a transcode; or content
\* that uses it keeps it.
LEMMA RowStep ==
  ASSUME RemovalInv, NEW t \in Task, DeleteRow(t)
  PROVE  RemovalInv'
<1>1. /\ task[t].pc = "row" /\ task[t].pc \in Purge /\ RemovalTypes
      /\ UNCHANGED <<files, job, breaks, attachedLate>>
      /\ Goes(t, "next") /\ "next" \in Place
  BY DEF DeleteRow, On, RemovalInv, Place, Visit, Purge
<1>2. PICK m \in Medium, r \in TaskState :
        /\ task[t].m = {m} /\ Turns(t, r) /\ r.pc = "next" /\ r.of = task[t].of
        /\ r.ids = task[t].ids /\ r.m = {m} /\ r.variants = task[t].variants
  BY <1>1, PurgeTurns
<1>3. /\ task' \in [Task -> TaskState] /\ task'[t] = r
      /\ \A q \in Task \ {t} : task'[q] = task[q]
  BY <1>2 DEF Turns
<1>4. CASE (\E c \in Live : m \in item[c].uses) /\ UNCHANGED <<media, item, overran>>
  <2>1. m \in Used /\ r.pc \notin Visit /\ r.pc # "statuses"
    BY <1>2, <1>4 DEF Used, Visit, Purge
  <2>2. \A n \in Medium : WillVisit(t, n) => n \in Used \/ WillVisit(t, n)'
    BY <1>1, <1>2, <1>3, <2>1 DEF WillVisit, Visit, Purge
  <2>3. breaks' \in Nat
    BY <1>1 DEF RemovalTypes
  <2> QED
    BY <1>1, <1>2, <1>4, <2>1, <2>2, <2>3, QuietStep DEF Visit
<1>5. CASE /\ media' = [media EXCEPT ![m] = [there |-> FALSE, variants |-> FALSE]]
           /\ item' = [c \in Item |-> IF c \in Live THEN [item[c] EXCEPT !.uses = @ \ {m}]
                                      ELSE item[c]]
           /\ overran' = IF job[m] \in {"active", "written"} \/ media[m].variants # task[t].variants
                         THEN overran \cup {m} ELSE overran
  <2>1. /\ \A c \in Item : item'[c].state = item[c].state /\ item'[c].uses \subseteq item[c].uses
        /\ \A c \in Item : item[c].state # "live" => item'[c] = item[c]
        /\ \A c \in Item : item[c].uses \subseteq item'[c].uses \cup {m}
        /\ item' \in [Item -> [state : {"new", "live", "gone"}, uses : SUBSET Medium]]
    BY <1>1, <1>5 DEF RemovalTypes, Live
  <2>2. Live' = Live /\ Used \subseteq Used' \cup {m}
    BY <2>1 DEF Live, Used
  <2>3. /\ ~There(m)' /\ ~media'[m].variants
        /\ \A n \in Medium \ {m} : media'[n] = media[n] /\ There(n)' = There(n)
        /\ media' \in [Medium -> [there : BOOLEAN, variants : BOOLEAN]]
    BY <1>1, <1>5 DEF RemovalTypes, There
  <2>4. RemovalTypes'
    BY <1>1, <1>3, <1>5, <2>1, <2>3 DEF RemovalTypes
  <2>5. TasksSound'
    <3>1. ASSUME NEW q \in Task, task'[q].pc \in Visit PROVE \E n \in Medium : task'[q].m = {n}
      BY <1>2, <1>3, <3>1 DEF RemovalInv, TasksSound
    <3>2. ASSUME NEW q \in Task, task'[q].pc = "statuses", NEW c \in task'[q].of
          PROVE  item'[c].state # "new" /\ item'[c].uses \subseteq task'[q].ids
      <4>1. q # t /\ task'[q] = task[q] /\ c \in Item
        BY <1>2, <1>3, <3>2 DEF TaskState
      <4>2. item[c].state # "new" /\ item[c].uses \subseteq task[q].ids
        BY <3>2, <4>1 DEF RemovalInv, TasksSound
      <4> QED
        BY <2>1, <4>1, <4>2
    <3> QED
      BY <3>1, <3>2 DEF TasksSound
  <2>6. LateUsesKnown'
    <3>1. \A n \in Medium : Purging(n)' => Purging(n)
      BY <1>2, <1>3 DEF Purging
    <3>2. \A c \in Live : c \in Item
      BY DEF Live
    <3> QED
      BY <1>1, <2>1, <2>2, <3>1, <3>2 DEF RemovalInv, LateUsesKnown
  <2>7. VariantsKnown'
    <3>1. /\ "source" \notin files[m]
          /\ task[t].variants => "variants" \notin files[m]
      BY <1>1, <1>2 DEF RemovalInv, VisitsKnown
    <3>2. /\ media[m].variants => There(m) /\ job[m] = "none"
          /\ "variants" \in files[m] => job[m] = "written" \/ media[m].variants \/ m \in overran
      BY DEF RemovalInv, VariantsKnown
    <3>3. overran \subseteq overran'
      BY <1>5
    <3>4. "variants" \in files[m] => m \in overran'
      BY <1>5, <3>1, <3>2
    <3>5. job[m] \in {"active", "written"} => m \in overran'
      BY <1>5
    <3>6. \A n \in Medium \ {m} :
            /\ media'[n].variants => There(n)' /\ job'[n] = "none"
            /\ job'[n] \in {"active", "written"} /\ ~There(n)' => n \in overran'
            /\ "variants" \in files'[n] => job'[n] = "written" \/ media'[n].variants \/ n \in overran'
            /\ ~There(n)' /\ "source" \in files'[n] => n \in overran'
      BY <1>1, <2>3, <3>3 DEF RemovalInv, VariantsKnown
    <3> QED
      BY <1>1, <2>3, <3>1, <3>4, <3>5, <3>6 DEF VariantsKnown
  <2>8. VisitsKnown'
    BY <1>1, <1>2, <1>3 DEF RemovalInv, VisitsKnown, Visit, Purge
  <2>9. OrphansAreKnown'
    <3>1. ASSUME breaks = 0, NEW c \in Item, item[c].state = "gone", NEW n \in item[c].uses, There(n)'
          PROVE  n \in Used' \/ \E q \in Task : WillVisit(q, n)'
      <4>1. n \in Medium /\ n # m /\ There(n)
        BY <1>1, <2>3, <3>1 DEF RemovalTypes
      <4>2. n \in Used \/ \E q \in Task : WillVisit(q, n)
        BY <3>1, <4>1 DEF RemovalInv, OrphansAreKnown
      <4>3. \A q \in Task : WillVisit(q, n) => WillVisit(q, n)'
        BY <1>1, <1>2, <1>3, <4>1 DEF WillVisit, Visit, Purge
      <4> QED
        BY <2>2, <4>1, <4>2, <4>3
    <3>2. \A c \in Item : item'[c].state = "gone" => item[c].state = "gone" /\ item'[c].uses = item[c].uses
      BY <2>1
    <3> QED
      BY <1>1, <3>1, <3>2 DEF OrphansAreKnown
  <2> QED
    BY <2>4, <2>5, <2>6, <2>7, <2>8, <2>9 DEF RemovalInv
<1>6. \/ (\E c \in Live : m \in item[c].uses) /\ UNCHANGED <<media, item, overran>>
      \/ /\ media' = [media EXCEPT ![m] = [there |-> FALSE, variants |-> FALSE]]
         /\ item' = [c \in Item |-> IF c \in Live THEN [item[c] EXCEPT !.uses = @ \ {m}]
                                    ELSE item[c]]
         /\ overran' = IF job[m] \in {"active", "written"} \/ media[m].variants # task[t].variants
                       THEN overran \cup {m} ELSE overran
  BY <1>2 DEF DeleteRow
<1> QED
  BY <1>4, <1>5, <1>6

-----------------------------------------------------------------------------
(* The transcode                                                           *)

\* A step that touches one media and its objects, beside every task.
LEMMA TranscodeStep ==
  ASSUME RemovalInv, NEW m \in Medium, StartTranscode(m) \/ PutVariants(m) \/ NameVariants(m)
  PROVE  RemovalInv'
<1>1. /\ RemovalTypes /\ task' = task /\ item' = item /\ breaks' = breaks
      /\ overran' = overran /\ attachedLate' = attachedLate
  BY DEF StartTranscode, PutVariants, NameVariants, RemovalInv
<1>2. /\ RemovalTypes'
      /\ \A n \in Medium : There(n)' = There(n) /\ files[n] \subseteq files'[n]
      /\ \A n \in Medium : "source" \in files'[n] => "source" \in files[n]
      /\ \A n \in Medium \ {m} : media'[n] = media[n] /\ files'[n] = files[n] /\ job'[n] = job[n]
  <2>1. CASE StartTranscode(m)
    BY <1>1, <2>1 DEF StartTranscode, RemovalTypes, There
  <2>2. CASE PutVariants(m)
    BY <1>1, <2>2 DEF PutVariants, RemovalTypes, There
  <2>3. CASE NameVariants(m)
    BY <1>1, <2>3 DEF NameVariants, RemovalTypes, There
  <2> QED
    BY <2>1, <2>2, <2>3
<1>3. Live' = Live /\ Used' = Used
  BY <1>1 DEF Live, Used
<1>4. TasksSound'
  BY <1>1 DEF RemovalInv, TasksSound
<1>5. LateUsesKnown'
  <2>1. \A n \in Medium : Purging(n)' <=> Purging(n)
    BY <1>1 DEF Purging
  <2> QED
    BY <1>1, <1>2, <1>3, <2>1 DEF RemovalInv, LateUsesKnown
<1>6. VariantsKnown'
  <2>1. /\ media'[m].variants => There(m)' /\ job'[m] = "none"
        /\ job'[m] \in {"active", "written"} /\ ~There(m)' => m \in overran'
        /\ "variants" \in files'[m] => job'[m] = "written" \/ media'[m].variants \/ m \in overran'
        /\ ~There(m)' /\ "source" \in files'[m] => m \in overran'
    <3>1. CASE StartTranscode(m)
      BY <1>1, <1>2, <3>1 DEF StartTranscode, RemovalInv, RemovalTypes, VariantsKnown
    <3>2. CASE PutVariants(m)
      BY <1>1, <1>2, <3>2 DEF PutVariants, RemovalInv, RemovalTypes, VariantsKnown
    <3>3. CASE NameVariants(m)
      BY <1>1, <1>2, <3>3 DEF NameVariants, RemovalInv, RemovalTypes, VariantsKnown
    <3> QED
      BY <3>1, <3>2, <3>3
  <2> QED
    BY <1>1, <1>2, <2>1 DEF RemovalInv, VariantsKnown
<1>7. VisitsKnown'
  <2>1. ASSUME NEW q \in Task, m \in task[q].m, task[q].pc \in Visit, task[q].variants PROVE FALSE
    <3>1. job[m] = "none"
      BY <2>1 DEF RemovalInv, VisitsKnown
    <3> QED
      BY <3>1 DEF StartTranscode, PutVariants, NameVariants
  <2>2. \A q \in Task : task[q].m \subseteq Medium /\ (task[q].pc = "row" => task[q].pc \in Visit)
    BY <1>1 DEF RemovalTypes, TaskState, Visit, Purge
  <2> QED
    BY <1>1, <1>2, <2>1, <2>2 DEF RemovalInv, VisitsKnown
<1>8. OrphansAreKnown'
  <2>1. \A q \in Task, n \in Medium : WillVisit(q, n)' <=> WillVisit(q, n)
    BY <1>1 DEF WillVisit
  <2>2. \A c \in Item : item[c].uses \subseteq Medium
    BY <1>1 DEF RemovalTypes
  <2> QED
    BY <1>1, <1>2, <1>3, <2>1, <2>2 DEF RemovalInv, OrphansAreKnown
<1> QED
  BY <1>2, <1>4, <1>5, <1>6, <1>7, <1>8 DEF RemovalInv

-----------------------------------------------------------------------------
(* The theorems                                                            *)

\* Where nothing but the queue of cancel jobs changes.
LEMMA AskedStep ==
  ASSUME RemovalInv,
         UNCHANGED <<media, files, item, job, task, breaks, overran, attachedLate>>
  PROVE  RemovalInv'
<1>1. /\ Live' = Live /\ Used' = Used /\ \A m : There(m)' = There(m)
      /\ \A m : Purging(m)' <=> Purging(m)
      /\ \A t, m : WillVisit(t, m)' <=> WillVisit(t, m)
  BY DEF Live, Used, There, Purging, WillVisit
<1>2. RemovalTypes' /\ TasksSound'
  BY DEF RemovalInv, RemovalTypes, TasksSound
<1>3. LateUsesKnown'
  BY <1>1 DEF RemovalInv, LateUsesKnown
<1>4. VariantsKnown' /\ VisitsKnown'
  BY <1>1 DEF RemovalInv, VariantsKnown, VisitsKnown
<1>5. OrphansAreKnown'
  BY <1>1 DEF RemovalInv, OrphansAreKnown
<1> QED
  BY <1>2, <1>3, <1>4, <1>5 DEF RemovalInv

\* Every step of every task and every transcode keeps the invariant.
LEMMA RemovalStep == RemovalInv /\ [RemovalNext]_removalVars => RemovalInv'
<1> SUFFICES ASSUME RemovalInv, [RemovalNext]_removalVars PROVE RemovalInv'
  OBVIOUS
<1>1. ASSUME NEW t \in Task, NEW c \in Item, NEW ids \in SUBSET Medium, Validate(t, c, ids)
      PROVE  RemovalInv'
  BY <1>1, ValidateStep
<1>2. ASSUME NEW t \in Task, NEW c \in Item, DeleteContent(t, c) PROVE RemovalInv'
  BY <1>2, DeleteContentStep
<1>3. ASSUME NEW t \in Task, NEW S \in SUBSET Item, FindStatuses(t, S) PROVE RemovalInv'
  BY <1>3, FindStatusesStep
<1>4. ASSUME NEW t \in Task, NEW m \in Medium, CancelUpload(t, m) PROVE RemovalInv'
  BY <1>4, CancelStep
<1>5. ASSUME NEW t \in Task,
             \/ Link(t) \/ DeleteStatuses(t) \/ FilterOrphanMediaIds(t) \/ NextOrphan(t)
             \/ IsMediaInUse(t) \/ RemovePendingJobs(t) \/ DeleteMediaSnapshot(t)
             \/ DeleteRow(t) \/ TaskBreaks(t)
      PROVE  RemovalInv'
  BY <1>5, LinkStep, DeleteStatusesStep, FilterStep, NextStep, CheckStep, RemoveJobsStep,
     SnapshotStep, RowStep, BreakStep
<1>6. ASSUME NEW m \in Medium, StartTranscode(m) \/ PutVariants(m) \/ NameVariants(m)
      PROVE  RemovalInv'
  BY <1>6, TranscodeStep
<1>7. ASSUME NEW m \in Medium, RequestCancelUpload(m) PROVE RemovalInv'
  BY <1>7, AskedStep DEF RequestCancelUpload
<1>8. CASE UNCHANGED removalVars
  BY <1>8, AskedStep DEF removalVars
<1> QED
  BY <1>1, <1>2, <1>3, <1>4, <1>5, <1>6, <1>7, <1>8 DEF RemovalNext

\* The invariant of attaching, deleting, purging and transcoding in every interleaving.
THEOREM RemovalInvariant == RemovalSpec => []RemovalInv
<1>1. RemovalInv /\ [RemovalNext]_removalVars => RemovalInv'
  BY RemovalStep
<1> QED
  BY <1>1, RemovalInitial, PTL DEF RemovalSpec

\* purgeMedia takes no object of a media in use unless the content attached it after
\* isMediaInUse had answered, and only a transcode beside the purge leaves objects without
\* a row, wherever a purge breaks off.
THEOREM PurgesAreSafe == RemovalSpec => []PurgeIsSafe
<1>1. RemovalInv => PurgeIsSafe
  <2> SUFFICES ASSUME RemovalInv PROVE PurgeIsSafe
    OBVIOUS
  <2>1. RemovalTypes
    BY DEF RemovalInv
  <2>2. ASSUME NEW c \in Live, NEW m \in item[c].uses, "source" \notin files[m]
        PROVE  c \in attachedLate
    <3>1. m \in Medium
      BY <2>1 DEF RemovalTypes, Live
    <3> QED
      BY <2>2, <3>1 DEF RemovalInv, LateUsesKnown
  <2>3. ASSUME NEW m \in Medium, ~There(m), files[m] # {} PROVE m \in overran
    <3>1. "source" \in files[m] \/ "variants" \in files[m]
      BY <2>1, <2>3 DEF RemovalTypes
    <3> QED
      BY <2>3, <3>1 DEF RemovalInv, VariantsKnown
  <2> QED
    BY <2>2, <2>3 DEF PurgeIsSafe
<1> QED
  BY <1>1, RemovalInvariant, PTL

\* Once every task has ended and none broke, no media is left that only deleted contents
\* used, however many of them shared it and went at the same time.
THEOREM OrphansCollected == RemovalSpec => []OrphansAreCollected
<1>1. RemovalInv => OrphansAreCollected
  <2> SUFFICES ASSUME RemovalInv, breaks = 0, \A t \in Task : task[t].pc = "idle",
                      NEW c \in Item, NEW m \in Medium,
                      item[c].state = "gone", m \in item[c].uses, There(m)
               PROVE  m \in Used
    BY DEF OrphansAreCollected, On
  <2>1. \A t \in Task : ~WillVisit(t, m)
    BY DEF WillVisit, Visit, Purge
  <2> QED
    BY <2>1 DEF RemovalInv, OrphansAreKnown
<1> QED
  BY <1>1, RemovalInvariant, PTL
=============================================================================
