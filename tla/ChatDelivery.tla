---------------------------- MODULE ChatDelivery ----------------------------
(***************************************************************************)
(* Message receipts against presence: a message is sent, its receipts are  *)
(* saved as delivered for whoever Redis says is reachable, a sweep on      *)
(* connect delivers the rest, reading marks them read, leaving drops them. *)
(*                                                                         *)
(* Every socket event and request is a handler that awaits between its     *)
(* steps: sending reads the participants, then the presence, then saves    *)
(* the receipts; the sweep and chat.read find receipts and write them      *)
(* later. Redis commands are issued in order, so an event's own presence   *)
(* command is part of the event's step.                                    *)
(***************************************************************************)
EXTENDS Naturals, FiniteSets

CONSTANTS
  User, Message, Chat,
  SenderOf,     \* SenderOf[m]: who sends message m
  ChatOf,       \* ChatOf[m]: the chat that m is sent to
  Pair,         \* Pair[c]: the two users of c, if c is a one-to-one chat
  Handler,      \* bound: handlers running at once
  NoUser, NoMessage, NoChat,
  MaxSockets,   \* bound: open sockets of one user
  MaxRefreshing,\* bound: presence refreshes between GET and SET
  MaxFaults     \* bound: handlers that throw and restarts in one behaviour

ASSUME ChatAssumption ==
  /\ SenderOf \in [Message -> User] /\ ChatOf \in [Message -> Chat]
  /\ Pair \in [Chat -> SUBSET User]
  /\ NoUser \notin User /\ NoMessage \notin Message /\ NoChat \notin Chat
  /\ MaxSockets \in Nat /\ MaxRefreshing \in Nat /\ MaxFaults \in Nat

VARIABLES
  kind,        \* kind[c]: "none" until chat c has a row
  members,     \* members[c]: the users with a participant row in chat c
  admins,      \* admins[c]: the members whose row says isAdmin
  created,     \* the messages with a chat_messages row
  receipt,     \* receipt[m][u]: the message_receipts row of u for m
  presence,    \* presence[u]: the Redis key, "offline" when it is gone
  sockets,     \* sockets[u]: open sockets of u
  refreshing,  \* refreshPresence calls between their GET and their SET
  th,          \* th[p]: where handler p is, and its local variables
  faults,      \* faults injected so far
  everMember   \* history: the users that have been in a chat

chatVars == <<kind, members, admins, everMember>>
presenceVars == <<presence, sockets, refreshing>>
vars == <<kind, members, admins, created, receipt, presence, sockets, refreshing,
          th, faults, everMember>>

-----------------------------------------------------------------------------
(* Types                                                                   *)

PresenceStatus == {"online", "away", "offline"}

Receipt == [there : BOOLEAN, delivered : BOOLEAN, read : BOOLEAN]

NoReceipt == [there |-> FALSE, delivered |-> FALSE, read |-> FALSE]

Sent == [NoReceipt EXCEPT !.there = TRUE]

\* A receipt that is there becomes delivered.
Deliver(r) == [r EXCEPT !.delivered = r.there]

Label == {"idle", "chat", "participants", "create", "presence", "receipts",
          "sweepFind", "sweepUpdate", "readFind", "readSave"}

HandlerState ==
  [pc      : Label,
   m       : Message \cup {NoMessage},  \* the message a send is about
   u       : User \cup {NoUser},        \* the user of a sweep or a read
   c       : Chat \cup {NoChat},        \* the chat that is read
   to      : SUBSET User,               \* the recipients, as they were read
   reached : SUBSET User,               \* the recipients that were not offline
   found   : SUBSET Message]            \* the messages whose receipts were found

Idle == [pc |-> "idle", m |-> NoMessage, u |-> NoUser, c |-> NoChat, to |-> {},
         reached |-> {}, found |-> {}]

\* The types of the variables; receipts, presence keys and handlers are records.
TypeOK ==
  /\ kind \in [Chat -> {"none", "group", "direct"}]
  /\ members \in [Chat -> SUBSET User]
  /\ admins \in [Chat -> SUBSET User]
  /\ created \subseteq Message
  /\ receipt \in [Message -> [User -> Receipt]]
  /\ presence \in [User -> PresenceStatus]
  /\ sockets \in [User -> 0 .. MaxSockets]
  /\ refreshing \subseteq User \X PresenceStatus
  /\ th \in [Handler -> HandlerState]
  /\ faults \in 0 .. MaxFaults
  /\ everMember \in [Chat -> SUBSET User]

Init ==
  /\ kind = [c \in Chat |-> "none"]
  /\ members = [c \in Chat |-> {}]
  /\ admins = [c \in Chat |-> {}]
  /\ created = {}
  /\ receipt = [m \in Message |-> [u \in User |-> NoReceipt]]
  /\ presence = [u \in User |-> "offline"]
  /\ sockets = [u \in User |-> 0]
  /\ refreshing = {}
  /\ th = [p \in Handler |-> Idle]
  /\ faults = 0
  /\ everMember = [c \in Chat |-> {}]

-----------------------------------------------------------------------------
(* Presence: PresenceService and the gateway's events                      *)

SetPresence(u, status) == presence' = [presence EXCEPT ![u] = status]

\* touchPresence: a GET now, a SET when its answer is back. Bound: refreshes of one
\* user that read the same status count as one, and beyond MaxRefreshing none is
\* made.
Touch(u) ==
  /\ sockets[u] > 0
  /\ refreshing' = IF Cardinality(refreshing) < MaxRefreshing
                   THEN refreshing \cup {<<u, presence[u]>>}
                   ELSE refreshing
  /\ UNCHANGED <<presence, sockets>>

\* A handler that starts the delivery sweep of u.
StartSweep(p, u) ==
  /\ th[p].pc = "idle"
  /\ th' = [th EXCEPT ![p] = [Idle EXCEPT !.pc = "sweepFind", !.u = u]]

\* handleConnection: presence first, then chat.user_connected.
Connect(p, u) ==
  /\ sockets[u] < MaxSockets
  /\ sockets' = [sockets EXCEPT ![u] = @ + 1]
  /\ SetPresence(u, "online")
  /\ StartSweep(p, u)
  /\ UNCHANGED <<chatVars, created, receipt, refreshing, faults>>

SetPresenceActive(p, u) ==
  /\ sockets[u] > 0
  /\ SetPresence(u, "online")
  /\ StartSweep(p, u)
  /\ UNCHANGED <<chatVars, created, receipt, sockets, refreshing, faults>>

SetPresenceAway(u) ==
  /\ sockets[u] > 0
  /\ SetPresence(u, "away")
  /\ UNCHANGED <<chatVars, created, receipt, sockets, refreshing, th, faults>>

\* Faulty variant: the disconnect of a socket that is gone already counts again.
DisconnectAgain(u) ==
  /\ sockets' = [sockets EXCEPT ![u] = @ - 1]
  /\ SetPresence(u, "offline")
  /\ UNCHANGED <<chatVars, created, receipt, refreshing, th, faults>>

\* One of the user's sockets closes; the key says offline whatever the others do.
HandleDisconnect(u) ==
  /\ sockets[u] > 0
  /\ sockets' = [sockets EXCEPT ![u] = @ - 1]
  /\ SetPresence(u, "offline")
  /\ UNCHANGED <<chatVars, created, receipt, refreshing, th, faults>>

Heartbeat(u) ==
  /\ Touch(u)
  /\ UNCHANGED <<chatVars, created, receipt, th, faults>>

\* The second half of refreshPresence: away stays away, all else is online.
RefreshPresence(u, status) ==
  /\ <<u, status>> \in refreshing
  /\ refreshing' = refreshing \ {<<u, status>>}
  /\ SetPresence(u, IF status = "away" THEN "away" ELSE "online")
  /\ UNCHANGED <<chatVars, created, receipt, sockets, th, faults>>

\* Faulty variant: the away key is set without a TTL.
ExpireOnlineOnly(u) ==
  /\ presence[u] = "online"
  /\ SetPresence(u, "offline")
  /\ UNCHANGED <<chatVars, created, receipt, sockets, refreshing, th, faults>>

\* presenceTtlSeconds pass without a refresh.
ExpirePresence(u) ==
  /\ presence[u] # "offline"
  /\ SetPresence(u, "offline")
  /\ UNCHANGED <<chatVars, created, receipt, sockets, refreshing, th, faults>>

-----------------------------------------------------------------------------
(* Membership: ChatsService                                                *)

Admit(c, users) ==
  /\ members' = [members EXCEPT ![c] = @ \cup users]
  /\ everMember' = [everMember EXCEPT ![c] = @ \cup users]

\* A chat of the model becomes a group or the pair's chat, whichever comes first.
CreateGroupChat(c, creator, users) ==
  /\ kind[c] = "none"
  /\ \A q \in Handler : th[q].pc = "chat" => ChatOf[th[q].m] # c
  /\ kind' = [kind EXCEPT ![c] = "group"]
  /\ Admit(c, users \cup {creator})
  /\ admins' = [admins EXCEPT ![c] = {creator}]
  /\ UNCHANGED <<created, receipt, presenceVars, th, faults>>

\* Input bound: only users without a participant row are added.
AddChatMember(c, by, u) ==
  /\ by \in members[c] \cap admins[c]
  /\ u \notin members[c]
  /\ Admit(c, {u})
  /\ UNCHANGED <<kind, admins, created, receipt, presenceVars, th, faults>>

\* One transaction: the receipts of u in this chat, then the participant row. A
\* receipt saved between the two statements survives, as one saved after them.
ExitGroupChat(c, u) ==
  /\ u \in members[c]
  /\ members' = [members EXCEPT ![c] = @ \ {u}]
  /\ admins' = [admins EXCEPT ![c] = @ \ {u}]
  /\ receipt' = [m \in Message |-> IF ChatOf[m] = c
                                   THEN [receipt[m] EXCEPT ![u] = NoReceipt]
                                   ELSE receipt[m]]
  /\ UNCHANGED <<kind, created, everMember, presenceVars, th, faults>>

-----------------------------------------------------------------------------
(* Sending: ChatMessageListener.handleSendMessage                          *)

Finish(p) == th' = [th EXCEPT ![p] = Idle]

Pairing(m) == kind[ChatOf[m]] # "group" /\ SenderOf[m] \in Pair[ChatOf[m]]

\* The payload names the chat, or the other user of a one-to-one chat.
SendMessage(p, m) ==
  /\ th[p].pc = "idle"
  /\ m \notin created
  /\ \A q \in Handler : th[q].m # m
  /\ Touch(SenderOf[m])
  /\ \E pc \in {"participants"} \cup (IF Pairing(m) THEN {"chat"} ELSE {}) :
       th' = [th EXCEPT ![p] = [Idle EXCEPT !.pc = pc, !.m = m]]
  /\ UNCHANGED <<chatVars, created, receipt, faults>>

\* getOrCreateOneToOneChat: the pair has one chat, with both of them in it when
\* it is created; afterwards its participants are whoever is left.
ResolveChat(p) ==
  LET c == ChatOf[th[p].m]
  IN /\ th[p].pc = "chat"
     /\ kind' = [kind EXCEPT ![c] = "direct"]
     /\ Admit(c, IF kind[c] = "none" THEN Pair[c] ELSE {})
     /\ th' = [th EXCEPT ![p].pc = "participants"]
     /\ UNCHANGED <<admins, created, receipt, presenceVars, faults>>

\* Faulty variant: the sender is a recipient as well.
SendToAll(p) ==
  LET users == members[ChatOf[th[p].m]]
  IN /\ th[p].pc = "participants"
     /\ th' = [th EXCEPT ![p] = IF SenderOf[th[p].m] \notin users THEN Idle
                               ELSE [@ EXCEPT !.pc = "create", !.to = users]]
     /\ UNCHANGED <<chatVars, created, receipt, presenceVars, faults>>

\* Only a participant may send; the recipients are fixed here.
ReadParticipants(p) ==
  LET m == th[p].m
      users == members[ChatOf[m]]
  IN /\ th[p].pc = "participants"
     /\ th' = [th EXCEPT ![p] = IF SenderOf[m] \notin users THEN Idle
                               ELSE [@ EXCEPT !.pc = "create",
                                              !.to = users \ {SenderOf[m]}]]
     /\ UNCHANGED <<chatVars, created, receipt, presenceVars, faults>>

CreateMessage(p) ==
  /\ th[p].pc = "create"
  /\ created' = created \cup {th[p].m}
  /\ th' = [th EXCEPT ![p].pc = "presence"]
  /\ UNCHANGED <<chatVars, receipt, presenceVars, faults>>

\* The transaction refuses an attachment and rolls back.
RefuseMessage(p) ==
  /\ th[p].pc = "create"
  /\ Finish(p)
  /\ UNCHANGED <<chatVars, created, receipt, presenceVars, faults>>

ReadPresence(p) ==
  /\ th[p].pc = "presence"
  /\ th' = [th EXCEPT ![p].pc = "receipts",
                      ![p].reached = {u \in th[p].to : presence[u] # "offline"}]
  /\ UNCHANGED <<chatVars, created, receipt, presenceVars, faults>>

\* One save inserts a receipt for every recipient. The pushes and socket events
\* that follow change nothing.
SaveReceipts(p) ==
  LET m == th[p].m
  IN /\ th[p].pc = "receipts"
     /\ receipt' = [receipt EXCEPT ![m] =
                      [u \in User |-> IF u \in th[p].to
                                      THEN IF u \in th[p].reached THEN Deliver(Sent)
                                                                  ELSE Sent
                                      ELSE @[u]]]
     /\ Finish(p)
     /\ UNCHANGED <<chatVars, created, presenceVars, faults>>

-----------------------------------------------------------------------------
(* Delivering and reading: ChatsService.markDelivered and markRead          *)

\* What p has found among the receipts, and where it goes.
Find(p, found, next) ==
  th' = [th EXCEPT ![p] =
           IF found = {} THEN Idle
           ELSE [@ EXCEPT !.pc = next, !.found = found]]

\* Faulty variant: only the chats that the user is still in are swept.
SweepFindInChats(p) ==
  LET u == th[p].u
  IN /\ th[p].pc = "sweepFind"
     /\ Find(p, {m \in Message : u \in members[ChatOf[m]] /\ receipt[m][u].there
                                 /\ ~receipt[m][u].delivered}, "sweepUpdate")
     /\ UNCHANGED <<chatVars, created, receipt, presenceVars, faults>>

\* A sweep is of all chats, whoever is a member by now.
SweepFind(p) ==
  LET u == th[p].u
  IN /\ th[p].pc = "sweepFind"
     /\ Find(p, {m \in Message : receipt[m][u].there /\ ~receipt[m][u].delivered},
             "sweepUpdate")
     /\ UNCHANGED <<chatVars, created, receipt, presenceVars, faults>>

\* The receipts of u for the messages of rows become rows.
Write(u, rows) ==
  receipt' = [m \in Message |-> IF m \in DOMAIN rows
                                THEN [receipt[m] EXCEPT ![u] = rows[m]]
                                ELSE receipt[m]]

\* Faulty variant: the sweep saves the rows as it found them, not two columns.
SweepSaveRows(p) ==
  /\ th[p].pc = "sweepUpdate"
  /\ Write(th[p].u, [m \in th[p].found |->
                       [there |-> TRUE, delivered |-> TRUE, read |-> FALSE]])
  /\ Finish(p)
  /\ UNCHANGED <<chatVars, created, presenceVars, faults>>

\* One UPDATE of two columns by id: what has gone meanwhile is not updated.
SweepUpdate(p) ==
  LET u == th[p].u
  IN /\ th[p].pc = "sweepUpdate"
     /\ Write(u, [m \in th[p].found |-> Deliver(receipt[m][u])])
     /\ Finish(p)
     /\ UNCHANGED <<chatVars, created, presenceVars, faults>>

ReadChat(p, u, c) ==
  /\ th[p].pc = "idle"
  /\ Touch(u)
  /\ th' = [th EXCEPT ![p] = [Idle EXCEPT !.pc = "readFind", !.u = u, !.c = c]]
  /\ UNCHANGED <<chatVars, created, receipt, faults>>

\* The unread receipts in the chat, whether or not u is still in it.
ReadFind(p) ==
  LET u == th[p].u
  IN /\ th[p].pc = "readFind"
     /\ Find(p, {m \in Message : /\ ChatOf[m] = th[p].c
                                    /\ receipt[m][u].there /\ ~receipt[m][u].read},
             "readSave")
     /\ UNCHANGED <<chatVars, created, receipt, presenceVars, faults>>

\* Faulty variant: chat.read sets read alone.
ReadSaveReadOnly(p) ==
  LET u == th[p].u
  IN /\ th[p].pc = "readSave"
     /\ Write(u, [m \in th[p].found |->
                    [receipt[m][u] EXCEPT !.there = TRUE, !.read = TRUE]])
     /\ Finish(p)
     /\ UNCHANGED <<chatVars, created, presenceVars, faults>>

\* save(receipts): each entity as it was found, now read and delivered. A row
\* that has gone meanwhile is inserted again.
ReadSave(p) ==
  /\ th[p].pc = "readSave"
  /\ Write(th[p].u, [m \in th[p].found |->
                       [there |-> TRUE, delivered |-> TRUE, read |-> TRUE]])
  /\ Finish(p)
  /\ UNCHANGED <<chatVars, created, presenceVars, faults>>

-----------------------------------------------------------------------------
(* Faults                                                                  *)

Fault == faults < MaxFaults /\ faults' = faults + 1

\* A query fails; the handler reports the error and ends.
HandlerThrows(p) ==
  /\ Fault
  /\ th[p].pc # "idle"
  /\ Finish(p)
  /\ UNCHANGED <<chatVars, created, receipt, presenceVars>>

\* The process restarts: handlers, refreshes and sockets are gone, the rows and
\* the presence keys are not.
Crash ==
  /\ Fault
  /\ th' = [p \in Handler |-> Idle]
  /\ sockets' = [u \in User |-> 0]
  /\ refreshing' = {}
  /\ UNCHANGED <<chatVars, created, receipt, presence>>
-----------------------------------------------------------------------------
(* The specification                                                       *)

SocketEvent(u) ==
  \/ \E p \in Handler : Connect(p, u) \/ SetPresenceActive(p, u)
  \/ SetPresenceAway(u)
  \/ HandleDisconnect(u)
  \/ Heartbeat(u)
  \/ \E p \in Handler, c \in Chat : ReadChat(p, u, c)

PresenceStep(u) ==
  \/ \E status \in PresenceStatus : RefreshPresence(u, status)
  \/ ExpirePresence(u)

Membership(c) ==
  \/ \E u \in User, users \in SUBSET User : CreateGroupChat(c, u, users)
  \/ \E by, u \in User : AddChatMember(c, by, u)
  \/ \E u \in User : ExitGroupChat(c, u)

\* A handler goes on; nothing but a fault stops it.
HandlerStep(p) ==
  \/ ResolveChat(p) \/ ReadParticipants(p) \/ CreateMessage(p) \/ RefuseMessage(p)
  \/ ReadPresence(p) \/ SaveReceipts(p)
  \/ SweepFind(p) \/ SweepUpdate(p)
  \/ ReadFind(p) \/ ReadSave(p)

Next ==
  \/ \E u \in User : SocketEvent(u) \/ PresenceStep(u)
  \/ \E c \in Chat : Membership(c)
  \/ \E p \in Handler, m \in Message : SendMessage(p, m)
  \/ \E p \in Handler : HandlerStep(p) \/ HandlerThrows(p)
  \/ Crash

Spec == Init /\ [][Next]_vars

\* A query that was sent is answered, and once nobody can refresh a key any more
\* the refreshes in flight end and the key lapses. No event of a client and no
\* fault ever has to happen.
Fairness ==
  /\ \A p \in Handler : WF_vars(HandlerStep(p))
  /\ \A u \in User : WF_vars(sockets[u] = 0 /\ PresenceStep(u))

FairSpec == Spec /\ Fairness

-----------------------------------------------------------------------------
(* Properties                                                              *)

\* No interleaving of the send, the sweep, chat.read and leaving leaves a
\* receipt read but not delivered (markRead, chats.service.ts:546).
ReadImpliesDelivered ==
  \A m \in Message, u \in User : receipt[m][u].read => receipt[m][u].delivered

Sending == {"chat", "participants", "create", "presence", "receipts"}

\* Receipts belong to messages that exist and to others that have been in the
\* chat; read implies delivered implies there.
ReceiptsEarned ==
  \A m \in Message, u \in User :
    /\ receipt[m][u].read => receipt[m][u].delivered
    /\ receipt[m][u].delivered => receipt[m][u].there
    /\ receipt[m][u].there => m \in created /\ u \in everMember[ChatOf[m]] \ {SenderOf[m]}

MembersWereThere == \A c \in Chat : members[c] \subseteq everMember[c]

\* What a handler h holds: a send has a message of its own without a receipt yet,
\* and recipients that may have one; what was found may be written.
HandlerSound(h) ==
  /\ h.pc \in Sending <=> h.m # NoMessage
  /\ h.pc \in {"presence", "receipts"} => h.m \in created
  /\ h.m # NoMessage =>
       /\ \A u \in User : ~receipt[h.m][u].there
       /\ h.to \subseteq everMember[ChatOf[h.m]] \ {SenderOf[h.m]}
       /\ h.found = {}
  /\ h.pc \notin Sending \cup {"idle"} => h.u \in User
  /\ \A m \in h.found : m \in created /\ h.u \in everMember[ChatOf[m]] \ {SenderOf[m]}

HandlersSound == \A p \in Handler : HandlerSound(th[p])

\* Nobody else sends a message, or has found its receipts, while it is being sent.
SendsAlone ==
  \A p, q \in Handler : th[p].m # NoMessage =>
    /\ p # q => th[q].m # th[p].m
    /\ th[p].m \notin th[q].found

\* The inductive invariant: every handler, whenever it gets to its write, may still
\* write what it read the right to write (handleSendMessage, markDelivered, markRead).
DeliveryInv == TypeOK /\ ReceiptsEarned /\ MembersWereThere /\ HandlersSound /\ SendsAlone

\* How far message m has come with user u.
Stage(m, u) ==
  IF ~receipt[m][u].there THEN "none"
  ELSE IF receipt[m][u].read THEN "read"
  ELSE IF receipt[m][u].delivered THEN "delivered"
  ELSE "sent"

Life == INSTANCE ReceiptLife
          WITH stage <- [m \in Message |-> [u \in User |-> Stage(m, u)]]

\* Whatever handlers save from what they read earlier, a receipt never goes back
\* a stage, none appears for the sender or for someone who was never in the chat,
\* and only leaving removes any.
ImplementsReceiptLife == Life!LifeSpec

Undelivered(m, u) == receipt[m][u].there /\ ~receipt[m][u].delivered

\* A sweep of u has yet to read the receipts.
SweepAhead(u) == \E p \in Handler : th[p].pc = "sweepFind" /\ th[p].u = u

\* The sweep on connect (handleUserConnected) delivers what is undelivered when
\* it starts, or the user leaves, whatever else runs; only a fault excuses it.
SweepCatchesUp ==
  \A m \in Message : \A u \in User \ {SenderOf[m]} :
    Undelivered(m, u) /\ SweepAhead(u) ~> ~Undelivered(m, u) \/ faults > 0

\* A user without a socket is offline in the end, although a refresh that was in
\* flight at the disconnect says online or away again (refreshPresence).
OfflineInTheEnd ==
  \A u \in User : sockets[u] = 0 ~> presence[u] = "offline" \/ sockets[u] > 0

\* ws.gateway.ts:68: chat.user_connected is "Emitted AFTER presence is set so any
\* race with an inbound message decides "online" at send time". So a receipt that
\* is saved undelivered is of a user who is offline or whom a sweep still reaches.
RaceDecidesOnline ==
  [][\A m \in Message, u \in User :
       Undelivered(m, u)' /\ ~receipt[m][u].there
         => presence[u] = "offline" \/ SweepAhead(u)]_vars
=============================================================================
