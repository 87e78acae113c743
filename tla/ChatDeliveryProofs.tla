------------------------- MODULE ChatDeliveryProofs -------------------------
(***************************************************************************)
(* Theorems about ChatDelivery, for every value of its constants: types,   *)
(* the inductive invariant DeliveryInv, and the refinement of ReceiptLife. *)
(***************************************************************************)
EXTENDS ChatDelivery, TLAPS

-----------------------------------------------------------------------------
(* Types                                                                   *)

\* Idle is a state of a handler.
LEMMA IdleType == Idle \in HandlerState
  BY DEF Idle, HandlerState, Label

\* Delivering makes a receipt of a receipt.
LEMMA DeliverType == Sent \in Receipt /\ \A r \in Receipt : Deliver(r) \in Receipt
  BY DEF Sent, Deliver, NoReceipt, Receipt

\* A socket event keeps the types.
LEMMA SocketEventType ==
  ASSUME TypeOK, NEW u \in User, SocketEvent(u)
  PROVE  TypeOK'
<1> USE ChatAssumption, IdleType DEF TypeOK, PresenceStatus, chatVars
<1>1. ASSUME NEW p \in Handler, Connect(p, u) PROVE TypeOK'
  <2>1. [Idle EXCEPT !.pc = "sweepFind", !.u = u] \in HandlerState
    BY DEF Idle, HandlerState, Label
  <2> QED
    BY <1>1, <2>1 DEF Connect, SetPresence, StartSweep
<1>2. ASSUME NEW p \in Handler, SetPresenceActive(p, u) PROVE TypeOK'
  <2>1. [Idle EXCEPT !.pc = "sweepFind", !.u = u] \in HandlerState
    BY DEF Idle, HandlerState, Label
  <2> QED
    BY <1>2, <2>1 DEF SetPresenceActive, SetPresence, StartSweep
<1>3. CASE SetPresenceAway(u)
  BY <1>3 DEF SetPresenceAway, SetPresence
<1>4. CASE HandleDisconnect(u)
  BY <1>4 DEF HandleDisconnect, SetPresence
<1>5. CASE Heartbeat(u)
  BY <1>5 DEF Heartbeat, Touch
<1>6. ASSUME NEW p \in Handler, NEW c \in Chat, ReadChat(p, u, c) PROVE TypeOK'
  <2>1. [Idle EXCEPT !.pc = "readFind", !.u = u, !.c = c] \in HandlerState
    BY DEF Idle, HandlerState, Label
  <2> QED
    BY <1>6, <2>1 DEF ReadChat, Touch
<1> QED
  BY <1>1, <1>2, <1>3, <1>4, <1>5, <1>6 DEF SocketEvent

\* A presence key that is set or lapses keeps the types.
LEMMA PresenceStepType ==
  ASSUME TypeOK, NEW u \in User, PresenceStep(u)
  PROVE  TypeOK'
<1> USE DEF TypeOK, PresenceStatus, chatVars
<1>1. ASSUME NEW status \in PresenceStatus, RefreshPresence(u, status) PROVE TypeOK'
  BY <1>1 DEF RefreshPresence, SetPresence
<1>2. CASE ExpirePresence(u)
  BY <1>2 DEF ExpirePresence, SetPresence
<1> QED
  BY <1>1, <1>2 DEF PresenceStep

\* Joining and leaving keep the types.
LEMMA MembershipType ==
  ASSUME TypeOK, NEW c \in Chat, Membership(c)
  PROVE  TypeOK'
<1> USE DEF TypeOK, presenceVars, Admit
<1>1. ASSUME NEW u \in User, NEW users \in SUBSET User, CreateGroupChat(c, u, users) PROVE TypeOK'
  BY <1>1 DEF CreateGroupChat
<1>2. ASSUME NEW by \in User, NEW u \in User, AddChatMember(c, by, u) PROVE TypeOK'
  BY <1>2 DEF AddChatMember
<1>3. ASSUME NEW u \in User, ExitGroupChat(c, u) PROVE TypeOK'
  <2>1. NoReceipt \in Receipt
    BY DEF NoReceipt, Receipt
  <2>2. receipt' \in [Message -> [User -> Receipt]]
    BY <1>3, <2>1 DEF ExitGroupChat
  <2> QED
    BY <1>3, <2>2 DEF ExitGroupChat
<1> QED
  BY <1>1, <1>2, <1>3 DEF Membership


-----------------------------------------------------------------------------
(* Types, continued                                                        *)

\* A handler keeps the types, as one that sends has a message.
LEMMA HandlerStepType ==
  ASSUME TypeOK, HandlersSound, NEW p \in Handler, HandlerStep(p)
  PROVE  TypeOK'
<1> USE ChatAssumption, IdleType DEF TypeOK, chatVars, presenceVars
<1>t. th[p] \in HandlerState /\ HandlerSound(th[p])
  BY DEF HandlersSound
<1>r. NoReceipt \in Receipt
  BY DEF NoReceipt, Receipt
<1>w. ASSUME NEW rows, rows \in [DOMAIN rows -> Receipt], NEW u, Write(u, rows)
      PROVE  receipt' \in [Message -> [User -> Receipt]]
  BY <1>w DEF Write
<1>1. CASE ResolveChat(p)
  <2>1. th' \in [Handler -> HandlerState]
    BY <1>1, <1>t DEF ResolveChat, HandlerState, Label
  <2>2. th[p].m \in Message
    BY <1>1, <1>t DEF ResolveChat, HandlerState, HandlerSound, Sending
  <2> QED
    BY <1>1, <2>1, <2>2 DEF ResolveChat, Admit
<1>2. CASE ReadParticipants(p)
  <2>1. th[p].m \in Message
    BY <1>2, <1>t DEF ReadParticipants, HandlerState, HandlerSound, Sending
  <2>2. \A to \in SUBSET User : [th[p] EXCEPT !.pc = "create", !.to = to] \in HandlerState
    BY <1>t DEF HandlerState, Label
  <2> QED
    BY <1>2, <2>1, <2>2 DEF ReadParticipants
<1>3. CASE CreateMessage(p)
  <2>1. th' \in [Handler -> HandlerState]
    BY <1>3, <1>t DEF CreateMessage, HandlerState, Label
  <2>2. th[p].m \in Message
    BY <1>3, <1>t DEF CreateMessage, HandlerState, HandlerSound, Sending
  <2> QED
    BY <1>3, <2>1, <2>2 DEF CreateMessage
<1>4. CASE RefuseMessage(p)
  BY <1>4 DEF RefuseMessage, Finish
<1>5. CASE ReadPresence(p)
  <2> DEFINE reached == {u \in th[p].to : presence[u] # "offline"}
             t == [th[p] EXCEPT !.pc = "receipts", !.reached = reached]
  <2>2. "receipts" \in Label /\ reached \in SUBSET User
    BY <1>t DEF HandlerState, Label
  <2>3. t \in HandlerState
    BY <1>t, <2>2 DEF HandlerState
  <2>4. th' = [th EXCEPT ![p] = t]
    BY <1>5, Zenon DEF ReadPresence
  <2> HIDE DEF reached, t
  <2>1. th' \in [Handler -> HandlerState]
    BY <2>3, <2>4
  <2> QED
    BY <1>5, <2>1 DEF ReadPresence
<1>6. CASE SaveReceipts(p)
  <2> DEFINE saved == [u \in User |-> IF u \in th[p].to
                          THEN IF u \in th[p].reached THEN Deliver(Sent) ELSE Sent
                          ELSE receipt[th[p].m][u]]
  <2>m. th[p].m \in Message
    BY <1>6, <1>t DEF SaveReceipts, HandlerState, HandlerSound, Sending
  <2>s. saved \in [User -> Receipt]
    BY <2>m, <1>r, DeliverType
  <2>e. receipt' = [receipt EXCEPT ![th[p].m] = saved]
    BY <1>6 DEF SaveReceipts
  <2> HIDE DEF saved
  <2>2. receipt' \in [Message -> [User -> Receipt]]
    BY <2>s, <2>e
  <2> QED
    BY <1>6, <2>2 DEF SaveReceipts, Finish
<1>7. CASE SweepFind(p)
  <2>1. \A found \in SUBSET Message :
          [th[p] EXCEPT !.pc = "sweepUpdate", !.found = found] \in HandlerState
    BY <1>t DEF HandlerState, Label
  <2> QED
    BY <1>7, <2>1 DEF SweepFind, Find
<1>8. CASE SweepUpdate(p)
  <2>1. th[p].u \in User /\ th[p].found \subseteq Message
    BY <1>8, <1>t DEF SweepUpdate, HandlerState, HandlerSound, Sending
  <2>2. \A m \in th[p].found : Deliver(receipt[m][th[p].u]) \in Receipt
    BY <2>1, DeliverType
  <2>3. receipt' \in [Message -> [User -> Receipt]]
    BY <1>8, <2>2, <1>w DEF SweepUpdate
  <2> QED
    BY <1>8, <2>3 DEF SweepUpdate, Finish
<1>9. CASE ReadFind(p)
  <2>1. \A found \in SUBSET Message :
          [th[p] EXCEPT !.pc = "readSave", !.found = found] \in HandlerState
    BY <1>t DEF HandlerState, Label
  <2> QED
    BY <1>9, <2>1 DEF ReadFind, Find
<1>10. CASE ReadSave(p)
  <2>1. [there |-> TRUE, delivered |-> TRUE, read |-> TRUE] \in Receipt
    BY DEF Receipt
  <2>2. receipt' \in [Message -> [User -> Receipt]]
    BY <1>10, <2>1, <1>w DEF ReadSave
  <2> QED
    BY <1>10, <2>2 DEF ReadSave, Finish
<1> QED
  BY <1>1, <1>2, <1>3, <1>4, <1>5, <1>6, <1>7, <1>8, <1>9, <1>10 DEF HandlerStep

\* Every step keeps the types.
LEMMA TypeStep ==
  ASSUME TypeOK, HandlersSound, [Next]_vars
  PROVE  TypeOK'
<1> USE ChatAssumption, IdleType
<1>1. ASSUME NEW p \in Handler, NEW m \in Message, SendMessage(p, m) PROVE TypeOK'
  <2>1. \A pc \in Label : [Idle EXCEPT !.pc = pc, !.m = m] \in HandlerState
    BY DEF Idle, HandlerState
  <2>2. th' \in [Handler -> HandlerState]
    BY <1>1, <2>1 DEF SendMessage, TypeOK, Label
  <2>3. SenderOf[m] \in User
    OBVIOUS
  <2> QED
    BY <1>1, <2>2, <2>3 DEF SendMessage, TypeOK, Touch, chatVars
<1>2. ASSUME NEW p \in Handler, HandlerThrows(p) PROVE TypeOK'
  BY <1>2 DEF HandlerThrows, Fault, Finish, TypeOK, chatVars, presenceVars
<1>3. CASE Crash
  BY <1>3 DEF Crash, Fault, TypeOK, chatVars
<1>4. CASE UNCHANGED vars
  BY <1>4 DEF vars, TypeOK
<1> QED
  BY <1>1, <1>2, <1>3, <1>4, SocketEventType, PresenceStepType, MembershipType,
     HandlerStepType DEF Next

-----------------------------------------------------------------------------
(* The invariant is kept                                                   *)

\* A handler that does not move stays sound while rows and members only come.
LEMMA StaysSound ==
  ASSUME DeliveryInv, NEW q \in Handler, th'[q] = th[q], created \subseteq created',
         \A c \in Chat : everMember[c] \subseteq everMember'[c],
         th[q].m # NoMessage => \A u \in User : ~receipt'[th[q].m][u].there
  PROVE  HandlerSound(th[q])'
<1>1. HandlerSound(th[q]) /\ th[q] \in HandlerState
  BY DEF DeliveryInv, HandlersSound, TypeOK
<1>2. \A m \in Message : ChatOf[m] \in Chat
  BY ChatAssumption
<1> QED
  BY <1>1, <1>2 DEF HandlerSound, HandlerState

\* Steps that touch neither rows nor members and set handlers to blank states.
LEMMA QuietStep ==
  ASSUME DeliveryInv, UNCHANGED <<members, everMember, created, receipt>>,
         \A q \in Handler : \/ th'[q] = th[q]
                            \/ /\ th'[q].m = NoMessage /\ th'[q].found = {}
                               /\ th'[q].pc # "idle" => th'[q].u \in User
                               /\ th'[q].pc \notin Sending
  PROVE  ReceiptsEarned' /\ MembersWereThere' /\ HandlersSound' /\ SendsAlone'
<1>1. ReceiptsEarned' /\ MembersWereThere'
  BY DEF DeliveryInv, ReceiptsEarned, MembersWereThere
<1>2. ASSUME NEW q \in Handler PROVE HandlerSound(th[q])'
  <2>1. CASE th'[q] = th[q]
    <3>1. HandlerSound(th[q])
      BY DEF DeliveryInv, HandlersSound
    <3> QED
      BY <2>1, <3>1 DEF HandlerSound
  <2>2. CASE th'[q] # th[q]
    BY <2>2 DEF HandlerSound, Sending
  <2> QED
    BY <2>1, <2>2
<1>3. SendsAlone'
  BY DEF DeliveryInv, SendsAlone
<1> QED
  BY <1>1, <1>2, <1>3 DEF HandlersSound

\* Whoever is admitted has been there.
LEMMA AdmitGrows ==
  ASSUME TypeOK, MembersWereThere, NEW c \in Chat, NEW users \in SUBSET User, Admit(c, users)
  PROVE  MembersWereThere' /\ \A d \in Chat : everMember[d] \subseteq everMember'[d]
<1>1. ASSUME NEW d \in Chat
      PROVE  /\ members'[d] = IF d = c THEN members[d] \cup users ELSE members[d]
             /\ everMember'[d] = IF d = c THEN everMember[d] \cup users ELSE everMember[d]
  BY DEF Admit, TypeOK
<1> QED
  BY <1>1 DEF MembersWereThere

\* Joining and leaving keep the invariant.
LEMMA MembershipStep ==
  ASSUME DeliveryInv, TypeOK', NEW c \in Chat, Membership(c)
  PROVE  ReceiptsEarned' /\ MembersWereThere' /\ HandlersSound' /\ SendsAlone'
<1> USE DEF DeliveryInv
<1>1. th' = th /\ created' = created
  BY DEF Membership, CreateGroupChat, AddChatMember, ExitGroupChat
<1>2. MembersWereThere' /\ \A d \in Chat : everMember[d] \subseteq everMember'[d]
  <2>1. ASSUME NEW users \in SUBSET User, Admit(c, users)
        PROVE  MembersWereThere' /\ \A d \in Chat : everMember[d] \subseteq everMember'[d]
    BY <2>1, AdmitGrows
  <2>2. ASSUME NEW u \in User, ExitGroupChat(c, u)
        PROVE  MembersWereThere' /\ \A d \in Chat : everMember[d] \subseteq everMember'[d]
    <3>1. everMember' = everMember /\ \A d \in Chat : members'[d] \subseteq members[d]
      BY <2>2 DEF ExitGroupChat, TypeOK
    <3> QED
      BY <3>1 DEF MembersWereThere
  <2>3. ASSUME NEW u \in User, NEW users \in SUBSET User, CreateGroupChat(c, u, users)
        PROVE  users \cup {u} \in SUBSET User /\ Admit(c, users \cup {u})
    BY <2>3 DEF CreateGroupChat
  <2>4. ASSUME NEW by \in User, NEW u \in User, AddChatMember(c, by, u)
        PROVE  {u} \in SUBSET User /\ Admit(c, {u})
    BY <2>4 DEF AddChatMember
  <2> QED
    BY <2>1, <2>2, <2>3, <2>4 DEF Membership
<1>3. \A m \in Message, u \in User : receipt'[m][u] = receipt[m][u] \/ receipt'[m][u] = NoReceipt
  <2>1. ASSUME NEW v \in User, ExitGroupChat(c, v), NEW m \in Message, NEW u \in User
        PROVE  receipt'[m][u] = receipt[m][u] \/ receipt'[m][u] = NoReceipt
    <3>1. receipt[m] \in [User -> Receipt]
      BY DEF TypeOK
    <3>2. receipt'[m] = receipt[m] \/ receipt'[m] = [receipt[m] EXCEPT ![v] = NoReceipt]
      BY <2>1 DEF ExitGroupChat
    <3> QED
      BY <3>1, <3>2
  <2>2. ASSUME receipt' = receipt, NEW m \in Message, NEW u \in User
        PROVE  receipt'[m][u] = receipt[m][u]
    BY <2>2
  <2> QED
    BY <2>1, <2>2 DEF Membership, CreateGroupChat, AddChatMember
<1>n. ~NoReceipt.there /\ ~NoReceipt.delivered /\ ~NoReceipt.read
  BY DEF NoReceipt
<1>4. ReceiptsEarned'
  <2>1. SUFFICES ASSUME NEW m \in Message, NEW u \in User
                 PROVE  /\ receipt'[m][u].read => receipt'[m][u].delivered
                        /\ receipt'[m][u].delivered => receipt'[m][u].there
                        /\ receipt'[m][u].there =>
                             m \in created' /\ u \in everMember'[ChatOf[m]] \ {SenderOf[m]}
    BY DEF ReceiptsEarned
  <2>2. ChatOf[m] \in Chat
    BY ChatAssumption
  <2> QED
    BY <1>1, <1>2, <1>3, <1>n, <2>2 DEF ReceiptsEarned
<1>5. ASSUME NEW q \in Handler PROVE HandlerSound(th[q])'
  <2>1. th[q].m # NoMessage => \A u \in User : ~receipt'[th[q].m][u].there
    <3>1. HandlerSound(th[q]) /\ th[q].m \in Message \cup {NoMessage}
      BY DEF HandlersSound, TypeOK, HandlerState
    <3> QED
      BY <1>3, <1>n, <3>1 DEF HandlerSound
  <2> QED
    BY <1>1, <1>2, <2>1, StaysSound
<1> QED
  BY <1>1, <1>2, <1>4, <1>5 DEF HandlersSound, SendsAlone

\* A handler goes from one step to the next and writes no receipts.
LEMMA MoveStep ==
  ASSUME DeliveryInv, NEW p \in Handler, \A q \in Handler \ {p} : th'[q] = th[q],
         receipt' = receipt, created \subseteq created',
         \A c \in Chat : everMember[c] \subseteq everMember'[c], MembersWereThere',
         HandlerSound(th[p])',
         \/ th'[p].m \in {NoMessage, th[p].m}
         \/ th'[p].m \notin created /\ \A q \in Handler : th[q].m # th'[p].m,
         \A q \in Handler : th[q].m # NoMessage => th[q].m \notin th'[p].found
  PROVE  ReceiptsEarned' /\ MembersWereThere' /\ HandlersSound' /\ SendsAlone'
<1> USE DEF DeliveryInv
<1>1. ReceiptsEarned'
  <2>1. SUFFICES ASSUME NEW m \in Message, NEW u \in User
                 PROVE  /\ receipt'[m][u].read => receipt'[m][u].delivered
                        /\ receipt'[m][u].delivered => receipt'[m][u].there
                        /\ receipt'[m][u].there =>
                             m \in created' /\ u \in everMember'[ChatOf[m]] \ {SenderOf[m]}
    BY DEF ReceiptsEarned
  <2>2. ChatOf[m] \in Chat
    BY ChatAssumption
  <2> QED
    BY <2>2 DEF ReceiptsEarned
<1>2. ASSUME NEW q \in Handler, q # p PROVE HandlerSound(th[q])'
  <2>1. th[q].m # NoMessage => \A u \in User : ~receipt'[th[q].m][u].there
    BY DEF HandlersSound, HandlerSound
  <2> QED
    BY <1>2, <2>1, StaysSound
<1>3. SendsAlone'
  <2>1. SUFFICES ASSUME NEW a \in Handler, NEW b \in Handler, th'[a].m # NoMessage
                 PROVE  /\ a # b => th'[b].m # th'[a].m
                        /\ th'[a].m \notin th'[b].found
    BY DEF SendsAlone
  <2>2. \A q \in Handler : \A m \in th[q].found : m \in created
    BY DEF HandlersSound, HandlerSound
  <2>3. HandlerSound(th[p])'
    OBVIOUS
  <2>4. th'[p].m # NoMessage => th'[p].found = {}
    BY <2>3 DEF HandlerSound
  <2> QED
    BY <2>1, <2>2, <2>4 DEF SendsAlone
<1> QED
  BY <1>1, <1>2, <1>3 DEF HandlersSound

\* A handler writes receipts, of nobody else's message, and ends.
LEMMA WriteStep ==
  ASSUME DeliveryInv, NEW p \in Handler, th' = [th EXCEPT ![p] = Idle],
         UNCHANGED <<members, everMember, created>>,
         \A m \in Message, u \in User :
           /\ receipt'[m][u].read => receipt'[m][u].delivered
           /\ receipt'[m][u].delivered => receipt'[m][u].there
           /\ receipt'[m][u].there /\ ~receipt[m][u].there =>
                /\ m \in created /\ u \in everMember[ChatOf[m]] \ {SenderOf[m]}
                /\ \A q \in Handler \ {p} : th[q].m # m
  PROVE  ReceiptsEarned' /\ MembersWereThere' /\ HandlersSound' /\ SendsAlone'
<1> USE DEF DeliveryInv
<1>1. ReceiptsEarned' /\ MembersWereThere'
  BY DEF ReceiptsEarned, MembersWereThere
<1>2. ASSUME NEW q \in Handler PROVE HandlerSound(th[q])'
  <2>1. CASE q = p
    <3>1. th'[q] = Idle
      BY <2>1 DEF TypeOK
    <3> QED
      BY <3>1 DEF HandlerSound, Idle, Sending
  <2>2. CASE q # p
    <3>1. th'[q] = th[q] /\ HandlerSound(th[q]) /\ th[q].m \in Message \cup {NoMessage}
      BY <2>2 DEF TypeOK, HandlersSound, HandlerState
    <3>2. th[q].m # NoMessage => \A u \in User : ~receipt'[th[q].m][u].there
      BY <2>2, <3>1 DEF HandlerSound
    <3> QED
      BY <3>1, <3>2, StaysSound
  <2> QED
    BY <2>1, <2>2
<1>3. SendsAlone'
  <2>1. \A q \in Handler : th'[q] = IF q = p THEN Idle ELSE th[q]
    BY DEF TypeOK
  <2>2. Idle.m = NoMessage /\ Idle.found = {}
    BY DEF Idle
  <2> QED
    BY <2>1, <2>2 DEF SendsAlone
<1> QED
  BY <1>1, <1>2, <1>3 DEF HandlersSound

\* A message that has neither a row nor a handler gets one.
LEMMA SendMessageStep ==
  ASSUME DeliveryInv, NEW p \in Handler, NEW m \in Message, SendMessage(p, m)
  PROVE  ReceiptsEarned' /\ MembersWereThere' /\ HandlersSound' /\ SendsAlone'
<1> USE DEF DeliveryInv, SendMessage, chatVars
<1>1. PICK pc \in {"participants", "chat"} :
        th' = [th EXCEPT ![p] = [Idle EXCEPT !.pc = pc, !.m = m]]
  OBVIOUS
<1>2. th'[p] = [Idle EXCEPT !.pc = pc, !.m = m] /\ \A q \in Handler \ {p} : th'[q] = th[q]
  BY <1>1 DEF TypeOK
<1>3. /\ th'[p].pc = pc /\ th'[p].m = m /\ th'[p].to = {} /\ th'[p].found = {}
  BY <1>2 DEF Idle
<1>4. HandlerSound(th[p])'
  <2>1. \A u \in User : ~receipt[m][u].there
    BY DEF ReceiptsEarned
  <2> QED
    BY <1>3, <2>1, ChatAssumption DEF HandlerSound, Sending
<1>5. MembersWereThere'
  BY DEF MembersWereThere
<1>6. \A q \in Handler : th[q].m # th'[p].m
  BY <1>3
<1> QED
  BY <1>2, <1>3, <1>4, <1>5, <1>6, MoveStep

\* The steps of a send.
LEMMA SendingStep ==
  ASSUME DeliveryInv, NEW p \in Handler,
         ResolveChat(p) \/ ReadParticipants(p) \/ CreateMessage(p) \/ ReadPresence(p)
  PROVE  ReceiptsEarned' /\ MembersWereThere' /\ HandlersSound' /\ SendsAlone'
<1> USE DEF DeliveryInv, chatVars
<1>t. th[p] \in HandlerState /\ HandlerSound(th[p])
  BY DEF TypeOK, HandlersSound
<1>m. th[p].m \in Message /\ th[p].m # NoMessage /\ th[p].found = {}
  BY <1>t, ChatAssumption DEF ResolveChat, ReadParticipants, CreateMessage, ReadPresence,
     HandlerState, HandlerSound, Sending
<1>c. ChatOf[th[p].m] \in Chat
  BY <1>m, ChatAssumption
<1>o. \A q \in Handler \ {p} : th'[q] = th[q]
  BY DEF ResolveChat, ReadParticipants, CreateMessage, ReadPresence, TypeOK
<1>r. receipt' = receipt
  BY DEF ResolveChat, ReadParticipants, CreateMessage, ReadPresence
<1>e. /\ created \subseteq created' /\ MembersWereThere'
      /\ \A c \in Chat : everMember[c] \subseteq everMember'[c]
  <2>1. created \subseteq created'
    BY DEF ResolveChat, ReadParticipants, CreateMessage, ReadPresence
  <2>2. CASE ResolveChat(p)
    <3>1. PICK users \in SUBSET User : Admit(ChatOf[th[p].m], users)
      BY <1>c, <2>2, ChatAssumption DEF ResolveChat
    <3> QED
      BY <1>c, <2>1, <3>1, AdmitGrows
  <2>3. CASE ReadParticipants(p) \/ CreateMessage(p) \/ ReadPresence(p)
    <3>1. members' = members /\ everMember' = everMember
      BY <2>3 DEF ReadParticipants, CreateMessage, ReadPresence
    <3> QED
      BY <2>1, <3>1 DEF MembersWereThere
  <2> QED
    BY <2>2, <2>3
<1>1. CASE ResolveChat(p)
  <2>1. th'[p] = [th[p] EXCEPT !.pc = "participants"]
    BY <1>1 DEF ResolveChat, TypeOK
  <2>2. /\ th'[p].pc = "participants" /\ th'[p].m = th[p].m /\ th'[p].to = th[p].to
        /\ th'[p].found = {}
    BY <1>t, <1>m, <2>1 DEF HandlerState
  <2>3. HandlerSound(th[p])'
    BY <1>t, <1>m, <1>c, <1>r, <1>e, <2>2 DEF HandlerSound, Sending
  <2> QED
    BY <1>o, <1>r, <1>e, <2>2, <2>3, MoveStep
<1>2. CASE ReadParticipants(p)
  <2>1. CASE th'[p] = Idle
    <3>1. HandlerSound(th[p])' /\ th'[p].m = NoMessage /\ th'[p].found = {}
      BY <2>1 DEF Idle, HandlerSound, Sending
    <3> QED
      BY <1>o, <1>r, <1>e, <3>1, MoveStep
  <2>2. CASE th'[p] = [th[p] EXCEPT !.pc = "create",
                          !.to = members[ChatOf[th[p].m]] \ {SenderOf[th[p].m]}]
    <3>1. /\ th'[p].pc = "create" /\ th'[p].m = th[p].m /\ th'[p].found = {}
          /\ th'[p].to = members[ChatOf[th[p].m]] \ {SenderOf[th[p].m]}
      BY <1>t, <1>m, <2>2 DEF HandlerState
    <3>2. th'[p].to \subseteq everMember'[ChatOf[th[p].m]] \ {SenderOf[th[p].m]}
      BY <1>c, <1>2, <3>1 DEF MembersWereThere, ReadParticipants
    <3>3. HandlerSound(th[p])'
      BY <1>t, <1>m, <1>r, <3>1, <3>2 DEF HandlerSound, Sending
    <3> QED
      BY <1>o, <1>r, <1>e, <3>1, <3>3, MoveStep
  <2> QED
    BY <1>2, <2>1, <2>2 DEF ReadParticipants, TypeOK
<1>3. CASE CreateMessage(p)
  <2>1. th'[p] = [th[p] EXCEPT !.pc = "presence"] /\ th[p].m \in created'
    BY <1>3 DEF CreateMessage, TypeOK
  <2>2. /\ th'[p].pc = "presence" /\ th'[p].m = th[p].m /\ th'[p].to = th[p].to
        /\ th'[p].found = {}
    BY <1>t, <1>m, <2>1 DEF HandlerState
  <2>3. HandlerSound(th[p])'
    BY <1>t, <1>m, <1>c, <1>r, <1>e, <2>1, <2>2 DEF HandlerSound, Sending
  <2> QED
    BY <1>o, <1>r, <1>e, <2>2, <2>3, MoveStep
<1>4. CASE ReadPresence(p)
  <2> DEFINE reached == {u \in th[p].to : presence[u] # "offline"}
  <2>1. th'[p] = [th[p] EXCEPT !.pc = "receipts", !.reached = reached]
    BY <1>4 DEF ReadPresence, TypeOK
  <2> HIDE DEF reached
  <2>2. /\ th'[p].pc = "receipts" /\ th'[p].m = th[p].m /\ th'[p].to = th[p].to
        /\ th'[p].found = {}
    BY <1>t, <1>m, <2>1 DEF HandlerState
  <2>p. th[p].pc = "presence"
    BY <1>4 DEF ReadPresence
  <2>3. HandlerSound(th[p])'
    BY <1>t, <1>m, <1>c, <1>r, <1>e, <2>2, <2>p DEF HandlerSound, Sending
  <2> QED
    BY <1>o, <1>r, <1>e, <2>2, <2>3, MoveStep
<1> QED
  BY <1>1, <1>2, <1>3, <1>4

\* What a sweep or a read finds are receipts that are there.
LEMMA FindingStep ==
  ASSUME DeliveryInv, NEW p \in Handler, SweepFind(p) \/ ReadFind(p)
  PROVE  ReceiptsEarned' /\ MembersWereThere' /\ HandlersSound' /\ SendsAlone'
<1> USE DEF DeliveryInv, chatVars
<1>t. th[p] \in HandlerState /\ HandlerSound(th[p])
  BY DEF TypeOK, HandlersSound
<1>u. th[p].u \in User /\ th[p].m = NoMessage
  BY <1>t DEF SweepFind, ReadFind, HandlerSound, Sending
<1>1. PICK found \in SUBSET Message, pc \in {"sweepUpdate", "readSave"} :
        /\ \A m \in found : receipt[m][th[p].u].there
        /\ th' = [th EXCEPT ![p] = IF found = {} THEN Idle
                                  ELSE [th[p] EXCEPT !.pc = pc, !.found = found]]
  BY DEF SweepFind, ReadFind, Find
<1>o. (\A q \in Handler \ {p} : th'[q] = th[q]) /\ MembersWereThere'
  BY <1>1 DEF TypeOK, SweepFind, ReadFind, MembersWereThere
<1>2. \/ th'[p] = Idle
      \/ /\ th'[p].pc = pc /\ th'[p].m = NoMessage /\ th'[p].u = th[p].u
         /\ th'[p].found = found
  <2>1. th'[p] = IF found = {} THEN Idle ELSE [th[p] EXCEPT !.pc = pc, !.found = found]
    BY <1>1 DEF TypeOK
  <2> QED
    BY <1>t, <1>u, <2>1 DEF HandlerState
<1>3. HandlerSound(th[p])' /\ th'[p].m = NoMessage
  <2>1. CASE th'[p] = Idle
    BY <2>1 DEF Idle, HandlerSound, Sending
  <2>2. CASE th'[p] # Idle
    <3>1. \A m \in found :
            m \in created /\ th[p].u \in everMember[ChatOf[m]] \ {SenderOf[m]}
      BY <1>1, <1>u DEF ReceiptsEarned
    <3>2. created' = created /\ everMember' = everMember
      BY DEF SweepFind, ReadFind
    <3> QED
      BY <1>2, <1>u, <2>2, <3>1, <3>2 DEF HandlerSound, Sending
  <2> QED
    BY <2>1, <2>2
<1>4. \A q \in Handler : th[q].m # NoMessage => th[q].m \notin th'[p].found
  <2>1. \A m \in th'[p].found : receipt[m][th[p].u].there
    BY <1>1, <1>2 DEF Idle
  <2> QED
    BY <1>u, <2>1 DEF HandlersSound, HandlerSound
<1>5. receipt' = receipt /\ created' = created /\ everMember' = everMember
  BY DEF SweepFind, ReadFind
<1> QED
  BY <1>o, <1>3, <1>4, <1>5, MoveStep

\* What writes receipts: for each, the rows it changes and what they become.
LEMMA RowsWritten ==
  ASSUME DeliveryInv, NEW p \in Handler,
         SaveReceipts(p) \/ SweepUpdate(p) \/ ReadSave(p),
         NEW m \in Message, NEW u \in User, receipt'[m][u] # receipt[m][u]
  PROVE  \/ /\ SaveReceipts(p) /\ m = th[p].m /\ u \in th[p].to
            /\ receipt'[m][u] \in {Sent, Deliver(Sent)}
         \/ /\ SweepUpdate(p) /\ m \in th[p].found /\ u = th[p].u
            /\ receipt'[m][u] = Deliver(receipt[m][u])
         \/ /\ ReadSave(p) /\ m \in th[p].found /\ u = th[p].u
            /\ receipt'[m][u] = [there |-> TRUE, delivered |-> TRUE, read |-> TRUE]
<1> USE DEF DeliveryInv, TypeOK
<1>r. receipt[m] \in [User -> Receipt]
  OBVIOUS
<1>1. CASE SaveReceipts(p)
  <2>1. CASE m = th[p].m
    <3>1. receipt'[m] = [v \in User |-> IF v \in th[p].to
                          THEN IF v \in th[p].reached THEN Deliver(Sent) ELSE Sent
                          ELSE receipt[m][v]]
      BY <1>1, <2>1 DEF SaveReceipts
    <3> QED
      BY <1>1, <2>1, <3>1
  <2>2. CASE m # th[p].m
    BY <1>1, <2>2 DEF SaveReceipts
  <2> QED
    BY <2>1, <2>2
<1>2. CASE SweepUpdate(p)
  <2>1. receipt'[m] = IF m \in th[p].found
                      THEN [receipt[m] EXCEPT ![th[p].u] = Deliver(receipt[m][th[p].u])]
                      ELSE receipt[m]
    BY <1>2 DEF SweepUpdate, Write
  <2> QED
    BY <1>2, <1>r, <2>1
<1>3. CASE ReadSave(p)
  <2>1. receipt'[m] = IF m \in th[p].found
                      THEN [receipt[m] EXCEPT ![th[p].u] =
                              [there |-> TRUE, delivered |-> TRUE, read |-> TRUE]]
                      ELSE receipt[m]
    BY <1>3 DEF ReadSave, Write
  <2> QED
    BY <1>3, <1>r, <2>1
<1> QED
  BY <1>1, <1>2, <1>3

\* A receipt that is written is whole and earned, and advances.
LEMMA WritingAdvances ==
  ASSUME DeliveryInv, NEW p \in Handler,
         SaveReceipts(p) \/ SweepUpdate(p) \/ ReadSave(p), NEW m \in Message, NEW u \in User
  PROVE  /\ receipt'[m][u].read => receipt'[m][u].delivered
         /\ receipt'[m][u].delivered => receipt'[m][u].there
         /\ receipt[m][u].there => receipt'[m][u].there
         /\ receipt[m][u].delivered => receipt'[m][u].delivered
         /\ receipt[m][u].read => receipt'[m][u].read
         /\ receipt'[m][u] # receipt[m][u] => u \in everMember[ChatOf[m]] \ {SenderOf[m]}
         /\ receipt'[m][u].there /\ ~receipt[m][u].there =>
              m \in created /\ \A q \in Handler \ {p} : th[q].m # m
<1> USE DEF DeliveryInv
<1>t. th[p] \in HandlerState /\ HandlerSound(th[p]) /\ receipt[m][u] \in Receipt
  BY DEF TypeOK, HandlersSound
<1>e. /\ receipt[m][u].read => receipt[m][u].delivered
      /\ receipt[m][u].delivered => receipt[m][u].there
  BY DEF ReceiptsEarned
<1>d. \A r \in Receipt : /\ Deliver(r).there = r.there /\ Deliver(r).delivered = r.there
                         /\ Deliver(r).read = r.read
  BY DEF Deliver, Receipt
<1>s. Sent \in Receipt /\ Sent.there /\ ~Sent.delivered /\ ~Sent.read
  BY DEF Sent, NoReceipt, Receipt
<1>1. CASE receipt'[m][u] = receipt[m][u]
  BY <1>1, <1>e
<1>2. CASE SaveReceipts(p) /\ m = th[p].m /\ u \in th[p].to /\ receipt'[m][u] \in {Sent, Deliver(Sent)}
  <2>1. m \in created /\ m # NoMessage /\ ~receipt[m][u].there
    BY <1>2, <1>t, ChatAssumption DEF SaveReceipts, HandlerSound, Sending
  <2>2. u \in everMember[ChatOf[m]] \ {SenderOf[m]}
    BY <1>2, <1>t, <2>1 DEF HandlerSound
  <2>3. \A q \in Handler \ {p} : th[q].m # m
    BY <1>2, <2>1 DEF SendsAlone
  <2> QED
    BY <1>2, <1>e, <1>d, <1>s, <2>1, <2>2, <2>3
<1>3. CASE SweepUpdate(p) /\ m \in th[p].found /\ u = th[p].u /\ receipt'[m][u] = Deliver(receipt[m][u])
  <2>1. u \in everMember[ChatOf[m]] \ {SenderOf[m]}
    BY <1>3, <1>t DEF HandlerSound
  <2> QED
    BY <1>3, <1>t, <1>e, <1>d, <2>1
<1>4. CASE /\ ReadSave(p) /\ m \in th[p].found /\ u = th[p].u
           /\ receipt'[m][u] = [there |-> TRUE, delivered |-> TRUE, read |-> TRUE]
  <2>1. m \in created /\ u \in everMember[ChatOf[m]] \ {SenderOf[m]}
    BY <1>4, <1>t DEF HandlerSound
  <2>2. \A q \in Handler \ {p} : th[q].m # m
    BY <1>4, ChatAssumption DEF SendsAlone
  <2> QED
    BY <1>4, <2>1, <2>2
<1> QED
  BY <1>1, <1>2, <1>3, <1>4, RowsWritten

\* So writing keeps the invariant.
LEMMA WritingStep ==
  ASSUME DeliveryInv, NEW p \in Handler, SaveReceipts(p) \/ SweepUpdate(p) \/ ReadSave(p)
  PROVE  ReceiptsEarned' /\ MembersWereThere' /\ HandlersSound' /\ SendsAlone'
<1>1. UNCHANGED <<members, everMember, created>> /\ th' = [th EXCEPT ![p] = Idle]
  BY DEF SaveReceipts, SweepUpdate, ReadSave, Finish, chatVars
<1>2. ASSUME NEW m \in Message, NEW u \in User
      PROVE  /\ receipt'[m][u].read => receipt'[m][u].delivered
             /\ receipt'[m][u].delivered => receipt'[m][u].there
             /\ receipt'[m][u].there /\ ~receipt[m][u].there =>
                  /\ m \in created /\ u \in everMember[ChatOf[m]] \ {SenderOf[m]}
                  /\ \A q \in Handler \ {p} : th[q].m # m
  BY WritingAdvances
<1> QED
  BY <1>1, <1>2, WriteStep

\* Every step keeps the invariant.
LEMMA InvStep ==
  ASSUME DeliveryInv, [Next]_vars
  PROVE  DeliveryInv'
<1> USE DEF DeliveryInv
<1>t. TypeOK'
  BY TypeStep
<1> DEFINE Goal == ReceiptsEarned' /\ MembersWereThere' /\ HandlersSound' /\ SendsAlone'
<1>i. Idle.m = NoMessage /\ Idle.found = {} /\ Idle.pc = "idle" /\ Idle.pc \notin Sending
  BY DEF Idle, Sending
<1>1. ASSUME NEW u \in User, SocketEvent(u) PROVE Goal
  <2>1. UNCHANGED <<members, everMember, created, receipt>>
    BY <1>1 DEF SocketEvent, Connect, SetPresenceActive, SetPresenceAway, HandleDisconnect,
       Heartbeat, ReadChat, chatVars
  <2>2. \/ th' = th
        \/ \E p \in Handler : th' = [th EXCEPT ![p] = [Idle EXCEPT !.pc = "sweepFind", !.u = u]]
        \/ \E p \in Handler, c \in Chat :
             th' = [th EXCEPT ![p] = [Idle EXCEPT !.pc = "readFind", !.u = u, !.c = c]]
    BY <1>1 DEF SocketEvent, Connect, SetPresenceActive, StartSweep, SetPresenceAway,
       HandleDisconnect, Heartbeat, ReadChat
  <2>3. ASSUME NEW q \in Handler, th'[q] # th[q]
        PROVE  /\ th'[q].m = NoMessage /\ th'[q].found = {}
               /\ th'[q].u \in User /\ th'[q].pc \notin Sending
    <3>1. CASE \E p \in Handler : th' = [th EXCEPT ![p] = [Idle EXCEPT !.pc = "sweepFind", !.u = u]]
      <4>1. th'[q] = [Idle EXCEPT !.pc = "sweepFind", !.u = u]
        BY <2>3, <3>1 DEF TypeOK
      <4> QED
        BY <4>1 DEF Idle, Sending
    <3>2. CASE \E p \in Handler, c \in Chat :
                 th' = [th EXCEPT ![p] = [Idle EXCEPT !.pc = "readFind", !.u = u, !.c = c]]
      <4>1. \E c \in Chat : th'[q] = [Idle EXCEPT !.pc = "readFind", !.u = u, !.c = c]
        BY <2>3, <3>2 DEF TypeOK
      <4> QED
        BY <4>1 DEF Idle, Sending
    <3> QED
      BY <2>2, <2>3, <3>1, <3>2
  <2> QED
    BY <2>1, <2>3, QuietStep
<1>2. ASSUME NEW u \in User, PresenceStep(u) PROVE Goal
  <2>1. UNCHANGED <<members, everMember, created, receipt, th>>
    BY <1>2 DEF PresenceStep, RefreshPresence, ExpirePresence, chatVars
  <2> QED
    BY <2>1, QuietStep
<1>3. ASSUME NEW p \in Handler, RefuseMessage(p) \/ HandlerThrows(p) PROVE Goal
  <2>1. UNCHANGED <<members, everMember, created, receipt>> /\ th' = [th EXCEPT ![p] = Idle]
    BY <1>3 DEF RefuseMessage, HandlerThrows, Finish, chatVars
  <2> QED
    BY <1>i, <2>1, QuietStep DEF TypeOK
<1>4. ASSUME Crash PROVE Goal
  <2>1. UNCHANGED <<members, everMember, created, receipt>> /\ th' = [p \in Handler |-> Idle]
    BY <1>4 DEF Crash, chatVars
  <2> QED
    BY <1>i, <2>1, QuietStep
<1>5. ASSUME UNCHANGED vars PROVE Goal
  <2>1. UNCHANGED <<members, everMember, created, receipt, th>>
    BY <1>5 DEF vars
  <2> QED
    BY <2>1, QuietStep
<1>6. ASSUME NEW p \in Handler, HandlerStep(p) PROVE Goal
  BY <1>3, <1>6, SendingStep, FindingStep, WritingStep DEF HandlerStep
<1> QED
  BY <1>t, <1>1, <1>2, <1>3, <1>4, <1>5, <1>6, SendMessageStep, MembershipStep DEF Next

\* The invariant holds initially.
LEMMA InvInit ==
  ASSUME Init
  PROVE  DeliveryInv
<1> USE ChatAssumption DEF Init
<1>i. Idle \in HandlerState /\ Idle.m = NoMessage /\ Idle.found = {} /\ Idle.pc = "idle"
  BY IdleType DEF Idle
<1>r. NoReceipt \in Receipt /\ ~NoReceipt.there /\ ~NoReceipt.delivered /\ ~NoReceipt.read
  BY DEF NoReceipt, Receipt
<1>1. TypeOK
  BY <1>i, <1>r DEF TypeOK, PresenceStatus
<1>2. ReceiptsEarned /\ MembersWereThere
  BY <1>r DEF ReceiptsEarned, MembersWereThere
<1>3. HandlersSound /\ SendsAlone
  BY <1>i DEF HandlersSound, HandlerSound, SendsAlone, Sending
<1> QED
  BY <1>1, <1>2, <1>3 DEF DeliveryInv

\* The invariant of the sends, sweeps, reads and departures, whatever the users,
\* chats, messages and handlers are.
THEOREM Invariance == Spec => []DeliveryInv
<1>1. Init => DeliveryInv
  BY InvInit
<1>2. DeliveryInv /\ [Next]_vars => DeliveryInv'
  BY InvStep
<1> QED
  BY <1>1, <1>2, PTL DEF Spec

\* Every variable has its type.
THEOREM TypeCorrect == Spec => []TypeOK
<1>1. DeliveryInv => TypeOK
  BY DEF DeliveryInv
<1> QED
  BY <1>1, Invariance, PTL

\* A receipt that is read is delivered, in every interleaving of sends, sweeps,
\* reads, departures, failing queries and restarts (markRead, markDelivered).
THEOREM ReadsAreDelivered == Spec => []ReadImpliesDelivered
<1>1. DeliveryInv => ReadImpliesDelivered
  BY DEF DeliveryInv, ReceiptsEarned, ReadImpliesDelivered
<1> QED
  BY <1>1, Invariance, PTL

-----------------------------------------------------------------------------
(* The refinement of ReceiptLife                                           *)

StageMap == [m \in Message |-> [u \in User |-> Stage(m, u)]]

\* Steps that leave rows and past members alone are not seen.
LEMMA UnseenStep ==
  ASSUME UNCHANGED <<receipt, everMember>>
  PROVE  UNCHANGED Life!lifeVars
  BY DEF Life!lifeVars, Stage

\* Joining is a Join, leaving a Leave.
LEMMA MembershipLives ==
  ASSUME DeliveryInv, NEW c \in Chat, Membership(c)
  PROVE  Life!LifeNext
<1> USE DEF DeliveryInv
<1>1. ASSUME UNCHANGED receipt, \A d \in Chat : everMember[d] \subseteq everMember'[d]
      PROVE  Life!LifeNext
  BY <1>1 DEF Life!LifeNext, Life!Join, Stage
<1>2. ASSUME NEW u \in User, ExitGroupChat(c, u) PROVE Life!LifeNext
  <2>1. ASSUME NEW m \in Message, NEW v \in User
        PROVE  Stage(m, v)' = IF ChatOf[m] = c /\ v = u THEN "none" ELSE Stage(m, v)
    <3>1. receipt[m] \in [User -> Receipt]
      BY DEF TypeOK
    <3>2. receipt'[m] = IF ChatOf[m] = c THEN [receipt[m] EXCEPT ![u] = NoReceipt]
                                        ELSE receipt[m]
      BY <1>2 DEF ExitGroupChat
    <3>3. receipt'[m][v] = IF ChatOf[m] = c /\ v = u THEN NoReceipt ELSE receipt[m][v]
      BY <3>1, <3>2
    <3>4. ~NoReceipt.there
      BY DEF NoReceipt
    <3> QED
      BY <3>3, <3>4 DEF Stage
  <2>2. StageMap' = [m \in Message |-> IF ChatOf[m] = c THEN [StageMap[m] EXCEPT ![u] = "none"]
                                      ELSE StageMap[m]]
    <3>1. \A m \in Message : StageMap'[m] = IF ChatOf[m] = c
                                           THEN [StageMap[m] EXCEPT ![u] = "none"]
                                           ELSE StageMap[m]
      BY <2>1 DEF StageMap
    <3> QED
      BY <3>1 DEF StageMap
  <2>3. everMember' = everMember
    BY <1>2 DEF ExitGroupChat
  <2> QED
    BY <2>2, <2>3 DEF Life!LifeNext, Life!Leave, StageMap
<1> QED
  BY <1>1, <1>2 DEF Membership, CreateGroupChat, AddChatMember, Admit, TypeOK

\* What handlers write advances.
LEMMA WritingLives ==
  ASSUME DeliveryInv, NEW p \in Handler, SaveReceipts(p) \/ SweepUpdate(p) \/ ReadSave(p)
  PROVE  Life!LifeNext
<1>1. everMember' = everMember
  BY DEF SaveReceipts, SweepUpdate, ReadSave, chatVars
<1>2. ASSUME NEW m \in Message, NEW u \in User, Stage(m, u)' # Stage(m, u)
      PROVE  /\ Life!Rank[Stage(m, u)] < Life!Rank[Stage(m, u)']
             /\ u \in everMember[ChatOf[m]] \ {SenderOf[m]}
  <2>1. receipt'[m][u] # receipt[m][u]
    BY <1>2 DEF Stage
  <2>2. u \in everMember[ChatOf[m]] \ {SenderOf[m]}
    BY <2>1, WritingAdvances
  <2>3. /\ Life!Rank["none"] = 0 /\ Life!Rank["sent"] = 1
        /\ Life!Rank["delivered"] = 2 /\ Life!Rank["read"] = 3
    BY DEF Life!Rank
  <2>4. /\ receipt[m][u].read => receipt[m][u].delivered
        /\ receipt[m][u].delivered => receipt[m][u].there
    BY DEF DeliveryInv, ReceiptsEarned
  <2>5. Life!Rank[Stage(m, u)] < Life!Rank[Stage(m, u)']
    BY <1>2, <2>3, <2>4, WritingAdvances DEF Stage
  <2> QED
    BY <2>2, <2>5
<1> QED
  BY <1>1, <1>2 DEF Life!LifeNext, Life!Advance

\* Every step is a step of ReceiptLife or is not seen by it.
LEMMA LifeStep ==
  ASSUME DeliveryInv, [Next]_vars
  PROVE  [Life!LifeNext]_(Life!lifeVars)
<1>1. ASSUME UNCHANGED <<receipt, everMember>> PROVE UNCHANGED Life!lifeVars
  BY <1>1, UnseenStep
<1>2. ASSUME NEW p \in Handler, ResolveChat(p) PROVE Life!LifeNext
  <2>1. receipt' = receipt /\ \A d \in Chat : everMember[d] \subseteq everMember'[d]
    BY <1>2 DEF ResolveChat, Admit, DeliveryInv, TypeOK
  <2> QED
    BY <2>1 DEF Life!LifeNext, Life!Join, Stage
<1>3. ASSUME NEW p \in Handler, HandlerStep(p) PROVE [Life!LifeNext]_(Life!lifeVars)
  <2>1. CASE ReadParticipants(p) \/ CreateMessage(p) \/ RefuseMessage(p) \/ ReadPresence(p)
             \/ SweepFind(p) \/ ReadFind(p)
    BY <1>1, <2>1 DEF ReadParticipants, CreateMessage, RefuseMessage, ReadPresence, SweepFind,
       ReadFind, chatVars
  <2> QED
    BY <1>2, <1>3, <2>1, WritingLives DEF HandlerStep
<1>4. ASSUME NEW u \in User, SocketEvent(u) \/ PresenceStep(u) PROVE UNCHANGED Life!lifeVars
  <2>1. UNCHANGED <<receipt, everMember>>
    BY <1>4 DEF SocketEvent, Connect, SetPresenceActive, SetPresenceAway, HandleDisconnect,
       Heartbeat, ReadChat, PresenceStep, RefreshPresence, ExpirePresence, chatVars
  <2> QED
    BY <1>1, <2>1
<1>5. ASSUME NEW p \in Handler, NEW m \in Message, SendMessage(p, m)
      PROVE  UNCHANGED Life!lifeVars
  BY <1>1, <1>5 DEF SendMessage, chatVars
<1>6. ASSUME NEW p \in Handler, HandlerThrows(p) PROVE UNCHANGED Life!lifeVars
  BY <1>1, <1>6 DEF HandlerThrows, chatVars
<1>7. ASSUME Crash \/ UNCHANGED vars PROVE UNCHANGED Life!lifeVars
  BY <1>1, <1>7 DEF Crash, chatVars, vars
<1> QED
  BY <1>3, <1>4, <1>5, <1>6, <1>7, MembershipLives DEF Next

\* A receipt only advances, none comes to the sender or to someone who was never
\* in the chat, and only leaving takes receipts back: the handlers of the chat
\* implement ReceiptLife, however they interleave.
THEOREM Refinement == Spec => ImplementsReceiptLife
<1>1. Init => Life!LifeInit
  <2>1. ASSUME Init PROVE \A m \in Message, u \in User : Stage(m, u) = "none"
    BY <2>1 DEF Init, Stage, NoReceipt
  <2> QED
    BY <2>1 DEF Init, Life!LifeInit
<1>2. DeliveryInv /\ [Next]_vars => [Life!LifeNext]_(Life!lifeVars)
  BY LifeStep
<1> QED
  BY <1>1, <1>2, Invariance, PTL DEF Spec, ImplementsReceiptLife, Life!LifeSpec
=============================================================================
