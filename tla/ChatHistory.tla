----------------------------- MODULE ChatHistory -----------------------------
(***************************************************************************)
(* What the members of a group chat are shown of it: ChatsService's        *)
(* getChatMessages and the unread counts of getMyChats, against members    *)
(* that come and go, messages on their way, and deletions and edits.       *)
(*                                                                         *)
(* Nothing keeps a user from having several rows of chat_participants.     *)
(* handleSendMessage reads the participants, creates the message and saves *)
(* the receipts in steps of its own; handleEditMessage reads a message and *)
(* saves the columns it read later, and markRead the receipts it found: a  *)
(* column that changed in between gets its old value again, and a receipt  *)
(* that is gone is inserted.  One clock stamps all rows.                   *)
(*                                                                         *)
(* Left out: presence, delivery and the read flags of receipts (they are   *)
(* in ChatDelivery), texts, attachments, calls, paging and notifications.  *)
(***************************************************************************)
EXTENDS Naturals, FiniteSets

CONSTANTS
  Person, Note,   \* users; messages
  AuthorOf,       \* AuthorOf[m]: who sends m
  MaxClock        \* bound: changes of the chat

Everyone == "everyone"

ASSUME HistoryAssumption ==
  AuthorOf \in [Note -> Person] /\ Everyone \notin Person /\ MaxClock \in Nat

VARIABLES
  seats,   \* seats[u]: u's rows of chat_participants
  note,    \* note[m]: the row of chat_messages, sent at 0 if there is none
  copy,    \* copy[m][u]: "none", or u's receipt for m: "kept" or "deleted"
  sending, \* sending[m]: the handler that sends m, and the recipients it read
  editing, \* editing[m]: whether m was deleted when the handler of an edit read it
  marking, \* marking[u][m]: u's receipt for m as markRead found it, "none" if it did not
  clock,   \* time of the last change
  left,    \* history: when u left last
  erased   \* history: what was deleted for whom, with nothing under way that knew it before

historyVars == <<seats, note, copy, sending, editing, marking, clock, left, erased>>

NoNote == [at |-> 0, deleted |-> FALSE, deletedForMe |-> FALSE]
NoReceipts == [m \in Note |-> "none"]

HistoryInit ==
  /\ seats = [u \in Person |-> {}]
  /\ note = [m \in Note |-> NoNote]
  /\ copy = [m \in Note |-> [u \in Person |-> "none"]]
  /\ sending = [m \in Note |-> [pc |-> "idle", to |-> {}]]
  /\ editing = [m \in Note |-> {}]
  /\ marking = [u \in Person |-> NoReceipts]
  /\ clock = 0
  /\ left = [u \in Person |-> 0]
  /\ erased = {}

Tick == clock < MaxClock /\ clock' = clock + 1

Members == {u \in Person : seats[u] # {}}
Row(admin) == [joinedAt |-> clock + 1, lastReadAt |-> 0, isAdmin |-> admin]

(***************************************************************************)
(* Members                                                                 *)
(***************************************************************************)
CreateGroupChat(u, users) ==
  /\ clock = 0 /\ Tick
  /\ seats' = [v \in Person |-> IF v = u THEN {Row(TRUE)}
                               ELSE IF v \in users THEN {Row(FALSE)} ELSE {}]
  /\ UNCHANGED <<note, copy, sending, editing, marking, left, erased>>

\* Whoever is asked for gets a row, a member a second one.  The rows of the caller are
\* not ordered: any of them may be the one that is asked for isAdmin.
AddChatMembers(u, users) ==
  /\ Tick
  /\ \E row \in seats[u] : row.isAdmin
  /\ seats' = [v \in Person |-> IF v \in users \ {u} THEN seats[v] \cup {Row(FALSE)} ELSE seats[v]]
  /\ UNCHANGED <<note, copy, sending, editing, marking, left, erased>>

\* The receipts and the rows go, in one transaction.
ExitGroupChat(u) ==
  /\ Tick /\ u \in Members
  /\ seats' = [seats EXCEPT ![u] = {}]
  /\ copy' = [m \in Note |-> [copy[m] EXCEPT ![u] = "none"]]
  /\ left' = [left EXCEPT ![u] = clock + 1]
  /\ UNCHANGED <<note, sending, editing, marking, erased>>

\* markRead finds the receipts that are not read, any of them here.
FindsReceipts(u) ==
  /\ marking[u] = NoReceipts
  /\ \E S \in SUBSET {m \in Note : copy[m][u] # "none"} :
       marking' = [marking EXCEPT ![u] = [m \in Note |-> IF m \in S THEN copy[m][u] ELSE "none"]]
  /\ UNCHANGED <<seats, note, copy, sending, editing, clock, left, erased>>

\* Mutant: they are saved as new ones.
SavedAnew(was, now) == IF was = "none" THEN now ELSE "kept"

\* save writes what differs, and inserts what is gone.
Saved(was, now) == IF was = "none" THEN now ELSE was

\* It stamps the user's rows, none if there is none, and saves what it found.
MarkRead(u) ==
  /\ Tick
  /\ seats' = [seats EXCEPT ![u] = {[row EXCEPT !.lastReadAt = clock + 1] : row \in @}]
  /\ copy' = [m \in Note |-> [copy[m] EXCEPT ![u] = Saved(marking[u][m], @)]]
  /\ marking' = [marking EXCEPT ![u] = NoReceipts]
  /\ UNCHANGED <<note, sending, editing, left, erased>>

(***************************************************************************)
(* Messages                                                                *)
(***************************************************************************)
ReadsMembers(m) ==
  /\ sending[m].pc = "idle" /\ AuthorOf[m] \in Members
  /\ sending' = [sending EXCEPT ![m] = [pc |-> "read", to |-> Members \ {AuthorOf[m]}]]
  /\ UNCHANGED <<seats, note, copy, editing, marking, clock, left, erased>>

\* createMessage: the author may have left by now.
CreatesNote(m) ==
  /\ sending[m].pc = "read" /\ Tick
  /\ note' = [note EXCEPT ![m].at = clock + 1]
  /\ sending' = [sending EXCEPT ![m].pc = "created"]
  /\ UNCHANGED <<seats, copy, editing, marking, left, erased>>

SavesReceipts(m) ==
  /\ sending[m].pc = "created"
  /\ copy' = [copy EXCEPT ![m] = [u \in Person |-> IF u \in sending[m].to THEN "kept" ELSE @[u]]]
  /\ sending' = [sending EXCEPT ![m].pc = "saved"]
  /\ UNCHANGED <<seats, note, editing, marking, clock, left, erased>>

SendFails(m) ==
  /\ sending[m].pc \in {"read", "created"}
  /\ sending' = [sending EXCEPT ![m].pc = "failed"]
  /\ UNCHANGED <<seats, note, copy, editing, marking, clock, left, erased>>

\* A handler is yet to save a receipt of u that knows nothing of a deletion.
SavesLater(m, u) ==
  /\ u # AuthorOf[m]
  /\ marking[u][m] = "kept" \/ (sending[m].pc = "created" /\ u \in sending[m].to)

\* markMessageDeleteForUser: the author's is a column of the message, another's one of
\* the receipt, if there is one.
DeleteForUser(m, u) ==
  /\ Tick /\ note[m].at > 0
  /\ IF u = AuthorOf[m]
     THEN note' = [note EXCEPT ![m].deletedForMe = TRUE] /\ UNCHANGED copy
     ELSE copy' = [copy EXCEPT ![m][u] = IF @ = "none" THEN "none" ELSE "deleted"] /\ UNCHANGED note
  /\ erased' = erased \cup {pair \in {<<m, u>>} : ~SavesLater(m, u)}
  /\ UNCHANGED <<seats, sending, editing, marking, left>>

DeleteForEveryone(m) ==
  /\ Tick /\ note[m].at > 0
  /\ note' = [note EXCEPT ![m].deleted = TRUE]
  /\ erased' = erased \cup {pair \in {<<m, Everyone>>} : FALSE \notin editing[m]}
  /\ UNCHANGED <<seats, copy, sending, editing, marking, left>>

\* handleEditMessage writes back all it read: a deletion in between is undone.  It does
\* not read deletedForMe.
ReadsNote(m) ==
  /\ editing[m] = {} /\ note[m].at > 0
  /\ editing' = [editing EXCEPT ![m] = {note[m].deleted}]
  /\ UNCHANGED <<seats, note, copy, sending, marking, clock, left, erased>>

SavesNote(m) ==
  /\ \E was \in editing[m] : note' = [note EXCEPT ![m].deleted = was]
  /\ editing' = [editing EXCEPT ![m] = {}]
  /\ UNCHANGED <<seats, copy, sending, marking, clock, left, erased>>

HistoryNext ==
  \/ \E u \in Person :
       \/ ExitGroupChat(u) \/ FindsReceipts(u) \/ MarkRead(u)
       \/ \E users \in SUBSET (Person \ {u}) : CreateGroupChat(u, users) \/ AddChatMembers(u, users)
  \/ \E m \in Note :
       \/ ReadsMembers(m) \/ CreatesNote(m) \/ SavesReceipts(m) \/ SendFails(m)
       \/ DeleteForEveryone(m) \/ ReadsNote(m) \/ SavesNote(m)
       \/ \E u \in Person : DeleteForUser(m, u)

HistorySpec == HistoryInit /\ [][HistoryNext]_historyVars

(***************************************************************************)
(* What is shown                                                           *)
(***************************************************************************)
Created == {m \in Note : note[m].at > 0}

\* The last condition of getChatMessages: the author's own messages and those with a
\* receipt, unless deleted for the reader; one deleted for everyone shows as such.
Allowed(u, m) ==
  \/ AuthorOf[m] = u /\ (~note[m].deletedForMe \/ note[m].deleted)
  \/ copy[m][u] = "kept"
  \/ copy[m][u] = "deleted" /\ note[m].deleted

\* Mutant: a receipt is enough for a member.
ShownByReceipt(u) == {m \in Created : u \in Members /\ Allowed(u, m)}

\* getChatMessages, all pages.
ChatMessages(u) ==
  {m \in Created : Allowed(u, m) /\ \E row \in seats[u] : note[m].at >= row.joinedAt}

\* The rows getMyChats counts: a message once per row of the user.
Unread(u) ==
  {pair \in seats[u] \X Created :
     LET row == pair[1]
         m == pair[2]
     IN /\ AuthorOf[m] # u
        /\ note[m].at >= row.joinedAt
        /\ row.lastReadAt = 0 \/ note[m].at > row.lastReadAt}

(***************************************************************************)
(* Properties                                                              *)
(***************************************************************************)
\* Nobody who left and came back is shown what was sent before, though a message that was
\* on its way gets its receipt after she left.  What is sent to a member reaches her:
\* once its receipts are saved she is shown it until she deletes it.  And a message counts
\* as unread without being shown only while it is being sent, if sending it failed, if its
\* author had not seen her join, or if she deleted it.
HistoryIsTheirs ==
  \A u \in Members :
    /\ \A m \in ChatMessages(u) : note[m].at > left[u]
    /\ \A m \in Created : \A row \in seats[u] :
         sending[m].pc = "saved" /\ u \in sending[m].to /\ note[m].at >= row.joinedAt =>
           (m \in ChatMessages(u)) = (copy[m][u] # "deleted" \/ note[m].deleted)
    /\ \A pair \in Unread(u) :
         LET m == pair[2] IN \/ m \in ChatMessages(u)
                             \/ sending[m].pc \in {"created", "failed"}
                             \/ u \notin sending[m].to
                             \/ copy[m][u] = "deleted"

\* A deletion lasts.  Whoever deleted a message for herself is not shown it again, whatever
\* she and others read, edit, leave and join, but as one that its author deleted for
\* everyone; and that is not undone.  The exceptions are the deletions for which there was
\* a handler under way that saves what it read before: an edit, markRead on another device
\* of hers, or the sending itself, whose receipts come after the message.
DeletionsLast ==
  \A m \in Note :
    /\ <<m, Everyone>> \in erased => note[m].deleted
    /\ \A u \in Person : <<m, u>> \in erased /\ m \in ChatMessages(u) => note[m].deleted
=============================================================================
