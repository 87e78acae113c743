---------------------------- MODULE ReceiptLife ----------------------------
(***************************************************************************)
(* What the chat promises about receipts, without handlers, sockets or     *)
(* presence: the receipt of a message only advances (sent, delivered,      *)
(* read), only someone other than the sender who has been in the chat has  *)
(* one, and only leaving the chat takes receipts back, all of them at once.*)
(* ChatDelivery implements this specification.                             *)
(***************************************************************************)
EXTENDS Naturals

CONSTANTS User, Message, Chat, ChatOf, SenderOf

VARIABLES
  stage,      \* stage[m][u]: how far message m has come with user u
  everMember  \* everMember[c]: the users that have been in chat c

lifeVars == <<stage, everMember>>

Rank == [none |-> 0, sent |-> 1, delivered |-> 2, read |-> 3]

LifeInit ==
  /\ stage = [m \in Message |-> [u \in User |-> "none"]]
  /\ everMember = [c \in Chat |-> {}]

Join ==
  /\ \A c \in Chat : everMember[c] \subseteq everMember'[c]
  /\ UNCHANGED stage

Advance ==
  /\ \A m \in Message, u \in User :
       stage'[m][u] # stage[m][u] =>
         /\ Rank[stage[m][u]] < Rank[stage'[m][u]]
         /\ u \in everMember[ChatOf[m]] \ {SenderOf[m]}
  /\ UNCHANGED everMember

Leave(c, u) ==
  /\ stage' = [m \in Message |-> IF ChatOf[m] = c THEN [stage[m] EXCEPT ![u] = "none"]
                                ELSE stage[m]]
  /\ UNCHANGED everMember

LifeNext ==
  \/ Join
  \/ Advance
  \/ \E c \in Chat, u \in User : Leave(c, u)

LifeSpec == LifeInit /\ [][LifeNext]_lifeVars
=============================================================================
