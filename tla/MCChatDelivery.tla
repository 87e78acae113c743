--------------------------- MODULE MCChatDelivery ---------------------------
(* Instances of ChatDelivery for TLC                                         *)
EXTENDS ChatDelivery, TLC

CONSTANTS u1, u2, m1, m2, c1

OneSender == [m \in Message |-> IF m = m1 THEN u1 ELSE u2]
OneChat == [m \in Message |-> c1]
OnePair == [c \in Chat |-> {u1, u2}]
Handlers == Permutations(Handler)
=============================================================================
