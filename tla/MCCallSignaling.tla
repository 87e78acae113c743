--------------------------- MODULE MCCallSignaling ---------------------------
(* Instances of CallSignaling for TLC                                        *)
EXTENDS CallSignaling, TLC

CONSTANTS u1, u2

\* u1 calls u2; the media server reports all it can about it.
CallerIs == [c \in Call |-> u1]
CalleeIs == [c \in Call |-> u2]
HooksAre == [c \in Call |-> HookEvent]
=============================================================================
