------------------------------ MODULE CallLife ------------------------------
(***************************************************************************)
(* What the call services promise about one call, without handlers, timers *)
(* or Redis: it rings at most once, and for one stretch; an entry in the   *)
(* chat is written only for a call that no longer rings, and entries are   *)
(* never taken back.  Which of the other states follows which is left      *)
(* open: the handlers save whole rows they read earlier, so a later state  *)
(* may be overwritten by an earlier one.  CallSignaling implements this.   *)
(***************************************************************************)
EXTENDS Naturals

CONSTANT Call

Settled == {"connected", "completed", "missed", "rejected", "cancelled"}

VARIABLES status, entries

lifeVars == <<status, entries>>

LifeInit ==
  /\ status = [c \in Call |-> "none"]
  /\ entries = [c \in Call |-> 0]

StartRinging(c) ==
  /\ status[c] = "none"
  /\ status' = [status EXCEPT ![c] = "ringing"]
  /\ UNCHANGED entries

Settle(c) ==
  /\ status[c] # "none"
  /\ \E s \in Settled : status' = [status EXCEPT ![c] = s]
  /\ UNCHANGED entries

LogCall(c) ==
  /\ status[c] \in Settled
  /\ \E s \in Settled : status' = [status EXCEPT ![c] = s]
  /\ entries' = [entries EXCEPT ![c] = @ + 1]

LifeNext == \E c \in Call : StartRinging(c) \/ Settle(c) \/ LogCall(c)

LifeSpec == LifeInit /\ [][LifeNext]_lifeVars
=============================================================================
