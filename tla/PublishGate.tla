---------------------------- MODULE PublishGate ----------------------------
(***************************************************************************)
(* What the media pipeline promises about publication, without workers,    *)
(* queues or handlers: content goes public only when every media it links  *)
(* has been cleared by moderation, and is taken down only when one of them *)
(* has been rejected or its moderation has failed. MediaPipeline           *)
(* implements this specification.                                          *)
(***************************************************************************)
CONSTANTS Media, Content

VARIABLES
  publishStatus,  \* publishStatus[c]: the publish_status column of content c
  linked,         \* linked[c]: the media that content c links
  everCleared,    \* the media that moderation has cleared at some time
  everBlocked     \* the media that moderation has blocked at some time

gateVars == <<publishStatus, linked, everCleared, everBlocked>>

GateInit ==
  /\ publishStatus = [c \in Content |-> "none"]
  /\ linked = [c \in Content |-> {}]
  /\ everCleared = {}
  /\ everBlocked = {}

\* Moderation speaks: the verdicts only accumulate.
Verdict ==
  /\ everCleared \subseteq everCleared'
  /\ everBlocked \subseteq everBlocked'
  /\ UNCHANGED <<publishStatus, linked>>

\* An author commits content c; it starts published only when all is cleared.
Create(c) ==
  /\ publishStatus[c] = "none"
  /\ everCleared \subseteq everCleared'
  /\ everBlocked' = everBlocked
  /\ \E media \in SUBSET Media, s \in {"pending", "published"} :
       /\ s = "published" => media \subseteq everCleared'
       /\ publishStatus' = [publishStatus EXCEPT ![c] = s]
       /\ linked' = [linked EXCEPT ![c] = media]

Publish(c) ==
  /\ publishStatus[c] # "none"
  /\ linked[c] \subseteq everCleared
  /\ publishStatus' = [publishStatus EXCEPT ![c] = "published"]
  /\ UNCHANGED <<linked, everCleared, everBlocked>>

TakeDown(c) ==
  /\ publishStatus[c] # "none"
  /\ linked[c] \cap everBlocked # {}
  /\ publishStatus' = [publishStatus EXCEPT ![c] = "failed"]
  /\ UNCHANGED <<linked, everCleared, everBlocked>>

GateNext ==
  \/ Verdict
  \/ \E c \in Content : Create(c) \/ Publish(c) \/ TakeDown(c)

GateSpec == GateInit /\ [][GateNext]_gateVars
=============================================================================
