-------------------------- MODULE MCMediaPipeline --------------------------
(* Small instances of MediaPipeline for TLC. *)
EXTENDS MediaPipeline

CONSTANTS photo, audio, jingle, track, post, story, u1, u2

\* maxStalledCount as the processors set it: 2 and 1.
CodeMaxStalled == [q \in Queue |-> IF q = "moderate" THEN 2 ELSE 1]

\* The first stall of a job already exhausts it.
FirstStallFails == [q \in Queue |-> 0]

-----------------------------------------------------------------------------
(* A later stretch of a run: both uploads are through, and two contents are  *)
(* pending. The post carries an S3 sound, which nothing ever moderates; the  *)
(* story was committed after its only media had been cleared, so it has      *)
(* missed onMediaTerminalUpdate and depends on the reconciler.               *)

Done == [status |-> "ready", moderation |-> "skipped",
         transcoded |-> FALSE, stale |-> FALSE]

MissedInit ==
  /\ row = [m \in Media |-> IF m \in Sounds THEN SoundRow(m) ELSE Done]
  /\ job = [q \in Queue |-> [m \in Media |-> NoJob]]
  /\ publishStatus = [c \in Content |-> "pending"]
  /\ linked = [c \in Content |-> IF c = post THEN {photo, track} ELSE {audio}]
  /\ draft = [c \in Content |-> NoDraft]
  /\ th = [p \in Thread |-> Idle]
  /\ policyOn = FALSE
  /\ faults = 0
  /\ everCleared = Uploads
  /\ everBlocked = {}

MissedSpec == MissedInit /\ [][Next]_vars /\ Fairness
=============================================================================
