--------------------------- MODULE RefreshLifecycle ---------------------------
(***************************************************************************)
(* What the refresh engine promises, whoever does the work: a refresh job  *)
(* scans its batches in order, any number of times over, one job at a      *)
(* time, and is done only when all its batches were committed.  Leases,    *)
(* snapshots, crashes and the control file do not appear.  RefreshJobs     *)
(* implements it.                                                          *)
(***************************************************************************)
EXTENDS Integers

CONSTANTS Jobs, Batches

VARIABLES
  phase,      \* absent, active, parked, done or failed
  covered     \* batches each job has committed

Phase == {"absent", "active", "parked", "done", "failed"}

Init ==
  /\ phase = [j \in Jobs |-> "absent"]
  /\ covered = [j \in Jobs |-> {}]

NoneActiveBut(j) == \A i \in Jobs : phase[i] = "active" => i = j

\* POST /refresh and the background scan start a job when none is active.
Start(j) ==
  /\ phase[j] = "absent"
  /\ NoneActiveBut(j)
  /\ phase' = [phase EXCEPT ![j] = "active"]
  /\ UNCHANGED covered

\* One batch of an active job; all the batches before it were committed.
Batch(j, b) ==
  /\ phase[j] = "active"
  /\ 1..(b - 1) \subseteq covered[j]
  /\ covered' = [covered EXCEPT ![j] = @ \cup {b}]
  /\ phase' = IF b = Batches THEN [phase EXCEPT ![j] = "done"] ELSE phase

GiveUp(j) ==
  /\ phase[j] = "active"
  /\ phase' = [phase EXCEPT ![j] = "failed"]
  /\ UNCHANGED covered

\* Pause and resume act on a job they read earlier: it may have ended since.
Park(j) ==
  /\ phase[j] # "absent"
  /\ phase' = [phase EXCEPT ![j] = "parked"]
  /\ UNCHANGED covered

Requeue(j) ==
  /\ phase[j] # "absent"
  /\ NoneActiveBut(j)
  /\ phase' = [phase EXCEPT ![j] = "active"]
  /\ UNCHANGED covered

Next ==
  \E j \in Jobs :
    \/ Start(j) \/ GiveUp(j) \/ Park(j) \/ Requeue(j)
    \/ \E b \in 1..Batches : Batch(j, b)

Spec == Init /\ [][Next]_<<phase, covered>>
=============================================================================
