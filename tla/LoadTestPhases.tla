--------------------------- MODULE LoadTestPhases ---------------------------
(***************************************************************************)
(* The vocabulary the controller and the backends share: the phases of a   *)
(* LoadTest, what they read of a Kubernetes Job or worker Pod, and the     *)
(* pure functions that turn those readings into a phase.                   *)
(*                                                                         *)
(* The code only ever compares the pod counters of a Job with zero, so a   *)
(* JobStatus keeps one Boolean per counter.  CompletionTime is "none"      *)
(* (nil), "recent" or "old" (further away than CLEANUP_THRESHOLD).         *)
(***************************************************************************)
EXTENDS Integers

Blank    == ""
Creating == "creating"
Starting == "starting"
Running  == "running"
Finished == "finished"
Errored  == "errored"

Phase == {Blank, Creating, Starting, Running, Finished, Errored}

CompletionTime == {"none", "recent", "old"}

JobStatus == [active: BOOLEAN, succeeded: BOOLEAN, failed: BOOLEAN,
              gaveUp: BOOLEAN, completion: CompletionTime]

NewJobStatus == [active |-> FALSE, succeeded |-> FALSE, failed |-> FALSE,
                 gaveUp |-> FALSE, completion |-> "none"]

\* Kubernetes will not start another pod for the job: it carries the
\* condition Complete (which sets CompletionTime) or Failed.
Terminal(s) == s.completion # "none" \/ s.gaveUp

PodState == {"pending", "unhealthy", "running"}

(***************************************************************************)
(* One phase function per backend.                                         *)
(***************************************************************************)

\* Mutant: only success counts as an end.
FakePhase_IgnoresFailed(s) ==
  IF s.active THEN Running ELSE IF ~s.succeeded THEN Starting ELSE Finished

\* fake/backend.go and jmeter/backend.go have the same function.
FakePhase(s) ==
  IF s.active THEN Running
  ELSE IF ~s.succeeded /\ ~s.failed THEN Starting ELSE Finished

JMeterPhase(s) ==
  IF s.active THEN Running
  ELSE IF ~s.succeeded /\ ~s.failed THEN Starting ELSE Finished

\* Mutant: a succeeded pod is looked at before the active ones.
GhzPhase_SucceededFirst(s) ==
  IF s.failed THEN Errored
  ELSE IF s.succeeded THEN Finished
  ELSE IF s.active THEN Running ELSE Starting

GhzPhase(s) ==
  IF s.failed THEN Errored
  ELSE IF s.active THEN Running
  ELSE IF ~s.succeeded THEN Starting ELSE Finished

\* Mutant: a failed worker job leaves the load test starting for ever.
LocustPhase_StartingFirst(master, worker) ==
  IF worker.active \/ master.active THEN Running
  ELSE IF ~worker.succeeded \/ ~master.succeeded THEN Starting
  ELSE IF worker.failed \/ master.failed THEN Errored ELSE Finished

\* Mutant: the worker job alone decides that the load test is over.
LocustPhase_WorkerOnly(master, worker) ==
  IF worker.failed \/ master.failed THEN Errored
  ELSE IF worker.active THEN Running
  ELSE IF ~worker.succeeded THEN Starting ELSE Finished

LocustPhase(master, worker) ==
  IF worker.failed \/ master.failed THEN Errored
  ELSE IF worker.active \/ master.active THEN Running
  ELSE IF ~worker.succeeded \/ ~master.succeeded THEN Starting
  ELSE Finished

\* Lists come back in a fixed order; items are <<kind, index>> pairs.
First(items) == CHOOSE i \in items : \A k \in items : i[2] <= k[2]

\* Mutant: jobs that have not started are skipped.
K6Phase_SkipsPending(listed, status) ==
  LET decided == {j \in listed : status[j].failed \/ status[j].active}
      s == status[First(decided)] IN
  IF decided = {} THEN Finished
  ELSE IF s.failed THEN Errored ELSE Running

\* The loop over the listed jobs returns at the first one that is not a
\* clean success.
K6Phase(listed, status) ==
  LET undecided == {j \in listed : \/ status[j].failed \/ status[j].active
                                   \/ ~status[j].succeeded}
      s == status[First(undecided)] IN
  IF undecided = {} THEN Finished
  ELSE IF s.failed THEN Errored ELSE IF s.active THEN Running ELSE Starting

\* Which of the listed jobs lends its JobStatus to the LoadTest: the first
\* failed one, else the first active one, else the first.
K6JobStatus(listed, status) ==
  LET failed == {j \in listed : status[j].failed}
      active == {j \in listed : status[j].active} IN
  status[First(IF failed # {} THEN failed ELSE IF active # {} THEN active ELSE listed)]

\* A worker pod that is not Running: a container that is not waiting, or
\* waits for another reason than being pulled and initialised, is unhealthy.
WorkerPodPhase(p) == IF p = "unhealthy" THEN Errored ELSE Starting

(***************************************************************************)
(* checkLoadTestLifeTimeExceeded: completion is the CompletionTime of the  *)
(* JobStatus SyncStatus has just stored, aged says that the LoadTest was   *)
(* created longer than the threshold ago.                                  *)
(***************************************************************************)
\* Mutants: the phase is not looked at; errored load tests are kept.
LifeTimeExceeded_AnyPhase(phase, completion, aged) ==
  completion = "old" \/ (phase = Errored /\ aged)

LifeTimeExceeded_AgeOnly(phase, completion, aged) == aged

LifeTimeExceeded_KeepsErrored(phase, completion, aged) ==
  completion = "old" /\ phase \in {Finished, Errored}

LifeTimeExceeded(phase, completion, aged) ==
  \/ completion = "old" /\ phase \in {Finished, Errored}
  \/ phase = Errored /\ aged
=============================================================================
