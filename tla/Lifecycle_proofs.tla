-------------------------- MODULE Lifecycle_proofs --------------------------
(***************************************************************************)
(* Why a client sees the phases of a load test in an order its backend     *)
(* permits, why an errored load test stays errored, and why the clean-up   *)
(* is right: for every backend, number of pods, set of rejected objects,   *)
(* number of faults and clean-up setting.                                  *)
(***************************************************************************)
EXTENDS Finished_proofs, FiniteSetTheorems

-----------------------------------------------------------------------------
(***************************************************************************)
(* The inductive invariant, on top of the one of Finished_proofs.          *)
(***************************************************************************)

\* What the lister holds, once all events are delivered, is what is stored.
LastVersion ==
  IF events = <<>> THEN cache = stored ELSE events[Len(events)] = stored

\* The copy that carries the stored resourceVersion has the stored phase.
FreshIsStored == pc # "idle" /\ fresh /\ stored.exists => cachedPhase = stored.phase

\* Which backend makes which call of SyncStatus.
Readers ==
  /\ pc \in {"workerJob", "masterJob"} => Backend = "Locust"
  /\ pc = "pods" => Backend = "JMeter"
  /\ pc = "job" => Backend \in {"Fake", "JMeter"}

Reads == {"workerJob", "masterJob", "job", "pods"}

\* The phase a sync works on: the one it took from the lister until
\* SyncStatus, which leaves the blank phase first of all, then one that may
\* follow it.
PhaseMoves ==
  /\ pc \notin Reads \cup {"cleanup", "update"} => loadTest.phase = cachedPhase
  /\ pc \in Reads => /\ loadTest.phase = (IF cachedPhase = Blank THEN Creating ELSE cachedPhase)
                     /\ loadTest.phase # Errored
  /\ loadTest.phase = cachedPhase \/ <<cachedPhase, loadTest.phase>> \in Moves

\* A job ends in one of two ways, and ages only as its load test does.
JobsAreSane ==
  \A j \in Jobs : /\ job[j].gaveUp => job[j].failed
                  /\ Success(job[j]) => job[j].completion # "none"
                  /\ job[j].completion = "old" => aged

\* All jobs exist, succeeded and are complete.
AllSucceeded ==
  \A j \in Jobs : j \in objects /\ Success(job[j]) /\ job[j].completion # "none"

Begun(s) == s.active \/ s.succeeded \/ s.failed

\* What must have been seen, and never goes away while the load test exists,
\* before any copy of it has phase p.
Earned(p) ==
  /\ p = Errored => /\ Backend # "Fake"
                    /\ Backend = "JMeter" => nsCached
                    /\ ByJobs => \E j \in Jobs : job[j].failed
  /\ p = Running => /\ Pods \subseteq objects
                    /\ Backend = "Ghz" => \A j \in Jobs : Begun(job[j])
  /\ p = Finished /\ ByJobs => AllSucceeded

\* The phases of all copies of the load test.
Phases == {stored.phase, cache.phase, cachedPhase, loadTest.phase}
            \cup {events[i].phase : i \in DOMAIN events}

\* What a sync has read before its last reading still holds.
ReadSoFar ==
  /\ Backend = "JMeter" /\ pc \in {"pods", "job"} => nsCached
  /\ Backend = "JMeter" /\ pc = "job" => Pods \subseteq objects
  /\ pc = "masterJob" /\ Success(workerJob)
       => Success(job[WorkerJob]) /\ job[WorkerJob].completion # "none"
  /\ pc = "masterJob" /\ cachedPhase = Finished => Success(workerJob)
  /\ pc = "masterJob" /\ workerJob.failed => job[WorkerJob].failed
  /\ Backend = "Fake" /\ loadTest.completion # "none"
       => \A j \in Jobs : job[j].completion # "none"

Alive ==
  /\ nsCached => namespace = "active"
  /\ \A p \in Phases : Earned(p)
  /\ ReadSoFar /\ PhaseMoves

LifeInv ==
  /\ NamespaceKept /\ FreshIsStored /\ Readers /\ JobsAreSane
  /\ loadTest.completion = "old" => aged
  /\ stored.exists => Alive

LInv == IInv /\ LifeInv

\* LastVersion is kept apart: of two controllers that run at once the one that
\* is about to end does without it, once it has taken its last copy.
FullInv == LInv /\ LastVersion
-----------------------------------------------------------------------------
(***************************************************************************)
(* The moves of the backends.                                              *)
(***************************************************************************)

LEMMA MovesOf ==
  /\ Backend = "Fake"   => Moves = FakeMoves
  /\ Backend = "Ghz"    => Moves = GhzMoves
  /\ Backend = "K6"     => Moves = K6Moves
  /\ Backend = "Locust" => Moves = LocustMoves
  /\ Backend = "JMeter" => Moves = JMeterMoves
  BY DEF Moves

\* Every backend lets a load test start, and none lets it leave Errored or
\* go back to blank.
LEMMA MovesAtTheEnds ==
  /\ <<Blank, Creating>> \in Moves
  /\ \A p, q : <<p, q>> \in Moves => p # Errored /\ q # Blank /\ p \in Phase /\ q \in Phase
  <1> USE DEF Phase, Blank, Creating, Starting, Running, Finished, Errored, Started, Outcome
  <1>1. CASE Backend = "Fake"
    BY <1>1, MovesOf DEF FakeMoves
  <1>2. CASE Backend = "Ghz"
    BY <1>2, MovesOf DEF GhzMoves
  <1>3. CASE Backend = "K6"
    BY <1>3, MovesOf DEF K6Moves
  <1>4. CASE Backend = "Locust"
    BY <1>4, MovesOf DEF LocustMoves
  <1>5. CASE Backend = "JMeter"
    BY <1>5, MovesOf DEF JMeterMoves
  <1>. QED  BY <1>1, <1>2, <1>3, <1>4, <1>5, BackendAssumption
-----------------------------------------------------------------------------
(***************************************************************************)
(* Evidence: what is known of a live load test is never taken back.        *)
(***************************************************************************)

\* What a job has shown it goes on showing.
JobGrows(s, t) ==
  /\ s.failed => t.failed
  /\ Begun(s) => Begun(t)
  /\ s.completion # "none" => t.completion # "none"
  /\ Success(s) /\ s.completion # "none" => Success(t)

Grows ==
  /\ objects \subseteq objects' /\ (Backend = "JMeter" /\ nsCached => nsCached')
  /\ \A j \in Jobs : JobGrows(job[j], job'[j])

\* What has been earned stays so.
LEMMA EarnedStays ==
  ASSUME Grows, NEW p, Earned(p)
  PROVE  Earned(p)'
  <1>1. (\E j \in Jobs : job[j].failed) => (\E j \in Jobs : job[j].failed)'
    BY DEF Grows, JobGrows
  <1>2. (\A j \in Jobs : Begun(job[j])) => (\A j \in Jobs : Begun(job[j]))'
    BY DEF Grows, JobGrows, Begun
  <1>3. AllSucceeded => AllSucceeded'
    BY DEF Grows, JobGrows, AllSucceeded, Success
  <1>. QED  BY <1>1, <1>2, <1>3 DEF Earned, Grows, ByJobs

\* What a step leaves of the jobs stays sane.
LEMMA SaneJobsStay ==
  ASSUME JobsAreSane, UNCHANGED job, aged => aged'
  PROVE  JobsAreSane'
  BY DEF JobsAreSane, Success

\* The phases that are there after a step, if it brings at most phase q.
LEMMA AllEarned ==
  ASSUME \A p \in Phases : Earned(p), Grows, NEW q, Earned(q), NEW S, S \subseteq Phases \cup {q}
  PROVE  \A p \in S : Earned(p)'
  BY EarnedStays

\* Creating and the blank phase need not be earned.
LEMMA EarnedForFree == Earned(Blank) /\ Earned(Creating)
  BY DEF Earned, Blank, Creating, Errored, Running, Finished

\* A step of syncHandler within a sync: the load test stays as it is stored,
\* the jobs as they are, and the phase is kept or is one that has been earned.
LEMMA SyncGoesOn ==
  ASSUME LInv, pc # "idle",
         UNCHANGED <<stored, job, aged, cache, events, nsCached, fresh, cachedPhase>>,
         objects \subseteq objects', namespace' \in {namespace, "active"},
         Readers',
         loadTest'.completion = "old" => aged,
         stored.exists => /\ Earned(loadTest'.phase)
                          /\ ReadSoFar' /\ PhaseMoves'
  PROVE  LifeInv'
  <1>1. NamespaceKept' /\ FreshIsStored'
    BY DEF LInv, LifeInv, NamespaceKept, FreshIsStored
  <1>2. JobsAreSane'
    BY SaneJobsStay DEF LInv, LifeInv
  <1>3. ASSUME stored.exists PROVE \A p \in Phases' : Earned(p)'
    <2>1. Grows
      BY DEF Grows, JobGrows
    <2>2. Phases' \subseteq Phases \cup {loadTest'.phase}
      BY DEF Phases
    <2>. QED  BY <1>3, <2>1, <2>2, AllEarned DEF LInv, LifeInv, Alive
  <1>4. stored.exists => Alive'
    BY <1>3 DEF LInv, LifeInv, Alive
  <1>. QED  BY <1>1, <1>2, <1>4 DEF LifeInv
-----------------------------------------------------------------------------
(***************************************************************************)
(* The steps of the informers and of the cluster.                          *)
(***************************************************************************)

LEMMA LifeInit == Init => LifeInv
  <1>. SUFFICES ASSUME Init PROVE LifeInv
    OBVIOUS
  <1>1. /\ stored = Created /\ namespace = "none" /\ objects = {} /\ pc = "idle"
        /\ cache = Absent /\ events = <<Created>> /\ nsCached = FALSE /\ loadTest = NoCopy
        /\ job = [j \in Jobs |-> NewJobStatus] /\ cachedPhase = Blank /\ fresh = FALSE
    BY DEF Init
  <1>2. NamespaceKept /\ FreshIsStored /\ Readers
    BY <1>1 DEF NamespaceKept, FreshIsStored, Readers
  <1>4. JobsAreSane /\ loadTest.completion = "none"
    BY <1>1 DEF JobsAreSane, NewJobStatus, NoCopy, Success
  <1>5. Phases = {Blank}
    <2>1. DOMAIN <<Created>> = {1} /\ <<Created>>[1] = Created
      OBVIOUS
    <2>. QED  BY <1>1, <2>1 DEF Phases, Created, Absent, NoCopy
  <1>6. ReadSoFar /\ PhaseMoves
    BY <1>1 DEF ReadSoFar, PhaseMoves, NoCopy, Reads
  <1>7. Alive
    BY <1>1, <1>5, <1>6, EarnedForFree DEF Alive
  <1>. QED  BY <1>2, <1>4, <1>7 DEF LifeInv

\* The informers bring no phase that was not on its way.
LEMMA InformersLive ==
  ASSUME LInv, Informers
  PROVE  LifeInv'
  <1>1. UNCHANGED <<stored, namespace, objects, job, aged, pc, loadTest, cachedPhase, fresh, workerJob>>
    BY DEF Informers, Deliver, Resync, HandleObject, RetryFires, DeliverNamespace,
           clusterVars, syncVars
  <1>2. events \in Seq(Version) /\ cache \in Version /\ stored.exists \in BOOLEAN
        /\ namespace \in {"none", "active", "terminating"}
    BY DEF LInv, IInv, TypeInv, TypeOK, QueueTypeOK, ServerTypeOK, Version
  <1>3. NamespaceKept' /\ FreshIsStored' /\ Readers' /\ JobsAreSane'
        /\ (loadTest.completion = "old" => aged)'
    BY <1>1, SaneJobsStay DEF LInv, LifeInv, NamespaceKept, FreshIsStored, Readers
  <1>4. Phases' \subseteq Phases
    <2>1. CASE Deliver
      <3>1. events # <<>> /\ cache' = Head(events) /\ events' = Tail(events)
        BY <2>1 DEF Deliver
      <3>2. Head(events) = events[1] /\ 1 \in DOMAIN events
        BY <1>2, <3>1, LenProperties, EmptySeq
      <3>3. \A i \in DOMAIN events' : i + 1 \in DOMAIN events /\ events'[i] = events[i + 1]
        BY <1>2, <3>1, HeadTailProperties, LenProperties
      <3>. QED  BY <1>1, <3>1, <3>2, <3>3 DEF Phases
    <2>2. CASE Resync \/ HandleObject \/ RetryFires \/ DeliverNamespace
      <3>1. UNCHANGED <<cache, events>>
        BY <2>2 DEF Resync, HandleObject, RetryFires, DeliverNamespace, informerVars
      <3>. QED  BY <1>1, <3>1 DEF Phases
    <2>. QED  BY <2>1, <2>2 DEF Informers
  <1>5. ASSUME stored.exists PROVE Alive'
    <2>1. nsCached => namespace = "active"
      BY <1>5 DEF LInv, LifeInv, Alive
    <2>2. nsCached' = nsCached \/ nsCached' = (namespace # "none")
      BY DEF Informers, Deliver, Resync, HandleObject, RetryFires, DeliverNamespace, informerVars
    <2>3. (nsCached => nsCached') /\ (nsCached' => namespace = "active")
      <3>1. namespace # "terminating"
        BY <1>5 DEF LInv, LifeInv, NamespaceKept
      <3>2. CASE nsCached' = nsCached
        BY <2>1, <3>2
      <3>3. CASE nsCached' = (namespace # "none")
        <4>1. nsCached' <=> namespace # "none"
          BY <3>3, Zenon
        <4>. QED  BY <1>2, <2>1, <3>1, <4>1
      <3>. QED  BY <2>2, <3>2, <3>3
    <2>4. Grows
      BY <1>1, <2>3 DEF Grows, JobGrows
    <2>5. \A p \in Phases' : Earned(p)'
      BY <1>4, <1>5, <2>4, EarnedForFree, AllEarned DEF LInv, LifeInv, Alive
    <2>6. ReadSoFar' /\ PhaseMoves'
      BY <1>1, <1>5, <2>3 DEF LInv, LifeInv, Alive, ReadSoFar, PhaseMoves
    <2>. QED  BY <1>1, <2>3, <2>5, <2>6 DEF Alive
  <1>. QED  BY <1>1, <1>3, <1>4, <1>5 DEF LifeInv

\* A job moves on.
LEMMA JobMoveLives ==
  ASSUME LInv, NEW j \in Jobs, NEW s, SetJob(j, s), JobGrows(job[j], s),
         s.gaveUp => s.failed, Success(s) => s.completion # "none",
         s.completion = "old" => aged
  PROVE  LifeInv'
  <1>1. /\ UNCHANGED <<stored, namespace, objects, aged, cache, events, nsCached, pc,
                       loadTest, cachedPhase, fresh, workerJob>>
        /\ job' = [job EXCEPT ![j] = s]
    BY DEF SetJob, ClusterStep, informerVars, syncVars
  <1>2. job'[j] = s /\ \A i \in Jobs : i # j => job'[i] = job[i]
    BY <1>1 DEF LInv, IInv, TypeInv, TypeOK, ServerTypeOK
  <1>3. NamespaceKept' /\ FreshIsStored' /\ Readers'
        /\ (loadTest.completion = "old" => aged)'
    BY <1>1 DEF LInv, LifeInv, NamespaceKept, FreshIsStored, Readers
  <1>4. JobsAreSane'
    BY <1>1, <1>2 DEF LInv, LifeInv, JobsAreSane, Success
  <1>5. Grows
    BY <1>1, <1>2 DEF Grows, JobGrows
  <1>6. ASSUME stored.exists PROVE Alive'
    <2>1. Phases' = Phases
      BY <1>1 DEF Phases
    <2>2. \A p \in Phases' : Earned(p)'
      BY <1>5, <1>6, <2>1, EarnedStays DEF LInv, LifeInv, Alive
    <2>3. PhaseMoves'
      BY <1>1, <1>6 DEF LInv, LifeInv, Alive, PhaseMoves
    <2>4. ReadSoFar'
      <3>1. pc = "masterJob" => WorkerJob \in Jobs
        BY LocustObjects DEF LInv, LifeInv, Readers
      <3>2. \A i \in Jobs : job[i].completion # "none" => job'[i].completion # "none"
        BY <1>5 DEF Grows, JobGrows
      <3>3. \A i \in Jobs : Success(job[i]) /\ job[i].completion # "none" => Success(job'[i])
        BY <1>5 DEF Grows, JobGrows
      <3>4. \A i \in Jobs : job[i].failed => job'[i].failed
        BY <1>5 DEF Grows, JobGrows
      <3>5. ReadSoFar
        BY <1>6 DEF LInv, LifeInv, Alive
      <3>. QED  BY <1>1, <3>1, <3>2, <3>3, <3>4, <3>5 DEF ReadSoFar
    <2>. QED  BY <1>1, <1>6, <2>2, <2>3, <2>4 DEF LInv, LifeInv, Alive
  <1>. QED  BY <1>1, <1>3, <1>4, <1>6 DEF LifeInv

\* The jobs of a live load test only move forward, and the cluster removes
\* nothing of it.
LEMMA EnvironmentLives ==
  ASSUME LInv, Environment
  PROVE  LifeInv'
  <1>0. \A j \in Jobs : /\ job[j] \in JobStatus
                        /\ job[j].gaveUp => job[j].failed
                        /\ Success(job[j]) => job[j].completion # "none"
                        /\ job[j].completion = "old" => aged
    BY DEF LInv, IInv, TypeInv, TypeOK, ServerTypeOK, LifeInv, JobsAreSane
  <1>1. ASSUME NEW j \in Jobs, JobStarts(j) PROVE LifeInv'
    <2> DEFINE s == [job[j] EXCEPT !.active = TRUE]
    <2>1. SetJob(j, s) /\ ~Terminal(job[j])
      BY <1>1 DEF JobStarts, LiveJob
    <2>2. /\ s.active /\ s.succeeded = job[j].succeeded /\ s.failed = job[j].failed
          /\ s.gaveUp = job[j].gaveUp /\ s.completion = job[j].completion
      BY <1>0 DEF JobStatus
    <2> HIDE DEF s
    <2>. QED  BY <1>0, <2>1, <2>2, JobMoveLives DEF JobGrows, Begun, Success, Terminal
  <1>2. ASSUME NEW j \in Jobs, JobPodSucceeds(j) PROVE LifeInv'
    <2> DEFINE s == [job[j] EXCEPT !.succeeded = TRUE]
    <2>1. SetJob(j, s) /\ ~Terminal(job[j]) /\ job[j].active
      BY <1>2 DEF JobPodSucceeds, LiveJob
    <2>2. /\ s.active = job[j].active /\ s.succeeded /\ s.failed = job[j].failed
          /\ s.gaveUp = job[j].gaveUp /\ s.completion = job[j].completion
      BY <1>0 DEF JobStatus
    <2> HIDE DEF s
    <2>. QED  BY <1>0, <2>1, <2>2, JobMoveLives DEF JobGrows, Begun, Success, Terminal
  <1>3. ASSUME NEW j \in Jobs, JobCompletes(j) PROVE LifeInv'
    <2> DEFINE s == [job[j] EXCEPT !.active = FALSE, !.succeeded = TRUE, !.completion = "recent"]
    <2>1. SetJob(j, s) /\ ~Terminal(job[j])
      BY <1>3 DEF JobCompletes, LiveJob
    <2>2. /\ ~s.active /\ s.succeeded /\ s.failed = job[j].failed
          /\ s.gaveUp = job[j].gaveUp /\ s.completion = "recent"
      BY <1>0 DEF JobStatus
    <2> HIDE DEF s
    <2>. QED  BY <1>0, <2>1, <2>2, JobMoveLives DEF JobGrows, Begun, Success, Terminal
  <1>4. ASSUME NEW j \in Jobs, JobPodFails(j) PROVE LifeInv'
    <2>1. PICK others \in BOOLEAN :
            SetJob(j, [job[j] EXCEPT !.failed = TRUE, !.active = others,
                                     !.gaveUp = ~RetriesPods /\ ~others])
      BY <1>4 DEF JobPodFails
    <2> DEFINE g == ~RetriesPods /\ ~others
               s == [job[j] EXCEPT !.failed = TRUE, !.active = others, !.gaveUp = g]
    <2>2. SetJob(j, s) /\ ~Terminal(job[j])
      BY <1>4, <2>1 DEF JobPodFails, LiveJob
    <2>3. s.failed /\ s.completion = job[j].completion
      <3> HIDE DEF g
      <3>. QED  BY <1>0 DEF JobStatus
    <2> HIDE DEF s
    <2>. QED  BY <1>0, <2>2, <2>3, JobMoveLives DEF JobGrows, Begun, Success, Terminal
  <1>5. ASSUME NEW j \in Jobs, JobGivesUp(j) PROVE LifeInv'
    <2> DEFINE s == [job[j] EXCEPT !.gaveUp = TRUE, !.active = FALSE]
    <2>1. SetJob(j, s) /\ ~Terminal(job[j]) /\ job[j].failed
      BY <1>5 DEF JobGivesUp, LiveJob
    <2>2. s.failed = job[j].failed /\ s.completion = job[j].completion
      BY <1>0 DEF JobStatus
    <2> HIDE DEF s
    <2>. QED  BY <1>0, <2>1, <2>2, JobMoveLives DEF JobGrows, Begun, Success, Terminal
  <1>6. ASSUME NEW j \in Jobs, CompletionAges(j) PROVE LifeInv'
    <2> DEFINE s == [job[j] EXCEPT !.completion = "old"]
    <2>1. SetJob(j, s) /\ aged /\ job[j].completion = "recent"
      BY <1>6 DEF CompletionAges
    <2>2. /\ s.active = job[j].active /\ s.succeeded = job[j].succeeded
          /\ s.failed = job[j].failed /\ s.gaveUp = job[j].gaveUp /\ s.completion = "old"
      BY <1>0 DEF JobStatus
    <2> HIDE DEF s
    <2>. QED  BY <1>0, <2>1, <2>2, JobMoveLives DEF JobGrows, Begun, Success
  <1>7. CASE UserDeletes
    <2>1. /\ stored' = Absent
          /\ UNCHANGED <<namespace, objects, job, aged, pc, loadTest>>
      BY <1>7 DEF UserDeletes, Write, clusterVars, syncVars
    <2>2. ~stored'.exists
      BY <2>1 DEF Absent
    <2>. QED  BY <2>1, <2>2, SaneJobsStay
              DEF LInv, LifeInv, NamespaceKept, FreshIsStored, Readers
  <1>8. CASE LoadTestAges \/ PodsAge \/ \E p \in Pods : PodChanges(p)
    <2>1. /\ UNCHANGED <<stored, namespace, objects, job, cache, events, nsCached, pc,
                         loadTest, cachedPhase, fresh, workerJob>>
          /\ aged => aged'
      BY <1>8 DEF LoadTestAges, PodsAge, PodChanges, ClusterStep, informerVars, syncVars
    <2>2. Grows /\ Phases' = Phases
      BY <2>1 DEF Grows, JobGrows, Phases
    <2>3. ASSUME stored.exists PROVE Alive'
      <3>1. \A p \in Phases' : Earned(p)'
        BY <2>2, <2>3, EarnedStays DEF LInv, LifeInv, Alive
      <3>2. ReadSoFar' /\ PhaseMoves'
        BY <2>1, <2>3 DEF LInv, LifeInv, Alive, ReadSoFar, PhaseMoves
      <3>. QED  BY <2>1, <2>3, <3>1, <3>2 DEF LInv, LifeInv, Alive
    <2>. QED  BY <2>1, <2>3, SaneJobsStay
              DEF LInv, LifeInv, NamespaceKept, FreshIsStored, Readers
  <1>. QED  BY <1>1, <1>2, <1>3, <1>4, <1>5, <1>6, <1>7, <1>8 DEF Environment

\* The garbage collector only touches what belongs to no load test.
LEMMA CollectorLives ==
  ASSUME LInv, GarbageCollector
  PROVE  LifeInv'
  <1>1. /\ UNCHANGED <<stored, aged, cache, events, pc, loadTest, cachedPhase, fresh>>
        /\ namespace' \in {namespace, "none", "terminating"}
    BY DEF GarbageCollector, GCNamespace, GCOwned, NamespaceGone, Collect, ClusterStep,
           informerVars, syncVars
  <1>2. ~stored.exists
    BY DEF GarbageCollector, GCNamespace, GCOwned, NamespaceGone, LInv, LifeInv, NamespaceKept
  <1>3. \A j \in Jobs : job'[j] = job[j] \/ job'[j] = NewJobStatus
    BY DEF GarbageCollector, GCNamespace, GCOwned, NamespaceGone, Collect
  <1>4. JobsAreSane'
    BY <1>1, <1>3 DEF LInv, LifeInv, JobsAreSane, Success, NewJobStatus
  <1>. QED  BY <1>1, <1>2, <1>4
            DEF LInv, LifeInv, NamespaceKept, FreshIsStored, Readers
-----------------------------------------------------------------------------
(***************************************************************************)
(* The steps of syncHandler.                                               *)
(***************************************************************************)

\* Once a sync makes no further reading, what it has read does not matter.
LEMMA NothingMoreIsRead ==
  ASSUME ReadSoFar, UNCHANGED job, pc' \notin Reads,
         loadTest'.completion \in {loadTest.completion, "none"}
  PROVE  ReadSoFar'
  BY DEF ReadSoFar, Reads

\* A step before SyncStatus, or one that ends the sync: the phase is kept.
LEMMA PhaseIsKept ==
  ASSUME LInv, pc # "idle",
         UNCHANGED <<stored, job, aged, cache, events, nsCached, fresh, cachedPhase>>,
         objects \subseteq objects', namespace' \in {namespace, "active"},
         loadTest'.phase = loadTest.phase, loadTest'.completion = loadTest.completion,
         pc' \notin Reads,
         pc' \in {"cleanup", "update"} \/ pc \notin Reads \cup {"cleanup", "update"}
  PROVE  LifeInv'
  <1>1. Readers'
    BY DEF Readers, Reads
  <1>2. loadTest'.completion = "old" => aged
    BY DEF LInv, LifeInv
  <1>3. ASSUME stored.exists PROVE Earned(loadTest'.phase) /\ ReadSoFar' /\ PhaseMoves'
    <2>1. Alive
      BY <1>3 DEF LInv, LifeInv
    <2>2. Earned(loadTest'.phase)
      BY <2>1 DEF Alive, Phases
    <2>3. ReadSoFar'
      BY <2>1, NothingMoreIsRead DEF Alive
    <2>4. PhaseMoves'
      BY <2>1 DEF Alive, PhaseMoves
    <2>. QED  BY <2>2, <2>3, <2>4
  <1>. QED  BY <1>1, <1>2, <1>3, SyncGoesOn

\* The calls up to SyncStatus.
LEMMA CallsLive ==
  ASSUME LInv,
         \/ CallFails \/ ListNamespaces \/ CreateNamespace \/ FakeGetNamespace \/ CheckGuard
         \/ CreateObject \/ CreateRefused \/ JMeterWaitPod \/ JMeterWaitPvc \/ NoCleanUp
  PROVE  LifeInv'
  <1>1. loadTest \in Copy /\ namespace \in {"none", "active", "terminating"}
    BY DEF LInv, IInv, TypeInv, TypeOK, SyncTypeOK, ServerTypeOK
  <1>2. CASE CallFails
    <2>1. /\ pc # "idle" /\ pc' = "update"
          /\ UNCHANGED <<stored, namespace, objects, job, aged, cache, events, nsCached,
                         fresh, cachedPhase>>
      BY <1>2 DEF CallFails, Fail, NothingElse, clusterVars, informerVars
    <2>2. CASE loadTest' = loadTest
      BY <2>1, <2>2, PhaseIsKept DEF Reads
    <2>3. CASE loadTest' = [loadTest EXCEPT !.phase = Creating] /\ loadTest.phase = Blank
      <3>1. loadTest'.phase = Creating /\ loadTest'.completion = loadTest.completion
        BY <1>1, <2>3 DEF Copy
      <3>2. pc \in Reads \cup {"cleanup", "update"} \/ loadTest.phase = cachedPhase \/ ~stored.exists
        BY DEF LInv, LifeInv, Alive, PhaseMoves
      <3>3. Readers'
        BY <2>1 DEF Readers
      <3>4. loadTest'.completion = "old" => aged
        BY <3>1 DEF LInv, LifeInv
      <3>5. ASSUME stored.exists PROVE Earned(loadTest'.phase) /\ ReadSoFar' /\ PhaseMoves'
        <4>1. ReadSoFar'
          BY <2>1, <3>1, <3>5, NothingMoreIsRead DEF LInv, LifeInv, Alive, Reads
        <4>2. <<cachedPhase, loadTest.phase>> \notin Moves
          BY <2>3, MovesAtTheEnds
        <4>3. cachedPhase = Blank
          BY <2>3, <3>5, <4>2 DEF LInv, LifeInv, Alive, PhaseMoves
        <4>4. PhaseMoves'
          BY <2>1, <3>1, <4>3, MovesAtTheEnds DEF PhaseMoves, Reads
        <4>. QED  BY <3>1, <4>1, <4>4, EarnedForFree
      <3>. QED  BY <2>1, <3>3, <3>4, <3>5, SyncGoesOn
    <2>. QED  BY <1>2, <2>2, <2>3 DEF CallFails
  <1>3. CASE ListNamespaces
    <2>1. /\ pc = "listNamespaces" /\ pc' \in {"createNamespace", "getNamespace", "guard"}
          /\ UNCHANGED <<stored, namespace, objects, job, aged, cache, events, nsCached,
                         fresh, cachedPhase>>
          /\ loadTest' = loadTest \/ loadTest' = [loadTest EXCEPT !.ns = TRUE]
      BY <1>3 DEF ListNamespaces, EnterSync, NothingElse, clusterVars, informerVars
    <2>2. loadTest'.phase = loadTest.phase /\ loadTest'.completion = loadTest.completion
      BY <1>1, <2>1 DEF Copy
    <2>. QED  BY <2>1, <2>2, PhaseIsKept DEF Reads
  <1>4. CASE CreateNamespace
    <2>1. /\ pc = "createNamespace" /\ pc' \in {"getNamespace", "guard", "update"}
          /\ namespace' = "active"
          /\ UNCHANGED <<stored, objects, job, aged, cache, events, nsCached, fresh, cachedPhase>>
          /\ loadTest' = loadTest \/ loadTest' = [loadTest EXCEPT !.ns = TRUE]
      BY <1>4 DEF CreateNamespace, EnterSync, Fail, informerVars
    <2>2. loadTest'.phase = loadTest.phase /\ loadTest'.completion = loadTest.completion
      BY <1>1, <2>1 DEF Copy
    <2>. QED  BY <2>1, <2>2, PhaseIsKept DEF Reads
  <1>5. CASE FakeGetNamespace \/ CheckGuard \/ CreateRefused
    <2>1. /\ pc \in {"getNamespace", "guard", "create"}
          /\ pc' \in {"status", "guard", "create", "update"}
          /\ UNCHANGED <<stored, namespace, objects, job, aged, cache, events, nsCached,
                         fresh, cachedPhase, loadTest>>
      BY <1>5 DEF FakeGetNamespace, CheckGuard, CreateRefused, Fail, NothingElse,
                  clusterVars, informerVars, syncVars
    <2>. QED  BY <2>1, PhaseIsKept DEF Reads
  <1>6. CASE CreateObject
    <2>1. /\ pc = "create" /\ pc' \in {"waitPvc", "waitPod", "create", "status", "update"}
          /\ objects \subseteq objects'
          /\ UNCHANGED <<stored, namespace, job, aged, cache, events, nsCached,
                         fresh, cachedPhase, loadTest>>
      BY <1>6 DEF CreateObject, AfterCreate, Fail, informerVars
    <2>. QED  BY <2>1, PhaseIsKept DEF Reads
  <1>7. CASE JMeterWaitPod \/ JMeterWaitPvc
    <2>1. /\ pc \in {"waitPvc", "waitPod"} /\ pc' \in {"create", "status"}
          /\ UNCHANGED <<stored, namespace, objects, job, aged, cache, events, nsCached,
                         fresh, cachedPhase, loadTest>>
      BY <1>7 DEF JMeterWaitPod, JMeterWaitPvc, Waited, AfterCreate, NothingElse,
                  clusterVars, informerVars
    <2>. QED  BY <2>1, PhaseIsKept DEF Reads
  <1>8. CASE NoCleanUp
    <2>1. /\ pc = "cleanup" /\ pc' = "update"
          /\ UNCHANGED <<stored, namespace, objects, job, aged, cache, events, nsCached,
                         fresh, cachedPhase, loadTest>>
      BY <1>8 DEF NoCleanUp, NothingElse, clusterVars, informerVars, syncVars
    <2>. QED  BY <2>1, PhaseIsKept DEF Reads
  <1>. QED  BY <1>2, <1>3, <1>4, <1>5, <1>6, <1>7, <1>8

\* A sync starts with the lister's copy.
LEMMA StartLives ==
  ASSUME FullInv, SyncMissing \/ SyncStart
  PROVE  LifeInv'
  <1>. USE DEF FullInv
  <1>1. CASE SyncMissing
    <2>1. UNCHANGED <<stored, namespace, objects, job, aged, cache, events, nsCached, pc,
                      loadTest, cachedPhase, fresh, workerJob>>
      BY <1>1 DEF SyncMissing, clusterVars, informerVars, syncVars
    <2>2. Grows /\ Phases' = Phases
      BY <2>1 DEF Grows, JobGrows, Phases
    <2>3. ASSUME stored.exists PROVE Alive'
      <3>1. \A p \in Phases' : Earned(p)'
        BY <2>2, <2>3, EarnedStays DEF LInv, LifeInv, Alive
      <3>2. ReadSoFar' /\ PhaseMoves'
        BY <2>1, <2>3 DEF LInv, LifeInv, Alive, ReadSoFar, PhaseMoves
      <3>. QED  BY <2>1, <2>3, <3>1, <3>2 DEF LInv, LifeInv, Alive
    <2>. QED  BY <2>1, <2>3, SaneJobsStay
              DEF LInv, LifeInv, NamespaceKept, FreshIsStored, Readers
  <1>2. CASE SyncStart
    <2>1. /\ pc = "idle" /\ pc' \in {"listNamespaces", "getNamespace", "guard"}
          /\ loadTest' = [phase |-> cache.phase, ns |-> cache.ns, completion |-> "none"]
          /\ cachedPhase' = cache.phase /\ fresh' = CarriesStoredVersion
          /\ UNCHANGED <<stored, namespace, objects, job, aged, cache, events, nsCached>>
      BY <1>2 DEF SyncStart, TakeCopy, EnterSync, clusterVars, informerVars
    <2>2. loadTest'.phase = cache.phase /\ loadTest'.completion = "none"
      BY <2>1
    <2>3. FreshIsStored'
      <3>1. fresh' => events = <<>>
        BY <2>1, Zenon DEF CarriesStoredVersion
      <3>. QED  BY <2>1, <3>1 DEF LastVersion, FreshIsStored
    <2>4. Grows /\ Phases' \subseteq Phases
      BY <2>1, <2>2 DEF Grows, JobGrows, Phases
    <2>5. ASSUME stored.exists PROVE Alive'
      <3>1. \A p \in Phases' : Earned(p)'
        BY <2>4, <2>5, EarnedForFree, AllEarned DEF LInv, LifeInv, Alive
      <3>2. ReadSoFar' /\ PhaseMoves'
        BY <2>1, <2>2 DEF ReadSoFar, PhaseMoves, Reads
      <3>. QED  BY <2>1, <2>5, <3>1, <3>2 DEF LInv, LifeInv, Alive
    <2>. QED  BY <2>1, <2>2, <2>3, <2>5, SaneJobsStay
              DEF LInv, LifeInv, NamespaceKept, Readers
  <1>. QED  BY <1>1, <1>2
-----------------------------------------------------------------------------
(***************************************************************************)
(* SyncStatus.                                                             *)
(***************************************************************************)

\* The calls of SyncStatus read, and change nothing but the copy.
LEMMA ReadingFrame ==
  ASSUME ReadOnly
  PROVE  UNCHANGED <<stored, namespace, objects, job, aged, cache, events, nsCached, fresh,
                     cachedPhase>>
  BY DEF ReadOnly, NothingElse, clusterVars, informerVars

\* The phase SyncStatus starts from.
LEMMA BeganIs ==
  ASSUME LInv, stored.exists, pc \in {"status"} \cup Reads
  PROVE  /\ Began = (IF cachedPhase = Blank THEN Creating ELSE cachedPhase)
         /\ pc = "status" => loadTest.phase = cachedPhase
         /\ pc \in Reads => loadTest.phase = Began /\ loadTest.phase # Errored
         /\ Earned(Began) /\ Earned(cachedPhase)
         /\ Began = cachedPhase \/ <<cachedPhase, Began>> \in Moves
         /\ cachedPhase \in Phase
  <1>1. PhaseMoves
    BY DEF LInv, LifeInv, Alive
  <1>2. Earned(cachedPhase)
    BY DEF LInv, LifeInv, Alive, Phases
  <1>3. /\ Began = (IF cachedPhase = Blank THEN Creating ELSE cachedPhase)
        /\ pc = "status" => loadTest.phase = cachedPhase
        /\ pc \in Reads => loadTest.phase = Began /\ loadTest.phase # Errored
    BY <1>1 DEF PhaseMoves, Began, Reads, Blank, Creating
  <1>4. cachedPhase \in Phase
    BY DEF LInv, IInv, TypeInv, TypeOK, SyncTypeOK
  <1>. QED  BY <1>2, <1>3, <1>4, EarnedForFree, MovesAtTheEnds

\* SyncStatus decides for a phase that is earned and may follow.
LEMMA DecisionLives ==
  ASSUME LInv, ReadOnly, pc \in {"status"} \cup Reads, NEW phase, NEW completion,
         Decide(phase, completion),
         completion = "none" \/ \E j \in Jobs : completion = job[j].completion,
         Backend = "Fake" /\ completion # "none" => \A j \in Jobs : job[j].completion # "none",
         stored.exists => /\ Earned(phase)
                          /\ phase = cachedPhase \/ <<cachedPhase, phase>> \in Moves
  PROVE  LifeInv'
  <1>1. UNCHANGED <<stored, namespace, objects, job, aged, cache, events, nsCached, fresh,
                    cachedPhase>>
    BY ReadingFrame
  <1>2. pc' = "cleanup" /\ pc # "idle" /\ loadTest'.phase = phase
        /\ loadTest'.completion = completion
    BY DEF Decide, Reads, LInv, IInv, TypeInv, TypeOK, SyncTypeOK, Copy
  <1>3. Readers' /\ (loadTest'.completion = "old" => aged)
    BY <1>2 DEF Readers, LInv, LifeInv, JobsAreSane
  <1>4. stored.exists => Earned(loadTest'.phase) /\ ReadSoFar' /\ PhaseMoves'
    BY <1>1, <1>2 DEF ReadSoFar, PhaseMoves, Reads
  <1>. QED  BY <1>1, <1>2, <1>3, <1>4, SyncGoesOn

\* SyncStatus goes on with another call, or fails: it has left the blank phase.
LEMMA BeginningLives ==
  ASSUME LInv, ReadOnly, pc \in {"status"} \cup Reads,
         loadTest' = [loadTest EXCEPT !.phase = Began],
         pc' \in Reads \cup {"update"}, Readers',
         stored.exists /\ pc' \in Reads =>
           /\ Began # Errored
           /\ Backend = "JMeter" /\ pc' \in {"pods", "job"} => nsCached
           /\ Backend = "JMeter" /\ pc' = "job" => Pods \subseteq objects
           /\ pc' # "masterJob"
  PROVE  LifeInv'
  <1>1. UNCHANGED <<stored, namespace, objects, job, aged, cache, events, nsCached, fresh,
                    cachedPhase>>
    BY ReadingFrame
  <1>2. pc # "idle" /\ loadTest'.phase = Began /\ loadTest'.completion = loadTest.completion
    BY DEF Reads, LInv, IInv, TypeInv, TypeOK, SyncTypeOK, Copy
  <1>3. loadTest'.completion = "old" => aged
    BY <1>2 DEF LInv, LifeInv
  <1>4. ASSUME stored.exists PROVE Earned(loadTest'.phase) /\ ReadSoFar' /\ PhaseMoves'
    <2>1. /\ Began = (IF cachedPhase = Blank THEN Creating ELSE cachedPhase) /\ Earned(Began)
          /\ Began = cachedPhase \/ <<cachedPhase, Began>> \in Moves
      BY <1>4, BeganIs
    <2>2. PhaseMoves'
      BY <1>1, <1>2, <1>4, <2>1 DEF PhaseMoves, Reads
    <2>3. ReadSoFar'
      BY <1>1, <1>2, <1>4 DEF LInv, LifeInv, Alive, ReadSoFar, Reads
    <2>. QED  BY <1>2, <2>1, <2>2, <2>3
  <1>. QED  BY <1>1, <1>2, <1>3, <1>4, SyncGoesOn

\* An object that is there and is called a job is one of the jobs.
LEMMA JobsHere ==
  ASSUME TypeInv
  PROVE  \A i \in Nat : Job(i) \in objects => Job(i) \in Jobs
  BY DEF Job, Jobs, TypeInv, TypeOK, ServerTypeOK

\* What of the outcome is settled once it has been stored.
LEMMA GhzLives ==
  ASSUME LInv, GhzReadJob
  PROVE  LifeInv'
  <1> DEFINE s == job[Job(0)]
             q == GhzPhase(s)
  <1>1. pc = "status" /\ Backend = "Ghz" /\ loadTest.phase \notin {Blank, Errored} /\ ReadOnly
    BY DEF GhzReadJob
  <1>2. Jobs \subseteq {Job(0)}
    BY <1>1, GhzObjects
  <1>3. CASE Job(0) \notin objects
    <2>1. NotFound
      BY <1>3 DEF GhzReadJob
    <2>. QED  BY <1>1, <2>1, BeginningLives DEF NotFound, Fail, Readers, Reads
  <1>4. CASE Job(0) \in objects
    <2>1. Decide(q, s.completion) /\ Job(0) \in Jobs
      BY <1>4, JobsHere DEF GhzReadJob, LInv, IInv
    <2>2. ASSUME stored.exists
          PROVE  Earned(q) /\ (q = cachedPhase \/ <<cachedPhase, q>> \in Moves)
      <3>1. /\ cachedPhase = loadTest.phase /\ Earned(cachedPhase)
            /\ cachedPhase \in {Creating, Starting, Running, Finished}
        BY <1>1, <2>2, BeganIs DEF Phase
      <3>2. Success(s) => s.completion # "none"
        BY <2>1 DEF LInv, LifeInv, JobsAreSane
      <3>3. Pods = {}
        BY <1>1, PlanIsPlain DEF Plain, Pods, ByJobs
      <3>4. Earned(q)
        BY <1>1, <1>2, <1>4, <2>1, <3>2, <3>3
        DEF Earned, GhzPhase, Begun, AllSucceeded, Success, ByJobs,
            Errored, Running, Finished, Starting
      <3>5. cachedPhase = Running => q # Starting
        BY <1>1, <2>1, <3>1
        DEF Earned, Begun, GhzPhase, Running, Errored, Starting, Finished
      <3>6. cachedPhase = Finished => q = Finished
        BY <1>1, <2>1, <3>1 DEF Earned, AllSucceeded, Success, GhzPhase, ByJobs
      <3>7. q \in {Starting, Running, Finished, Errored}
        BY DEF GhzPhase
      <3> HIDE DEF q
      <3>8. q = cachedPhase \/ <<cachedPhase, q>> \in GhzMoves
        BY <3>1, <3>5, <3>6, <3>7
        DEF GhzMoves, Started, Outcome, Creating, Starting, Running, Finished, Errored, Blank
      <3>. QED  BY <1>1, <3>4, <3>8, MovesOf
    <2> HIDE DEF q
    <2>. QED  BY <1>1, <2>1, <2>2, DecisionLives
  <1>. QED  BY <1>3, <1>4

\* Ghz and K6 first leave the blank phase; an errored load test stays so.
LEMMA SettledLives ==
  ASSUME LInv, StatusSettled
  PROVE  LifeInv'
  <1>1. pc = "status" /\ ReadOnly
    BY DEF StatusSettled
  <1>2. CASE loadTest.phase = Blank /\ Decide(Creating, "none")
    BY <1>1, <1>2, BeganIs, EarnedForFree, MovesAtTheEnds, DecisionLives
  <1>3. CASE loadTest.phase = Errored /\ Decide(Errored, "none")
    <2>1. stored.exists => cachedPhase = Errored /\ Earned(Errored)
      BY <1>1, <1>3, BeganIs
    <2>. QED  BY <1>1, <1>3, <2>1, DecisionLives
  <1>. QED  BY <1>2, <1>3 DEF StatusSettled

\* The status K6 reports is that of a job.
LEMMA K6StatusIsAJobs ==
  ASSUME NEW S \in SUBSET Jobs, S # {}, NEW f
  PROVE  \E j \in Jobs : K6JobStatus(S, f) = f[j]
  <1>1. \A T \in SUBSET S : T # {} => First(T) \in Jobs
    BY FirstExists, ObjectsType
  <1>. QED  BY <1>1 DEF K6JobStatus

\* K6: the first job that is not a clean success decides.
LEMMA K6Lives ==
  ASSUME LInv, K6ListJobs
  PROVE  LifeInv'
  <1> DEFINE q == K6Phase(Listed, job)
             c == K6JobStatus(Listed, job).completion
             undecided == {j \in Listed : \/ job[j].failed \/ job[j].active
                                          \/ ~job[j].succeeded}
  <1>1. /\ pc = "status" /\ Backend = "K6" /\ loadTest.phase \notin {Blank, Errored}
        /\ ReadOnly /\ Decide(q, c) /\ Listed # {}
    BY DEF K6ListJobs
  <1>2. Listed \in SUBSET Jobs
    BY DEF Listed
  <1>3. \E j \in Jobs : c = job[j].completion
    BY <1>1, <1>2, K6StatusIsAJobs
  <1>4. undecided # {} => First(undecided) \in undecided
    <2>1. undecided \in SUBSET Object
      BY <1>2, ObjectsType
    <2>. QED  BY <2>1, FirstExists
  <1>5. /\ q \in {Starting, Running, Finished, Errored}
        /\ undecided = {} => q = Finished
        /\ q = Finished => undecided = {}
        /\ q = Errored => undecided # {} /\ job[First(undecided)].failed
    BY DEF K6Phase, Starting, Running, Finished, Errored
  <1>6. ASSUME stored.exists
        PROVE  Earned(q) /\ (q = cachedPhase \/ <<cachedPhase, q>> \in Moves)
    <2>1. /\ cachedPhase = loadTest.phase /\ Earned(cachedPhase)
          /\ cachedPhase \in {Creating, Starting, Running, Finished}
      BY <1>1, <1>6, BeganIs DEF Phase
    <2>2. Objects \subseteq objects /\ ByJobs
      BY <1>1, <1>6 DEF LInv, IInv, FinishedInv, Live, CreatedSoFar, Reading, ByJobs
    <2>3. Pods = {}
      BY <2>2, PlanIsPlain DEF Plain, Pods
    <2>4. undecided = {} => AllSucceeded
      <3>1. \A j \in Jobs : Success(job[j]) => job[j].completion # "none"
        BY DEF LInv, LifeInv, JobsAreSane
      <3>. QED  BY <2>2, <3>1 DEF AllSucceeded, Success, Listed, Jobs
    <2>5. AllSucceeded => undecided = {}
      BY <1>2 DEF AllSucceeded, Success
    <2> HIDE DEF q
    <2>6. Earned(q)
      BY <1>1, <1>2, <1>4, <1>5, <2>3, <2>4 DEF Earned, Errored, Running, Finished
    <2>7. cachedPhase = Finished => q = Finished
      BY <1>5, <2>1, <2>2, <2>5 DEF Earned
    <2>8. q = cachedPhase \/ <<cachedPhase, q>> \in K6Moves
      BY <1>5, <2>1, <2>7
      DEF K6Moves, Started, Outcome, Creating, Starting, Running, Finished, Errored, Blank
    <2>. QED  BY <1>1, <2>6, <2>8, MovesOf
  <1> HIDE DEF q, c
  <1>. QED  BY <1>1, <1>3, <1>6, DecisionLives

\* Locust: the config map, the worker job and the master job, in three calls.
LEMMA LocustLives ==
  ASSUME LInv, LocustGetConfigMap \/ LocustGetWorkerJob \/ LocustGetMasterJob
  PROVE  LifeInv'
  <1>0. /\ Backend = "Locust" /\ ByJobs /\ pc \in Reading /\ ReadOnly
        /\ Jobs \subseteq {MasterJob, WorkerJob} /\ WorkerJob \in Jobs /\ ConfigMap \in Objects
    <2>1. Backend = "Locust" /\ pc \in Reading /\ ReadOnly
      BY DEF LocustGetConfigMap, LocustGetWorkerJob, LocustGetMasterJob, Reading, LInv,
             LifeInv, Readers
    <2>. QED  BY <2>1, LocustObjects DEF ByJobs
  <1>1. stored.exists => Objects \subseteq objects
    BY <1>0 DEF LInv, IInv, FinishedInv, Live, CreatedSoFar
  <1>2. CASE NotFound
    BY <1>0, <1>2, BeginningLives DEF NotFound, Fail, Readers, Reads, Reading
  <1>3. CASE LocustGetConfigMap
    <2>1. CASE ReadNext("workerJob")
      <3>1. stored.exists => Began # Errored
        BY <1>3 DEF LocustGetConfigMap, Began, Creating, Errored
      <3>. QED  BY <1>0, <2>1, <3>1, BeginningLives DEF ReadNext, Readers, Reads, Reading
    <2>2. CASE Decide(Finished, "none") /\ ~stored.exists
      BY <1>0, <2>2, DecisionLives DEF Reads, Reading
    <2>. QED  BY <1>0, <1>1, <1>3, <2>1, <2>2 DEF LocustGetConfigMap
  <1>4. CASE LocustGetWorkerJob /\ WorkerJob \in objects
    <2>1. pc = "workerJob" /\ pc' = "masterJob" /\ workerJob' = job[WorkerJob]
          /\ loadTest' = loadTest
      BY <1>4 DEF LocustGetWorkerJob
    <2>2. UNCHANGED <<stored, namespace, objects, job, aged, cache, events, nsCached, fresh,
                      cachedPhase>>
      BY <1>0, ReadingFrame
    <2>3. Readers' /\ (loadTest'.completion = "old" => aged)
      BY <1>0, <2>1 DEF Readers, LInv, LifeInv
    <2>4. ASSUME stored.exists PROVE Earned(loadTest'.phase) /\ ReadSoFar' /\ PhaseMoves'
      <3>1. Earned(loadTest.phase) /\ Earned(cachedPhase) /\ PhaseMoves
        BY <2>4 DEF LInv, LifeInv, Alive, Phases
      <3>2. PhaseMoves'
        BY <2>1, <2>2, <3>1 DEF PhaseMoves, Reads
      <3>3. Success(job[WorkerJob]) => job[WorkerJob].completion # "none"
        BY <1>0 DEF LInv, LifeInv, JobsAreSane
      <3>4. cachedPhase = Finished => Success(job[WorkerJob])
        BY <1>0, <3>1 DEF Earned, AllSucceeded
      <3>5. ReadSoFar'
        BY <1>0, <2>1, <2>2, <3>3, <3>4 DEF ReadSoFar
      <3>. QED  BY <2>1, <3>1, <3>2, <3>5
    <2>. QED  BY <2>1, <2>2, <2>3, <2>4, SyncGoesOn
  <1>5. CASE LocustGetMasterJob /\ MasterJob \in objects
    <2> DEFINE s == job[MasterJob]
               q == LocustPhase(s, workerJob)
    <2>1. pc = "masterJob" /\ Decide(q, s.completion)
      BY <1>5 DEF LocustGetMasterJob
    <2>2. MasterJob \in Jobs
      BY <1>5, JobsHere DEF MasterJob, LInv, IInv
    <2>3. ASSUME stored.exists
          PROVE  Earned(q) /\ (q = cachedPhase \/ <<cachedPhase, q>> \in Moves)
      <3>1. /\ Earned(cachedPhase)
            /\ cachedPhase \in {Blank, Creating, Starting, Running, Finished}
        BY <2>1, <2>3, BeganIs DEF Phase, Reads
      <3>2. /\ Success(workerJob) => /\ Success(job[WorkerJob])
                                     /\ job[WorkerJob].completion # "none"
            /\ workerJob.failed => job[WorkerJob].failed
            /\ cachedPhase = Finished => Success(workerJob)
        BY <2>1, <2>3 DEF LInv, LifeInv, Alive, ReadSoFar
      <3>3. Success(s) => s.completion # "none"
        BY <2>2 DEF LInv, LifeInv, JobsAreSane
      <3>4. /\ q \in {Starting, Running, Finished, Errored}
            /\ q = Finished <=> Success(s) /\ Success(workerJob)
            /\ q = Errored => s.failed \/ workerJob.failed
        BY DEF LocustPhase, Success, Starting, Running, Finished, Errored
      <3>5. Pods = {}
        BY <1>0, PlanIsPlain DEF Plain, Pods
      <3> HIDE DEF q, s
      <3>6. q = Finished => AllSucceeded
        BY <1>0, <1>1, <2>3, <3>2, <3>3, <3>4 DEF AllSucceeded, Jobs, s
      <3>7. q = Errored => \E j \in Jobs : job[j].failed
        BY <1>0, <2>2, <3>2, <3>4 DEF s
      <3>8. Earned(q)
        BY <1>0, <3>4, <3>5, <3>6, <3>7 DEF Earned, Errored, Running, Finished
      <3>9. cachedPhase = Finished => q = Finished
        BY <1>0, <2>2, <3>1, <3>2, <3>4 DEF Earned, AllSucceeded, s
      <3>10. q = cachedPhase \/ <<cachedPhase, q>> \in LocustMoves
        BY <3>1, <3>4, <3>9
        DEF LocustMoves, Started, Outcome, Creating, Starting, Running, Finished, Errored, Blank
      <3>. QED  BY <1>0, <3>8, <3>10, MovesOf
    <2> HIDE DEF q
    <2>. QED  BY <1>0, <2>1, <2>2, <2>3, DecisionLives DEF Reads
  <1>. QED  BY <1>2, <1>3, <1>4, <1>5 DEF LocustGetWorkerJob, LocustGetMasterJob

\* Fake creates one job and nothing else.
LEMMA FakeObjects == Backend = "Fake" => Objects = {Job(0)}
  BY DEF Objects, Plan, FakePlan

\* CreatePodsWithTestdata creates one pod for every worker.
LEMMA JMeterPods ==
  ASSUME Backend = "JMeter"
  PROVE  Pods = {Pod(k - 1) : k \in 1..N}
  <1> DEFINE w == Elements(JMeterWorkers)
  <1>1. Objects = {ConfigMap, Secret} \cup w \cup {Service, Job(0)}
    <2> DEFINE head == <<ConfigMap, Secret>>
               last == <<Service, Job(0)>>
    <2>1. /\ head \in Seq(Object) /\ Elements(head) = {ConfigMap, Secret}
          /\ last \in Seq(Object) /\ Elements(last) = {Service, Job(0)}
      BY ObjectTypes, Tuples, PairElements
    <2>2. JMeterWorkers \in Seq(Object)
      BY JMeterWorkersType
    <2>3. Plan = head \o JMeterWorkers \o last
      BY DEF Plan, JMeterPlan
    <2> HIDE DEF head, last
    <2>4. /\ head \o JMeterWorkers \in Seq(Object)
          /\ Elements(head \o JMeterWorkers) = Elements(head) \cup w
      BY <2>1, <2>2, ConcatProperties, ConcatElements
    <2> DEFINE front == head \o JMeterWorkers
    <2>5. front \in Seq(Object)
      BY <2>4
    <2> HIDE DEF front
    <2>6. Elements(front \o last) = Elements(front) \cup Elements(last)
      BY <2>1, <2>5, ConcatElements
    <2>7. Elements(Plan) = (Elements(head) \cup w) \cup Elements(last)
      BY <2>3, <2>4, <2>6 DEF front
    <2>. QED  BY <2>1, <2>7 DEF Objects, Elements
  <1>2. /\ ConfigMap[1] # "pod" /\ Secret[1] # "pod" /\ Service[1] # "pod" /\ Job(0)[1] # "pod"
        /\ Pvc[1] # "pod" /\ \A i : <<"testdata", i>>[1] # "pod" /\ Pod(i)[1] = "pod"
    BY DEF ConfigMap, Secret, Service, Job, Pvc, Pod
  <1>3. Pods = {o \in w : o[1] = "pod"}
    BY <1>1, <1>2 DEF Pods
  <1>4. N \in Nat /\ N > 0
    BY SizeAssumption
  <1>5. CASE HasCustomData
    <2> DEFINE at(k) == IF k % 3 = 1 THEN <<"testdata", k \div 3>>
                        ELSE IF k % 3 = 2 THEN Pvc ELSE Pod(k \div 3 - 1)
    <2>1. w = {at(k) : k \in 1..(3 * N)}
      BY <1>5 DEF JMeterWorkers, Elements
    <2>2. \A k \in 1..(3 * N) : at(k)[1] = "pod" => k \div 3 \in 1..N /\ at(k) = Pod(k \div 3 - 1)
      <3>1. \A k \in 1..(3 * N) : k % 3 \in {0, 1, 2} /\ (k % 3 = 0 => k \div 3 \in 1..N)
        BY <1>4
      <3>. QED  BY <1>2, <3>1
    <2>3. \A k \in 1..N : 3 * k \in 1..(3 * N) /\ at(3 * k) = Pod(k - 1)
      <3>1. \A k \in 1..N : 3 * k \in 1..(3 * N) /\ (3 * k) % 3 = 0 /\ (3 * k) \div 3 = k
        BY <1>4
      <3>. QED  BY <3>1
    <2> HIDE DEF at, w
    <2>4. {o \in w : o[1] = "pod"} = {Pod(k - 1) : k \in 1..N}
      BY <1>2, <2>1, <2>2, <2>3
    <2>. QED  BY <1>3, <2>4
  <1>6. CASE ~HasCustomData
    <2> DEFINE at(k) == IF k % 2 = 1 THEN <<"testdata", k \div 2>> ELSE Pod(k \div 2 - 1)
    <2>1. w = {at(k) : k \in 1..(2 * N)}
      BY <1>6 DEF JMeterWorkers, Elements
    <2>2. \A k \in 1..(2 * N) : at(k)[1] = "pod" => k \div 2 \in 1..N /\ at(k) = Pod(k \div 2 - 1)
      <3>1. \A k \in 1..(2 * N) : k % 2 # 1 => k \div 2 \in 1..N
        BY <1>4
      <3>. QED  BY <1>2, <3>1
    <2>3. \A k \in 1..N : 2 * k \in 1..(2 * N) /\ at(2 * k) = Pod(k - 1)
      <3>1. \A k \in 1..N : 2 * k \in 1..(2 * N) /\ (2 * k) % 2 # 1 /\ (2 * k) \div 2 = k
        BY <1>4
      <3>. QED  BY <3>1
    <2> HIDE DEF at, w
    <2>4. {o \in w : o[1] = "pod"} = {Pod(k - 1) : k \in 1..N}
      BY <1>2, <2>1, <2>2, <2>3
    <2>. QED  BY <1>3, <2>4
  <1>. QED  BY <1>5, <1>6

\* listPods returns Spec.DistributedPods pods only when none is missing.
LEMMA AllPodsListed ==
  ASSUME Backend = "JMeter", Cardinality(Pods \cap objects) = N
  PROVE  Pods \subseteq objects
  <1> DEFINE f == [k \in 1..N |-> Pod(k - 1)]
  <1>1. Pods = {Pod(k - 1) : k \in 1..N} /\ N \in Nat
    BY JMeterPods, SizeAssumption
  <1>2. f \in Bijection(1..N, Pods)
    <2>1. f \in [1..N -> Pods] /\ \A p \in Pods : \E k \in 1..N : f[k] = p
      BY <1>1
    <2>2. \A k, l \in 1..N : f[k] = f[l] => k = l
      BY <1>1 DEF Pod
    <2>. QED  BY <2>1, <2>2 DEF Bijection, Injection, Surjection, IsInjective
  <1>3. ExistsBijection(1..N, Pods)
    BY <1>2 DEF ExistsBijection
  <1>4. IsFiniteSet(Pods) /\ Cardinality(Pods) = N
    BY <1>1, <1>3, FS_NatBijection, FS_CountingElements
  <1>5. Pods \cap objects = Pods
    BY <1>4, FS_Subset
  <1>. QED  BY <1>5

\* Fake never errs, and says so for good.
LEMMA FakeLives ==
  ASSUME LInv, Backend = "Fake", FakeStatusNamespace \/ FakeReadJob
  PROVE  LifeInv'
  <1>1. pc \in {"status", "job"} /\ ReadOnly
    BY DEF FakeStatusNamespace, FakeReadJob
  <1>2. Jobs \subseteq {Job(0)} /\ Pods = {}
    BY FakeObjects DEF Jobs, Pods, Job
  <1>3. ASSUME NEW q \in {Starting, Running, Finished}, stored.exists
        PROVE  Earned(q) /\ (q = cachedPhase \/ <<cachedPhase, q>> \in Moves)
    <2>1. Earned(cachedPhase) /\ cachedPhase \in Phase
      BY <1>1, <1>3, BeganIs DEF Reads
    <2>2. cachedPhase # Errored
      BY <2>1 DEF Earned
    <2>3. Earned(q)
      BY <1>2 DEF Earned, ByJobs, Starting, Running, Finished, Errored
    <2>4. <<cachedPhase, q>> \in FakeMoves
      BY <2>1, <2>2 DEF FakeMoves, Phase, Blank, Starting, Running, Finished, Errored
    <2>. QED  BY <2>3, <2>4, MovesOf
  <1>4. CASE NotFound
    BY <1>1, <1>4, BeginningLives DEF NotFound, Fail, Readers, Reads
  <1>5. CASE FakeStatusNamespace
    <2>1. stored.exists => Began # Errored
      BY <1>1, BeganIs DEF Earned, Reads
    <2>2. CASE Decide(Finished, "none")
      BY <1>1, <1>3, <2>2, DecisionLives DEF Reads
    <2>3. CASE Decide(Errored, "none") /\ Began = Errored
      BY <1>1, <2>1, <2>3, DecisionLives DEF Reads
    <2>4. CASE ReadNext("job")
      BY <1>1, <2>1, <2>4, BeginningLives DEF ReadNext, Readers, Reads
    <2>. QED  BY <1>5, <2>2, <2>3, <2>4 DEF FakeStatusNamespace
  <1>6. CASE FakeReadJob /\ Job(0) \in objects
    <2> DEFINE q == FakePhase(job[Job(0)])
               c == job[Job(0)].completion
    <2>1. Decide(q, c) /\ q \in {Starting, Running, Finished} /\ Job(0) \in Jobs
      BY <1>6, JobsHere DEF FakeReadJob, FakePhase, LInv, IInv
    <2>2. /\ \E j \in Jobs : c = job[j].completion
          /\ c # "none" => \A j \in Jobs : job[j].completion # "none"
      BY <1>2, <2>1
    <2> HIDE DEF q, c
    <2>. QED  BY <1>1, <1>3, <2>1, <2>2, DecisionLives DEF Reads
  <1>. QED  BY <1>4, <1>5, <1>6 DEF FakeReadJob

\* JMeter: the namespace's cache, then the pods, then the job.  An errored
\* load test is left alone as long as its namespace is there.
LEMMA JMeterLives ==
  ASSUME LInv, Backend = "JMeter", JMeterStatusNamespace \/ JMeterListPods \/ JMeterReadJob
  PROVE  LifeInv'
  <1>1. pc \in {"status", "pods", "job"} /\ ReadOnly
    BY DEF JMeterStatusNamespace, JMeterListPods, JMeterReadJob
  <1>2. ASSUME NEW q \in {Starting, Running, Finished, Errored}, stored.exists,
               cachedPhase # Errored, q = Errored => nsCached,
               q = Running => Pods \subseteq objects
        PROVE  Earned(q) /\ (q = cachedPhase \/ <<cachedPhase, q>> \in Moves)
    <2>1. cachedPhase \in Phase
      BY <1>1, <1>2, BeganIs DEF Reads
    <2>2. Earned(q)
      BY <1>2 DEF Earned, ByJobs
    <2>3. <<cachedPhase, q>> \in JMeterMoves
      BY <1>2, <2>1 DEF JMeterMoves, Phase, Blank, Starting, Running, Finished, Errored
    <2>. QED  BY <2>2, <2>3, MovesOf
  <1>3. stored.exists /\ pc \in {"pods", "job"} =>
          /\ nsCached /\ cachedPhase # Errored /\ loadTest.phase = Began /\ Began # Errored
          /\ pc = "job" => Pods \subseteq objects
    <2>1. stored.exists /\ pc \in {"pods", "job"} =>
            loadTest.phase = Began /\ Began # Errored /\ cachedPhase # Errored
      BY BeganIs DEF Reads, Blank, Errored
    <2>. QED  BY <2>1 DEF LInv, LifeInv, Alive, ReadSoFar
  <1>4. CASE NotFound
    BY <1>1, <1>4, BeginningLives DEF NotFound, Fail, Readers, Reads
  <1>5. CASE JMeterStatusNamespace
    <2>0. pc = "status"
      BY <1>5 DEF JMeterStatusNamespace
    <2>1. CASE ~nsCached /\ Decide(Finished, "none")
      <3>1. stored.exists => cachedPhase # Errored
        BY <2>0, <2>1, BeganIs DEF Earned
      <3>. QED  BY <1>1, <1>2, <2>1, <3>1, DecisionLives DEF Reads, Running, Finished, Errored
    <2>2. CASE Began = Errored /\ Decide(Errored, "none")
      <3>1. stored.exists => cachedPhase = Errored /\ Earned(Errored)
        BY <2>0, <2>2, BeganIs DEF Creating, Errored
      <3>. QED  BY <1>1, <2>2, <3>1, DecisionLives DEF Reads
    <2>3. CASE nsCached /\ Began # Errored /\ ReadNext("pods")
      BY <1>1, <2>3, BeginningLives DEF ReadNext, Readers, Reads
    <2>. QED  BY <1>5, <2>1, <2>2, <2>3 DEF JMeterStatusNamespace
  <1>6. CASE JMeterListPods
    <2>0. pc = "pods"
      BY <1>6 DEF JMeterListPods
    <2>1. CASE Decide(loadTest.phase, "none")
      <3>1. stored.exists => /\ Earned(loadTest.phase)
                             /\ \/ loadTest.phase = cachedPhase
                                \/ <<cachedPhase, loadTest.phase>> \in Moves
        BY <1>3, <2>0, BeganIs DEF Reads
      <3>. QED  BY <1>1, <2>1, <3>1, DecisionLives DEF Reads
    <2>2. CASE Cardinality(Pods \cap objects) = N /\ ReadNext("job")
      <3>1. Pods \subseteq objects
        BY <2>2, AllPodsListed
      <3>. QED  BY <1>1, <1>3, <2>0, <2>2, <3>1, BeginningLives DEF ReadNext, Readers, Reads
    <2>3. CASE Decide(Finished, "none")
      BY <1>1, <1>2, <1>3, <2>0, <2>3, DecisionLives DEF Reads, Running, Finished, Errored
    <2>4. ASSUME NEW s, Decide(WorkerPodPhase(s), "none") PROVE LifeInv'
      <3>1. WorkerPodPhase(s) \in {Starting, Errored}
        BY DEF WorkerPodPhase
      <3>. QED  BY <1>1, <1>2, <1>3, <2>0, <2>4, <3>1, DecisionLives
                DEF Reads, Running, Starting, Errored
    <2>. QED  BY <1>6, <2>1, <2>2, <2>3, <2>4 DEF JMeterListPods
  <1>7. CASE JMeterReadJob /\ Job(0) \in objects
    <2> DEFINE q == JMeterPhase(job[Job(0)])
               c == job[Job(0)].completion
    <2>1. /\ Decide(q, c) /\ q \in {Starting, Running, Finished} /\ Job(0) \in Jobs
          /\ pc = "job"
      BY <1>7, JobsHere DEF JMeterReadJob, JMeterPhase, LInv, IInv
    <2>2. \E j \in Jobs : c = job[j].completion
      BY <2>1
    <2>3. stored.exists => Earned(q) /\ (q = cachedPhase \/ <<cachedPhase, q>> \in Moves)
      BY <1>2, <1>3, <2>1 DEF Starting, Running, Finished, Errored
    <2> HIDE DEF q, c
    <2>. QED  BY <1>1, <2>1, <2>2, <2>3, DecisionLives DEF Reads
  <1>. QED  BY <1>4, <1>5, <1>6, <1>7 DEF JMeterReadJob
-----------------------------------------------------------------------------
(***************************************************************************)
(* The end of a sync.                                                      *)
(***************************************************************************)

\* A sync that has returned has no copy left.
LEMMA ReturnLives ==
  ASSUME LInv, Return, stored'.exists => stored.exists,
         UNCHANGED <<namespace, objects, job, aged>>,
         stored.exists => /\ Backend = "JMeter" /\ nsCached => nsCached'
                          /\ nsCached' => namespace = "active"
                          /\ {stored'.phase, cache'.phase}
                               \cup {events'[i].phase : i \in DOMAIN events'}
                               \subseteq Phases \cup {Blank}
  PROVE  LifeInv'
  <1>1. /\ pc' = "idle" /\ cachedPhase' = Blank
        /\ loadTest'.phase = Blank /\ loadTest'.completion = "none"
    BY DEF Return, NoCopy
  <1>2. NamespaceKept' /\ FreshIsStored' /\ Readers' /\ JobsAreSane'
        /\ (loadTest.completion = "old" => aged)'
    BY <1>1, SaneJobsStay DEF LInv, LifeInv, NamespaceKept, FreshIsStored, Readers
  <1>3. ASSUME stored'.exists PROVE Alive'
    <2>1. Grows
      BY <1>3 DEF Grows, JobGrows
    <2>2. Phases' \subseteq Phases \cup {Blank}
      BY <1>1, <1>3 DEF Phases
    <2>3. \A p \in Phases' : Earned(p)'
      BY <1>3, <2>1, <2>2, EarnedForFree, AllEarned DEF LInv, LifeInv, Alive
    <2>4. ReadSoFar' /\ PhaseMoves'
      BY <1>1 DEF ReadSoFar, PhaseMoves, Reads
    <2>. QED  BY <1>3, <2>3, <2>4 DEF Alive
  <1>. QED  BY <1>2, <1>3 DEF LifeInv

LEMMA EndsLive ==
  ASSUME LInv, CleanUpDeletes \/ UpdateStatus \/ UpdateLost \/ Restart \/ K6Panic
  PROVE  LifeInv'
  <1>1. events \in Seq(Version)
    BY DEF LInv, IInv, TypeInv, TypeOK, QueueTypeOK
  <1>2. stored.exists /\ nsCached => namespace = "active"
    BY DEF LInv, LifeInv, Alive
  <1>3. CASE CleanUpDeletes
    <2>1. /\ UNCHANGED <<namespace, objects, job, aged, loadTest>> /\ pc' = "update"
          /\ stored' = Absent \/ (UNCHANGED stored /\ ~stored.exists)
      BY <1>3 DEF CleanUpDeletes, Write, clusterVars, syncVars
    <2>2. ~stored'.exists
      BY <2>1 DEF Absent
    <2>. QED  BY <2>1, <2>2, SaneJobsStay
              DEF LInv, LifeInv, NamespaceKept, FreshIsStored, Readers
  <1>4. CASE UpdateStatus
    <2> DEFINE v == [exists |-> TRUE, phase |-> loadTest.phase, ns |-> loadTest.ns]
    <2>1. /\ UNCHANGED <<namespace, objects, job, aged, cache, nsCached>> /\ Return
          /\ \/ stored.exists /\ stored' = v /\ events' = Append(events, v)
             \/ UNCHANGED <<stored, events>>
      BY <1>4 DEF UpdateStatus, EndSync, Write, clusterVars
    <2>2. v \in Version /\ v.phase = loadTest.phase
      BY DEF LInv, IInv, TypeInv, TypeOK, SyncTypeOK, Copy, Version
    <2> HIDE DEF v
    <2>3. CASE stored.exists /\ stored' = v /\ events' = Append(events, v)
      <3>2. \A i \in DOMAIN events' : \/ events'[i] = v
                                      \/ i \in DOMAIN events /\ events'[i] = events[i]
        BY <1>1, <2>2, <2>3, AppendProperties, LenProperties
      <3>3. {stored'.phase, cache'.phase} \cup {events'[i].phase : i \in DOMAIN events'}
              \subseteq Phases
        BY <2>1, <2>2, <2>3, <3>2 DEF Phases
      <3>. QED  BY <1>2, <2>1, <2>3, <3>3, ReturnLives
    <2>4. CASE UNCHANGED <<stored, events>>
      <3>2. {stored'.phase, cache'.phase} \cup {events'[i].phase : i \in DOMAIN events'}
              \subseteq Phases
        BY <2>1, <2>4 DEF Phases
      <3>. QED  BY <1>2, <2>1, <2>4, <3>2, ReturnLives
    <2>. QED  BY <2>1, <2>3, <2>4
  <1>5. CASE UpdateLost
    <2>1. UNCHANGED <<stored, namespace, objects, job, aged, cache, events, nsCached>> /\ Return
      BY <1>5 DEF UpdateLost, EndSync, clusterVars, informerVars
    <2>3. {stored'.phase, cache'.phase} \cup {events'[i].phase : i \in DOMAIN events'}
            \subseteq Phases
      BY <2>1 DEF Phases
    <2>. QED  BY <1>2, <2>1, <2>3, ReturnLives
  <1>6. CASE Restart \/ K6Panic
    <2>1. /\ UNCHANGED <<stored, namespace, objects, job, aged>> /\ Return
          /\ cache' = stored /\ events' = <<>> /\ nsCached' = (namespace # "none")
      BY <1>6 DEF Restart, K6Panic, Restarted, clusterVars
    <2>3. nsCached' <=> namespace # "none"
      BY <2>1, Zenon
    <2>4. stored.exists => namespace # "terminating"
      BY DEF LInv, LifeInv, NamespaceKept
    <2>5. namespace \in {"none", "active", "terminating"}
      BY DEF LInv, IInv, TypeInv, TypeOK, ServerTypeOK
    <2>6. {stored'.phase, cache'.phase} \cup {events'[i].phase : i \in DOMAIN events'}
            \subseteq Phases
      BY <2>1 DEF Phases
    <2>. QED  BY <1>2, <2>1, <2>3, <2>4, <2>5, <2>6, ReturnLives
  <1>. QED  BY <1>3, <1>4, <1>5, <1>6

\* A sync that starts needs the lister's copy to be what it seems.
LEMMA LifeNext ==
  ASSUME LInv, LastVersion \/ pc # "idle", [Next]_vars
  PROVE  LInv'
  <1>1. Next => LifeInv'
    <2> SUFFICES ASSUME Next PROVE LifeInv'
      OBVIOUS
    <2>1. CASE Informers \/ Environment \/ GarbageCollector
      BY <2>1, InformersLive, EnvironmentLives, CollectorLives
    <2>2. CASE SyncStatus
      <3>1. FakeStatusNamespace \/ FakeReadJob => Backend = "Fake"
        BY DEF FakeStatusNamespace, FakeReadJob
      <3>2. JMeterStatusNamespace \/ JMeterListPods \/ JMeterReadJob => Backend = "JMeter"
        BY DEF JMeterStatusNamespace, JMeterListPods, JMeterReadJob, LInv, LifeInv, Readers
      <3>. QED  BY <2>2, <3>1, <3>2, SettledLives, GhzLives, K6Lives, LocustLives, FakeLives,
                   JMeterLives, EndsLive DEF SyncStatus
    <2>3. CASE Worker /\ ~SyncStatus
      <3>1. SyncMissing \/ SyncStart => pc = "idle"
        BY DEF SyncMissing, SyncStart, TakeCopy
      <3>2. SyncMissing \/ SyncStart => FullInv
        BY <3>1 DEF FullInv
      <3>. QED  BY <2>3, <3>2, CallsLive, StartLives, EndsLive DEF Worker
    <2>. QED  BY <2>1, <2>2, <2>3, EndsLive DEF Next
  <1>2. UNCHANGED vars => LifeInv'
    <2> SUFFICES ASSUME UNCHANGED vars PROVE LifeInv'
      OBVIOUS
    <2>1. UNCHANGED <<stored, namespace, objects, job, aged, cache, events, nsCached, pc,
                      loadTest, cachedPhase, fresh, workerJob>>
      BY DEF vars, clusterVars, informerVars, syncVars
    <2>2. Grows /\ Phases' = Phases
      BY <2>1 DEF Grows, JobGrows, Phases
    <2>3. ASSUME stored.exists PROVE Alive'
      <3>1. \A p \in Phases' : Earned(p)'
        BY <2>2, <2>3, EarnedStays DEF LInv, LifeInv, Alive
      <3>2. ReadSoFar' /\ PhaseMoves'
        BY <2>1, <2>3 DEF LInv, LifeInv, Alive, ReadSoFar, PhaseMoves
      <3>. QED  BY <2>1, <2>3, <3>1, <3>2 DEF LInv, LifeInv, Alive
    <2>. QED  BY <2>1, <2>3, SaneJobsStay
              DEF LInv, LifeInv, NamespaceKept, FreshIsStored, Readers
  <1>. QED  BY <1>1, <1>2, FinishedNext DEF LInv

\* The last version on its way to the lister is the stored one.
LEMMA VersionNext ==
  ASSUME TypeInv, LastVersion, [Next]_vars
  PROVE  LastVersion'
  <1>1. events \in Seq(Version) /\ cache \in Version
    BY DEF TypeInv, TypeOK, QueueTypeOK
  <1>2. CASE Deliver
    <2>1. UNCHANGED stored /\ events # <<>> /\ cache' = Head(events) /\ events' = Tail(events)
      BY <1>2 DEF Deliver
    <2>2. Head(events) = events[1] /\ Len(events) \in Nat \ {0}
      BY <1>1, <2>1, LenProperties, EmptySeq
    <2>3. /\ Len(events') = Len(events) - 1 /\ events' \in Seq(Version)
          /\ \A i \in DOMAIN events' : events'[i] = events[i + 1]
          /\ DOMAIN events' = 1..Len(events')
      BY <1>1, <2>1, <2>2, HeadTailProperties, LenProperties
    <2>4. stored = events[Len(events)]
      BY <2>1 DEF LastVersion
    <2>5. CASE Len(events) = 1
      <3>1. events' = <<>>
        BY <2>3, <2>5, EmptySeq
      <3>. QED  BY <2>1, <2>2, <2>4, <2>5, <3>1 DEF LastVersion
    <2>6. CASE Len(events) # 1
      <3>1. Len(events') \in DOMAIN events' /\ Len(events') + 1 = Len(events)
            /\ events' # <<>>
        BY <2>2, <2>3, <2>6
      <3>2. events'[Len(events')] = events[Len(events)]
        BY <2>3, <3>1
      <3>. QED  BY <2>1, <2>4, <3>1, <3>2 DEF LastVersion
    <2>. QED  BY <2>5, <2>6
  <1>3. ASSUME NEW v \in Version, Write(v) PROVE LastVersion'
    BY <1>1, <1>3, AppendProperties DEF Write, LastVersion
  <1>4. CASE UserDeletes \/ CleanUpDeletes \/ UpdateStatus
    <2>1. [exists |-> TRUE, phase |-> loadTest.phase, ns |-> loadTest.ns] \in Version
      BY DEF TypeInv, TypeOK, SyncTypeOK, Copy, Version
    <2>2. \/ \E v \in Version : Write(v)
          \/ UNCHANGED <<stored, events, cache>>
      BY <1>4, <2>1, InitialValues DEF UserDeletes, CleanUpDeletes, UpdateStatus
    <2>. QED  BY <1>3, <2>2 DEF LastVersion
  <1>5. CASE Restart \/ K6Panic
    BY <1>5 DEF Restart, K6Panic, Restarted, LastVersion
  <1>6. ASSUME UNCHANGED <<stored, events, cache>> PROVE LastVersion'
    BY <1>6 DEF LastVersion
  <1>7. CASE Informers /\ ~Deliver
    BY <1>6, <1>7 DEF Informers, Resync, HandleObject, RetryFires, DeliverNamespace, informerVars
  <1>8. CASE Environment /\ ~UserDeletes
    BY <1>6, <1>8 DEF Environment, JobStarts, JobPodSucceeds, JobCompletes, JobPodFails,
       JobGivesUp, CompletionAges, SetJob, PodChanges, LoadTestAges, PodsAge, ClusterStep,
       informerVars
  <1>9. CASE GarbageCollector
    BY <1>6, <1>9 DEF GarbageCollector, GCNamespace, GCOwned, NamespaceGone, Collect,
       ClusterStep, informerVars
  <1>10. CASE SyncStatus /\ ~K6Panic
    BY <1>6, <1>10 DEF SyncStatus, StatusSettled, GhzReadJob, K6ListJobs, LocustGetConfigMap,
       LocustGetWorkerJob, LocustGetMasterJob, FakeStatusNamespace, FakeReadJob,
       JMeterStatusNamespace, JMeterListPods, JMeterReadJob, ReadOnly, NothingElse, informerVars
  <1>11. CASE Worker /\ ~SyncStatus /\ ~CleanUpDeletes /\ ~UpdateStatus
    BY <1>6, <1>11 DEF Worker, SyncMissing, SyncStart, TakeCopy, CallFails, ListNamespaces,
       CreateNamespace, FakeGetNamespace, CheckGuard, CreateObject, CreateRefused,
       JMeterWaitPod, JMeterWaitPvc, Waited, NothingElse, NoCleanUp, UpdateLost, informerVars
  <1>12. CASE UNCHANGED vars
    BY <1>6, <1>12 DEF vars, informerVars
  <1>. QED  BY <1>2, <1>4, <1>5, <1>7, <1>8, <1>9, <1>10, <1>11, <1>12 DEF Next, Worker
-----------------------------------------------------------------------------
(***************************************************************************)
(* The theorems.                                                           *)
(***************************************************************************)

LEMMA FullInit == Init => FullInv
  <1>1. Init => LastVersion
    BY DEF Init, LastVersion
  <1>. QED  BY <1>1, TypeInit, FinishedInit, LifeInit DEF FullInv, LInv, IInv

LEMMA LifeCorrect == Spec => []LInv
  <1>1. FullInv /\ [Next]_vars => FullInv'
    BY LifeNext, VersionNext DEF FullInv, LInv, IInv
  <1>2. FullInv => LInv
    BY DEF FullInv
  <1>. QED  BY <1>1, <1>2, FullInit, PTL DEF Spec

\* The load test changes in the API server in two ways: it is deleted, or
\* updateLoadTestStatus replaces the phase that is stored by one that may
\* follow it.
LEMMA StoredMoves ==
  ASSUME LInv, [Next]_vars
  PROVE  \/ UNCHANGED stored
         \/ stored.exists /\ stored' = Absent
         \/ /\ stored.exists /\ stored'.exists
            /\ <<stored.phase, stored'.phase>> \in Moves
  <1>1. CASE Informers \/ GarbageCollector \/ Restart \/ UNCHANGED vars
    BY <1>1 DEF Informers, Deliver, Resync, HandleObject, RetryFires, DeliverNamespace,
       GarbageCollector, GCNamespace, GCOwned, NamespaceGone, Collect, ClusterStep,
       Restart, Restarted, vars
  <1>2. CASE Environment
    BY <1>2 DEF Environment, JobStarts, JobPodSucceeds, JobCompletes, JobPodFails, JobGivesUp,
       CompletionAges, SetJob, PodChanges, LoadTestAges, PodsAge, ClusterStep, UserDeletes, Write
  <1>3. CASE Worker
    <2>1. CASE CleanUpDeletes
      BY <2>1 DEF CleanUpDeletes, Write
    <2>2. CASE UpdateStatus
      <3>1. CASE UNCHANGED stored
        BY <3>1
      <3>2. CASE ~UNCHANGED stored
        <4>1. /\ pc = "update" /\ loadTest.phase # cachedPhase /\ stored.exists /\ fresh
              /\ stored' = [exists |-> TRUE, phase |-> loadTest.phase, ns |-> loadTest.ns]
          BY <2>2, <3>2 DEF UpdateStatus, Write
        <4>2. cachedPhase = stored.phase
          BY <4>1 DEF LInv, LifeInv, FreshIsStored
        <4>3. <<cachedPhase, loadTest.phase>> \in Moves
          BY <4>1 DEF LInv, LifeInv, Alive, PhaseMoves
        <4>. QED  BY <4>1, <4>2, <4>3
      <3>. QED  BY <3>1, <3>2
    <2>3. CASE SyncMissing \/ SyncStart \/ CallFails \/ ListNamespaces \/ CreateNamespace
               \/ FakeGetNamespace \/ CheckGuard \/ CreateObject \/ CreateRefused
               \/ JMeterWaitPod \/ JMeterWaitPvc \/ NoCleanUp \/ UpdateLost
      BY <2>3 DEF SyncMissing, SyncStart, TakeCopy, CallFails, ListNamespaces, CreateNamespace,
         FakeGetNamespace, CheckGuard, CreateObject, CreateRefused, JMeterWaitPod,
         JMeterWaitPvc, Waited, NothingElse, NoCleanUp, UpdateLost
    <2>4. CASE SyncStatus
      BY <2>4 DEF SyncStatus, StatusSettled, GhzReadJob, K6ListJobs, K6Panic, Restarted,
         LocustGetConfigMap, LocustGetWorkerJob, LocustGetMasterJob, FakeStatusNamespace,
         FakeReadJob, JMeterStatusNamespace, JMeterListPods, JMeterReadJob, ReadOnly,
         NothingElse
    <2>. QED  BY <1>3, <2>1, <2>2, <2>3, <2>4 DEF Worker
  <1>. QED  BY <1>1, <1>2, <1>3 DEF Next

\* For every backend a client sees only the moves that backend permits, one
\* after the other, until the load test is gone for good.
THEOREM LifecycleIsImplemented == Spec => ImplementsLifecycle
  <1> DEFINE seen == IF stored.exists THEN stored.phase ELSE "gone"
  <1>1. Init => Lifecycle!Init
    <2>1. Init => stored = Created
      BY DEF Init
    <2>2. Created.exists /\ Created.phase = Blank
      BY DEF Created
    <2>. QED  BY <2>1, <2>2 DEF Lifecycle!Init, Lifecycle!Blank, Blank
  <1>2. LInv /\ [Next]_vars => [Lifecycle!Next]_seen
    <2>. SUFFICES ASSUME LInv, [Next]_vars PROVE [Lifecycle!Next]_seen
      OBVIOUS
    <2>1. CASE UNCHANGED stored
      BY <2>1
    <2>2. CASE stored.exists /\ stored' = Absent
      <3>1. stored.phase # "gone"
        BY DEF LInv, IInv, TypeInv, TypeOK, ServerTypeOK, Version, Phase, Blank, Creating,
               Starting, Running, Finished, Errored
      <3>. QED  BY <2>2, <3>1 DEF Absent, Lifecycle!Next, Lifecycle!Delete, Lifecycle!Gone
    <2>3. CASE stored.exists /\ stored'.exists /\ <<stored.phase, stored'.phase>> \in Moves
      <3>1. Lifecycle!Phase = Phase
        BY DEF Lifecycle!Phase, Phase, Lifecycle!Blank, Blank, Lifecycle!Creating, Creating,
           Lifecycle!Starting, Starting, Lifecycle!Running, Running, Lifecycle!Finished,
           Finished, Lifecycle!Errored, Errored
      <3>. QED  BY <2>3, <3>1, MovesAtTheEnds DEF Lifecycle!Next, Lifecycle!Move
    <2>. QED  BY <2>1, <2>2, <2>3, StoredMoves
  <1>. QED  BY <1>1, <1>2, LifeCorrect, PTL DEF Spec, ImplementsLifecycle, Lifecycle!Spec

\* For every backend an errored load test stays errored until it is deleted:
\* no later reading, and no write from an older copy, replaces the phase.
THEOREM ErroredIsFinal == Spec => ErroredSticks
  <1>1. LInv /\ [Next]_vars
          => [stored.phase = Errored /\ stored'.exists => stored'.phase = Errored]_vars
    <2>. SUFFICES ASSUME LInv, [Next]_vars, stored.phase = Errored, stored'.exists
                  PROVE  stored'.phase = Errored
      OBVIOUS
    <2>. QED  BY StoredMoves, MovesAtTheEnds DEF Absent
  <1>. QED  BY <1>1, LifeCorrect, PTL DEF Spec, ErroredSticks

\* For every backend and every number of workers, a load test that lacks a
\* worker pod is never stored as running.
THEOREM RunningIsComplete == Spec => []RunningHasAllWorkers
  <1>1. LInv => RunningHasAllWorkers
    BY DEF LInv, LifeInv, Alive, Phases, Earned, RunningHasAllWorkers
  <1>. QED  BY <1>1, LifeCorrect, PTL

\* When the clean-up of a load test that does not run on JMeter is about to
\* delete it, it is old, and its jobs are all complete or one has failed.
\* JMeter marks a load test errored for an unhealthy pod, before any job
\* fails, and deletes it for that.
THEOREM CleanUpIsRight == Spec => [](Backend # "JMeter" => CleanUpIsJustified)
  <1>1. LInv => (Backend # "JMeter" => CleanUpIsJustified)
    <2>. SUFFICES ASSUME LInv, Backend # "JMeter", CleanUpDue, stored.exists, pc = "cleanup"
                  PROVE  /\ aged
                         /\ \/ \A j \in Jobs : job[j].completion # "none"
                            \/ \E j \in Jobs : job[j].failed
      BY DEF CleanUpIsJustified
    <2>1. ByJobs \/ Backend = "Fake"
      BY BackendAssumption DEF ByJobs
    <2>2. \/ loadTest.completion = "old" /\ loadTest.phase = Finished
          \/ loadTest.phase = Errored
      BY DEF CleanUpDue, LifeTimeExceeded
    <2>3. aged
      BY DEF CleanUpDue, LifeTimeExceeded, LInv, LifeInv
    <2>4. Earned(loadTest.phase) /\ ReadSoFar
      BY DEF LInv, LifeInv, Alive, Phases
    <2>5. CASE loadTest.completion = "old" /\ loadTest.phase = Finished
      BY <2>1, <2>3, <2>4, <2>5 DEF Earned, ReadSoFar, AllSucceeded
    <2>6. CASE loadTest.phase = Errored
      BY <2>1, <2>3, <2>4, <2>6 DEF Earned
    <2>. QED  BY <2>2, <2>5, <2>6
  <1>. QED  BY <1>1, LifeCorrect, PTL

-----------------------------------------------------------------------------
(***************************************************************************)
(* What a controller owes to another one that runs at the same time, and   *)
(* what it keeps as long as the other one does its part (RollingUpdate).   *)
(***************************************************************************)

\* The other one's writes reach this one by its watch only; the copy it works
\* on is no longer the stored version.
Sees ==
  /\ UNCHANGED <<cache, nsCached, queueVars, pc, loadTest, cachedPhase, next, waits,
                 workerJob, syncOk>>
  /\ events' \in {events, Append(events, stored')}
  /\ fresh' = (fresh /\ stored' = stored)

\* The Create of the namespace reports AlreadyExists.
CreateGivesUp ==
  /\ pc = "createNamespace" /\ Fail
  /\ UNCHANGED <<stored, clusterVars, informerVars, queueVars, loadTest, cachedPhase,
                 fresh, next, waits, workerJob, faults>>

\* The lister is not asked any more: the last sync starts, or the process ends.
ListerGone ==
  /\ cache' = Absent /\ events' = <<>> /\ nsCached' = FALSE /\ dirty' = FALSE /\ retry' = FALSE
  /\ UNCHANGED <<stored, clusterVars, faults>>

\* Nobody brings a load test back or takes from a live one what exists in its
\* namespace or what its jobs have shown.
Progress ==
  /\ stored'.exists => stored.exists
  /\ stored.exists => /\ objects \subseteq objects'
                      /\ namespace = "active" => namespace' = "active"
                      /\ \A j \in Jobs : /\ JobGrows(job[j], job'[j])
                                         /\ Terminal(job[j]) => Terminal(job'[j])
  /\ aged => aged'

\* What the invariant says of the API server alone.  (JMeter is left out: what
\* it has seen, it has seen in a cache of its own.)
Common ==
  /\ NamespaceKept /\ JobsAreSane /\ (ByJobs => SuccessIsFinal)
  /\ stored.exists =>
       /\ Earned(stored.phase)
       /\ ByJobs => /\ Guard \cap objects # {} => Objects \subseteq objects
                    /\ ~AllJobsDone => stored.phase # Finished

LEMMA CommonHolds == LInv => Common
  BY DEF LInv, LifeInv, Alive, Phases, IInv, FinishedInv, Live, CreatedSoFar,
         NobodySaysFinished, Common

\* The types, while the other one keeps those of the API server.
LEMMA OtherType ==
  ASSUME TypeInv, Sees, ServerTypeOK', faults' \in 0..MaxFaults
  PROVE  TypeInv'
  <1>1. stored' \in Version /\ events \in Seq(Version)
    BY DEF ServerTypeOK, TypeInv, TypeOK, QueueTypeOK
  <1>2. events' \in Seq(Version)
    BY <1>1, AppendProperties DEF Sees
  <1>3. QueueTypeOK'
    BY <1>2 DEF Sees, TypeInv, TypeOK, QueueTypeOK, queueVars
  <1>4. fresh' \in BOOLEAN
    BY Zenon DEF Sees
  <1>5. SyncTypeOK' /\ Waiting'
    BY <1>4 DEF Sees, TypeInv, TypeOK, SyncTypeOK, Waiting, Expired
  <1>. QED  BY <1>3, <1>5 DEF TypeInv, TypeOK

\* The types, when it gives up, takes its last copy or ends.
LEMMA LastStepsType ==
  ASSUME TypeInv, CreateGivesUp \/ (ListerGone /\ (TakeCopy \/ Return))
  PROVE  TypeInv'
  <1>. USE DEF TypeInv, TypeOK
  <1>1. CASE CreateGivesUp
    <2>1. ServerTypeOK' /\ QueueTypeOK'
      BY <1>1 DEF CreateGivesUp, ServerTypeOK, QueueTypeOK, clusterVars, informerVars, queueVars
    <2>2. SyncTypeOK' /\ Waiting'
      BY <1>1 DEF CreateGivesUp, Fail, SyncTypeOK, Waiting, PCs
    <2>. QED  BY <2>1, <2>2
  <1>2. CASE ListerGone
    <2>1. ServerTypeOK' /\ faults' \in 0..MaxFaults
      BY <1>2 DEF ListerGone, ServerTypeOK, SyncTypeOK, clusterVars
    <2>2. QueueTypeOK'
      <3>1. cache' = Absent /\ events' = <<>> /\ nsCached' = FALSE
            /\ dirty' = FALSE /\ retry' = FALSE
        BY <1>2 DEF ListerGone
      <3>2. events' \in Seq(Version)
        BY <3>1
      <3>. QED  BY <3>1, <3>2, InitialValues DEF QueueTypeOK
    <2>3. CASE Return
      BY <2>1, <2>2, <2>3, ReturnType
    <2>4. CASE TakeCopy
      <3>1. loadTest' \in Copy /\ cachedPhase' \in Phase
        BY <2>4 DEF TakeCopy, QueueTypeOK, Version, Copy, CompletionTime
      <3>2. fresh' \in BOOLEAN
        BY <2>4, Zenon DEF TakeCopy, CarriesStoredVersion
      <3>3. pc' \in PCs \ {"waitPvc", "waitPod"}
        BY <2>4 DEF TakeCopy, EnterSync, PCs
      <3>4. SyncTypeOK' /\ Waiting'
        BY <2>1, <2>4, <3>1, <3>2, <3>3 DEF TakeCopy, SyncTypeOK, Waiting
      <3>. QED  BY <2>1, <2>2, <3>4
    <2>. QED  BY <1>2, <2>3, <2>4, <1>1
  <1>. QED  BY <1>1, <1>2

\* Every step of a controller, of the cluster and of the clock is progress.
LEMMA StepsProgress ==
  ASSUME TypeInv, NamespaceKept, [Next]_vars
  PROVE  Progress
  <1>0. \A j \in Jobs : job[j] \in JobStatus
    BY DEF TypeInv, TypeOK, ServerTypeOK
  <1>1. ASSUME NEW j \in Jobs, NEW s, SetJob(j, s), JobGrows(job[j], s),
               Terminal(job[j]) => Terminal(s)
        PROVE  Progress
    <2>1. UNCHANGED <<stored, namespace, objects, aged>> /\ job' = [job EXCEPT ![j] = s]
      BY <1>1 DEF SetJob, ClusterStep
    <2>2. job'[j] = s /\ \A i \in Jobs : i # j => job'[i] = job[i]
      BY <2>1 DEF TypeInv, TypeOK, ServerTypeOK
    <2>. QED  BY <1>1, <2>1, <2>2 DEF Progress, JobGrows
  <1>2. ASSUME UNCHANGED job, stored'.exists => stored.exists, aged => aged',
               objects \subseteq objects', namespace' \in {namespace, "active"}
        PROVE  Progress
    BY <1>2 DEF Progress, JobGrows
  <1>3. ASSUME NEW j \in Jobs,
               \/ JobStarts(j) \/ JobPodSucceeds(j) \/ JobCompletes(j)
               \/ JobPodFails(j) \/ JobGivesUp(j) \/ CompletionAges(j)
        PROVE  Progress
    <2>1. ASSUME JobStarts(j) PROVE Progress
      <3> DEFINE s == [job[j] EXCEPT !.active = TRUE]
      <3>1. SetJob(j, s) /\ ~Terminal(job[j])
        BY <2>1 DEF JobStarts, LiveJob
      <3>2. /\ s.active /\ s.succeeded = job[j].succeeded /\ s.failed = job[j].failed
            /\ s.completion = job[j].completion
        BY <1>0 DEF JobStatus
      <3> HIDE DEF s
      <3>. QED  BY <1>1, <3>1, <3>2 DEF JobGrows, Begun, Success, Terminal
    <2>2. ASSUME JobPodSucceeds(j) PROVE Progress
      <3> DEFINE s == [job[j] EXCEPT !.succeeded = TRUE]
      <3>1. SetJob(j, s) /\ ~Terminal(job[j])
        BY <2>2 DEF JobPodSucceeds, LiveJob
      <3>2. /\ s.succeeded /\ s.failed = job[j].failed /\ s.completion = job[j].completion
        BY <1>0 DEF JobStatus
      <3> HIDE DEF s
      <3>. QED  BY <1>1, <3>1, <3>2 DEF JobGrows, Begun, Success, Terminal
    <2>3. ASSUME JobCompletes(j) PROVE Progress
      <3> DEFINE s == [job[j] EXCEPT !.active = FALSE, !.succeeded = TRUE,
                                     !.completion = "recent"]
      <3>1. SetJob(j, s) /\ ~Terminal(job[j])
        BY <2>3 DEF JobCompletes, LiveJob
      <3>2. s.succeeded /\ s.failed = job[j].failed /\ s.completion = "recent"
        BY <1>0 DEF JobStatus
      <3> HIDE DEF s
      <3>. QED  BY <1>1, <3>1, <3>2 DEF JobGrows, Begun, Success, Terminal
    <2>4. ASSUME JobPodFails(j) PROVE Progress
      <3>1. PICK others \in BOOLEAN :
              SetJob(j, [job[j] EXCEPT !.failed = TRUE, !.active = others,
                                       !.gaveUp = ~RetriesPods /\ ~others])
        BY <2>4 DEF JobPodFails
      <3> DEFINE g == ~RetriesPods /\ ~others
                 s == [job[j] EXCEPT !.failed = TRUE, !.active = others, !.gaveUp = g]
      <3>2. SetJob(j, s) /\ ~Terminal(job[j])
        BY <2>4, <3>1 DEF JobPodFails, LiveJob
      <3>3. s.failed /\ s.completion = job[j].completion
        <4> HIDE DEF g
        <4>. QED  BY <1>0 DEF JobStatus
      <3> HIDE DEF s
      <3>. QED  BY <1>1, <3>2, <3>3 DEF JobGrows, Begun, Success, Terminal
    <2>5. ASSUME JobGivesUp(j) PROVE Progress
      <3> DEFINE s == [job[j] EXCEPT !.gaveUp = TRUE, !.active = FALSE]
      <3>1. SetJob(j, s) /\ ~Terminal(job[j]) /\ job[j].failed
        BY <2>5 DEF JobGivesUp, LiveJob
      <3>2. s.failed = job[j].failed /\ s.completion = job[j].completion
        BY <1>0 DEF JobStatus
      <3> HIDE DEF s
      <3>. QED  BY <1>1, <3>1, <3>2 DEF JobGrows, Begun, Success, Terminal
    <2>6. ASSUME CompletionAges(j) PROVE Progress
      <3> DEFINE s == [job[j] EXCEPT !.completion = "old"]
      <3>1. SetJob(j, s)
        BY <2>6 DEF CompletionAges
      <3>2. /\ s.active = job[j].active /\ s.succeeded = job[j].succeeded
            /\ s.failed = job[j].failed /\ s.gaveUp = job[j].gaveUp /\ s.completion = "old"
        BY <1>0 DEF JobStatus
      <3> HIDE DEF s
      <3>. QED  BY <1>1, <3>1, <3>2 DEF JobGrows, Begun, Success, Terminal
    <2>. QED  BY <1>3, <2>1, <2>2, <2>3, <2>4, <2>5, <2>6
  <1>4. CASE LoadTestAges \/ PodsAge \/ UserDeletes \/ \E p \in Pods : PodChanges(p)
    BY <1>2, <1>4 DEF LoadTestAges, PodsAge, UserDeletes, Write, Absent, PodChanges,
       ClusterStep, clusterVars
  <1>5. CASE GarbageCollector
    <2>1. ~stored.exists /\ UNCHANGED <<stored, aged>>
      BY <1>5 DEF GarbageCollector, GCNamespace, GCOwned, NamespaceGone, Collect, ClusterStep,
         NamespaceKept
    <2>. QED  BY <2>1 DEF Progress
  <1>6. CASE Informers \/ Restart \/ SyncStatus
    <2>1. UNCHANGED <<stored, clusterVars>>
      BY <1>6 DEF Informers, Deliver, Resync, HandleObject, RetryFires, DeliverNamespace,
         Restart, Restarted, SyncStatus, StatusSettled, GhzReadJob, K6ListJobs, K6Panic,
         LocustGetConfigMap, LocustGetWorkerJob, LocustGetMasterJob, FakeStatusNamespace,
         FakeReadJob, JMeterStatusNamespace, JMeterListPods, JMeterReadJob, ReadOnly,
         NothingElse
    <2>. QED  BY <1>2, <2>1 DEF clusterVars
  <1>7. CASE \/ SyncMissing \/ SyncStart \/ CallFails \/ ListNamespaces \/ FakeGetNamespace
             \/ CheckGuard \/ CreateRefused \/ JMeterWaitPod \/ JMeterWaitPvc \/ NoCleanUp
             \/ UpdateLost
    <2>1. UNCHANGED <<stored, clusterVars>>
      BY <1>7 DEF SyncMissing, SyncStart, TakeCopy, CallFails, ListNamespaces, FakeGetNamespace,
         CheckGuard, CreateRefused, JMeterWaitPod, JMeterWaitPvc, Waited, NothingElse,
         NoCleanUp, UpdateLost
    <2>. QED  BY <1>2, <2>1 DEF clusterVars
  <1>8. CASE CreateNamespace \/ CreateObject
    <2>1. /\ UNCHANGED <<stored, job, aged>> /\ objects \subseteq objects'
          /\ namespace' \in {namespace, "active"}
      BY <1>8 DEF CreateNamespace, CreateObject
    <2>. QED  BY <1>2, <2>1
  <1>9. CASE CleanUpDeletes \/ UpdateStatus
    <2>1. UNCHANGED clusterVars /\ (stored'.exists => stored.exists)
      BY <1>9 DEF CleanUpDeletes, UpdateStatus, Write, Absent
    <2>. QED  BY <1>2, <2>1 DEF clusterVars
  <1>10. CASE UNCHANGED vars
    BY <1>2, <1>10 DEF vars, clusterVars
  <1>. QED  BY <1>3, <1>4, <1>5, <1>6, <1>7, <1>8, <1>9, <1>10 DEF Next, Environment, Worker

\* The invariant of Finished_proofs, while the other one makes progress and
\* keeps what both can see.
LEMMA OtherFinished ==
  ASSUME TypeInv, ByJobs, FinishedInv, Sees, Progress, ServerTypeOK', Common'
  PROVE  FinishedInv'
  <1>1. NamespaceKept' /\ SuccessIsFinal'
    BY DEF Common, ByJobs
  <1>2. UNCHANGED <<cache, pc, loadTest, next, workerJob>>
    BY DEF Sees
  <1>3. Calls'
    BY <1>2 DEF FinishedInv, Calls
  <1>4. ASSUME stored'.exists PROVE Live'
    <2>1. Live /\ stored.exists
      BY <1>4 DEF FinishedInv, Progress
    <2>2. objects \subseteq objects' /\ \A j \in Jobs : Terminal(job[j]) => Terminal(job'[j])
      BY <2>1 DEF Progress
    <2>3. Guard \cap objects' # {} => Objects \subseteq objects'
      BY <1>4 DEF Common, ByJobs
    <2>4. CreatedSoFar'
      BY <1>2, <2>1, <2>2, <2>3 DEF Live, CreatedSoFar
    <2>5. WorkerSeen'
      <3>1. pc = "masterJob" => WorkerJob \in Jobs
        BY LocustObjects DEF FinishedInv, Calls
      <3>. QED  BY <1>2, <2>1, <2>2, <3>1 DEF Live, WorkerSeen
    <2>6. ~AllJobsDone' => ~AllJobsDone
      BY <2>2 DEF AllJobsDone
    <2>7. ASSUME ~AllJobsDone' PROVE NobodySaysFinished'
      <3>1. NobodySaysFinished
        BY <2>1, <2>6, <2>7 DEF Live
      <3>2. stored'.phase # Finished
        BY <1>4, <2>7 DEF Common, ByJobs
      <3>3. events \in Seq(Version) /\ stored' \in Version
        BY DEF TypeInv, TypeOK, QueueTypeOK, ServerTypeOK
      <3>4. \A i \in DOMAIN events' : \/ events'[i] = stored'
                                      \/ i \in DOMAIN events /\ events'[i] = events[i]
        BY <3>3, AppendProperties, LenProperties DEF Sees
      <3>. QED  BY <1>2, <3>1, <3>2, <3>4 DEF NobodySaysFinished
    <2>. QED  BY <2>4, <2>5, <2>7 DEF Live
  <1>. QED  BY <1>1, <1>3, <1>4 DEF FinishedInv

\* The same for the phases of all copies and what a sync has seen for them.
LEMMA OtherLives ==
  ASSUME LInv, Sees, Progress, ServerTypeOK', faults' \in 0..MaxFaults, Common'
  PROVE  LInv'
  <1>1. UNCHANGED <<cache, nsCached, pc, loadTest, cachedPhase, workerJob>>
        /\ (fresh' => fresh /\ stored' = stored)
    BY DEF Sees
  <1>2. NamespaceKept' /\ JobsAreSane'
    BY DEF Common
  <1>3. FreshIsStored' /\ Readers' /\ (loadTest'.completion = "old" => aged')
    BY <1>1 DEF LInv, LifeInv, FreshIsStored, Readers, Progress
  <1>4. ASSUME stored'.exists PROVE Alive'
    <2>1. stored.exists /\ Alive
      BY <1>4 DEF LInv, LifeInv, Progress
    <2>2. Grows
      BY <1>1, <2>1 DEF Progress, Grows
    <2>3. \A p \in Phases' : Earned(p)'
      <3>1. events \in Seq(Version) /\ stored' \in Version
        BY DEF LInv, IInv, TypeInv, TypeOK, QueueTypeOK, ServerTypeOK
      <3>2. \A i \in DOMAIN events' : \/ events'[i] = stored'
                                      \/ i \in DOMAIN events /\ events'[i] = events[i]
        BY <3>1, AppendProperties, LenProperties DEF Sees
      <3>3. Phases' \subseteq Phases \cup {stored'.phase}
        BY <1>1, <3>2 DEF Phases
      <3>4. \A p \in {stored'.phase} : Earned(p)'
        BY <1>4 DEF Common, Earned
      <3>. QED  BY <2>1, <2>2, <3>3, <3>4, EarnedStays DEF Alive
    <2>4. PhaseMoves'
      BY <1>1, <2>1 DEF Alive, PhaseMoves
    <2>5. ReadSoFar'
      <3>1. pc = "masterJob" => WorkerJob \in Jobs
        BY LocustObjects DEF LInv, LifeInv, Readers
      <3>2. ReadSoFar
        BY <2>1 DEF Alive
      <3>. QED  BY <1>1, <2>2, <3>1, <3>2 DEF ReadSoFar, Grows, JobGrows
    <2>6. nsCached' => namespace' = "active"
      BY <1>1, <2>1 DEF Alive, Progress
    <2>. QED  BY <2>3, <2>4, <2>5, <2>6 DEF Alive
  <1>5. LifeInv'
    BY <1>2, <1>3, <1>4 DEF LifeInv
  <1>. QED  BY <1>5, OtherType, OtherFinished DEF LInv, IInv

\* Its last version stays the stored one: the watch delivers what the other one
\* writes.
LEMMA OtherVersion ==
  ASSUME TypeInv, LastVersion, Sees, stored' \in Version,
         events' = IF stored' # stored THEN Append(events, stored') ELSE events
  PROVE  LastVersion'
  <1>1. events \in Seq(Version)
    BY DEF TypeInv, TypeOK, QueueTypeOK
  <1>2. CASE stored' # stored
    <2>1. events' = Append(events, stored')
      BY <1>2
    <2>2. Len(events') = Len(events) + 1 /\ events'[Len(events) + 1] = stored'
      BY <1>1, <2>1, AppendProperties
    <2>. QED  BY <1>1, <2>1, <2>2, AppendProperties, LenProperties, EmptySeq DEF LastVersion
  <1>3. CASE stored' = stored
    BY <1>3 DEF LastVersion, Sees
  <1>. QED  BY <1>2, <1>3

\* To give up on the namespace is like any other failing call.
LEMMA GivesUpLives ==
  ASSUME LInv, CreateGivesUp
  PROVE  LInv'
  <1>1. /\ pc = "createNamespace" /\ pc' = "update"
        /\ UNCHANGED <<stored, namespace, objects, job, aged, cache, events, nsCached, fresh,
                       cachedPhase, loadTest>>
    BY DEF CreateGivesUp, Fail, clusterVars, informerVars
  <1>2. LifeInv'
    BY <1>1, PhaseIsKept DEF Reads
  <1>3. ByJobs => FinishedInv'
    <2>. SUFFICES ASSUME ByJobs PROVE FinishedInv'
      OBVIOUS
    <2>1. FinishedInv
      BY DEF LInv, IInv
    <2>2. Calls' /\ (stored.exists => CreatedSoFar' /\ WorkerSeen')
      BY <1>1, <2>1 DEF FinishedInv, Live, CreatedSoFar, Calls, WorkerSeen, Reading
    <2>3. stored.exists /\ ~AllJobsDone => loadTest'.phase # Finished
      BY <1>1, <2>1 DEF FinishedInv, Live, NobodySaysFinished
    <2>. QED  BY <1>1, <2>1, <2>2, <2>3, MovesOn
  <1>. QED  BY <1>2, <1>3, LastStepsType DEF LInv, IInv

\* The last sync works on the last copy, and nothing is left of one that ended.
LEMMA LastStepsLive ==
  ASSUME LInv, Backend # "JMeter", ListerGone, (TakeCopy /\ LastVersion) \/ Return
  PROVE  LInv'
  <1>1. /\ UNCHANGED <<stored, namespace, objects, job, aged>>
        /\ cache'.phase = Blank /\ events' = <<>> /\ nsCached' = FALSE
    BY DEF ListerGone, Absent, clusterVars
  <1>2. TypeInv'
    BY LastStepsType DEF LInv, IInv
  <1>3. ASSUME Return PROVE LifeInv'
    <2>1. {stored'.phase, cache'.phase} \cup {events'[i].phase : i \in DOMAIN events'}
            \subseteq Phases \cup {Blank}
      BY <1>1 DEF Phases
    <2>. QED  BY <1>1, <1>3, <2>1, ReturnLives
  <1>4. ASSUME TakeCopy, LastVersion PROVE LifeInv'
    <2>1. /\ pc' \in {"listNamespaces", "getNamespace", "guard"}
          /\ loadTest'.phase = cache.phase /\ loadTest'.completion = "none"
          /\ cachedPhase' = cache.phase /\ fresh' = CarriesStoredVersion
      BY <1>4 DEF TakeCopy, EnterSync
    <2>2. FreshIsStored'
      <3>1. fresh' => events = <<>>
        BY <2>1, Zenon DEF CarriesStoredVersion
      <3>. QED  BY <1>1, <1>4, <2>1, <3>1 DEF LastVersion, FreshIsStored
    <2>3. Grows /\ Phases' \subseteq Phases \cup {Blank}
      BY <1>1, <2>1 DEF Grows, JobGrows, Phases
    <2>4. ASSUME stored.exists PROVE Alive'
      <3>1. \A p \in Phases' : Earned(p)'
        BY <2>3, <2>4, EarnedForFree, AllEarned DEF LInv, LifeInv, Alive
      <3>2. ReadSoFar' /\ PhaseMoves'
        BY <2>1 DEF ReadSoFar, PhaseMoves, Reads
      <3>. QED  BY <1>1, <3>1, <3>2 DEF Alive
    <2>. QED  BY <1>1, <2>1, <2>2, <2>4, SaneJobsStay
              DEF LInv, LifeInv, NamespaceKept, Readers
  <1>5. ASSUME ByJobs PROVE FinishedInv'
    <2>1. FinishedInv
      BY <1>5 DEF LInv, IInv
    <2>2. /\ pc' \in {"idle", "listNamespaces", "guard"} /\ next' = 1
          /\ loadTest'.phase \in {Blank, cache.phase}
      <3>1. Return => pc' = "idle" /\ next' = 1 /\ loadTest'.phase = Blank
        BY DEF Return, NoCopy
      <3>2. TakeCopy => pc = "idle" /\ pc' \in {"listNamespaces", "guard"} /\ next' = next
                        /\ loadTest'.phase = cache.phase
        BY <1>5 DEF TakeCopy, EnterSync, ByJobs
      <3>. QED  BY <2>1, <3>1, <3>2 DEF FinishedInv, Calls
    <2>3. NamespaceKept' /\ SuccessIsFinal' /\ Calls'
      BY <1>1, <2>1, <2>2 DEF FinishedInv, NamespaceKept, SuccessIsFinal, Calls
    <2>4. stored.exists => CreatedSoFar' /\ WorkerSeen'
      BY <1>1, <2>1, <2>2 DEF FinishedInv, Live, CreatedSoFar, WorkerSeen, Reading
    <2>5. AllJobsDone' = AllJobsDone
      BY <1>1 DEF AllJobsDone
    <2>6. NobodySaysFinished => NobodySaysFinished'
      <3>1. DOMAIN <<>> = {}
        OBVIOUS
      <3>2. \A i \in DOMAIN events' : events'[i].phase # Finished
        BY <1>1, <3>1
      <3>3. Blank # Finished
        BY DEF Blank, Finished
      <3>. QED  BY <1>1, <2>2, <3>2, <3>3 DEF NobodySaysFinished
    <2>. QED  BY <1>1, <2>1, <2>3, <2>4, <2>5, <2>6 DEF FinishedInv, Live
  <1>. QED  BY <1>2, <1>3, <1>4, <1>5 DEF LInv, IInv
=============================================================================
