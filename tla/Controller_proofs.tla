------------------------- MODULE Controller_proofs -------------------------
(***************************************************************************)
(* What holds of the controller for every backend, number of pods, set of  *)
(* rejected objects, number of faults and clean-up setting.                *)
(***************************************************************************)
EXTENDS Controller, Backends_proofs, WellFoundedInduction

-----------------------------------------------------------------------------
(***************************************************************************)
(* Types of the operators.                                                 *)
(***************************************************************************)

\* The constant records have their types.
LEMMA InitialValues ==
  /\ NewJobStatus \in JobStatus /\ NoCopy \in Copy
  /\ Absent \in Version /\ Created \in Version
  BY DEF NewJobStatus, JobStatus, NoCopy, Copy, Absent, Created, Version, Phase,
         Blank, CompletionTime

\* Every phase function of a backend answers with a phase.
LEMMA PhaseTypes ==
  /\ {Blank, Creating, Starting, Running, Finished, Errored} \subseteq Phase
  /\ \A s : FakePhase(s) \in Phase /\ JMeterPhase(s) \in Phase /\ GhzPhase(s) \in Phase
  /\ \A s, t : LocustPhase(s, t) \in Phase
  /\ \A l, f : K6Phase(l, f) \in Phase
  /\ \A p : WorkerPodPhase(p) \in Phase
  BY DEF Phase, FakePhase, JMeterPhase, GhzPhase, LocustPhase, K6Phase, WorkerPodPhase

\* The objects of the plan are numbered objects.
LEMMA ObjectsType == Objects \subseteq Object /\ Jobs \subseteq Objects /\ Pods \subseteq Objects
  BY PlanEndsWithAJob, ElementOfSeq DEF Objects, Jobs, Pods

\* A list that is not empty has a first item.
LEMMA FirstExists ==
  ASSUME NEW S \in SUBSET Object, S # {}
  PROVE  First(S) \in S
  <1> DEFINE Indices == {i[2] : i \in S}
  <1>1. Indices \subseteq Nat /\ Indices # {}
    BY DEF Object
  <1>2. PICK m \in Indices : \A k \in Indices : <<k, m>> \notin OpToRel(<, Nat)
    <2> HIDE DEF Indices
    <2>. QED  BY <1>1, WFMin, NatLessThanWellFounded, Zenon
  <1>3. \A k \in Indices : ~(k < m)
    <2> HIDE DEF Indices
    <2>1. \A k \in Indices : k \in Nat
      BY <1>1
    <2>. QED  BY <1>2, <2>1, Zenon DEF OpToRel
  <1>4. PICK f \in S : f[2] = m
    BY <1>2
  <1>5. \A k \in S : f[2] <= k[2]
    BY <1>1, <1>3, <1>4
  <1>. QED  BY <1>4, <1>5 DEF First

\* The status K6 reports is that of one of the listed jobs.
LEMMA K6JobStatusType ==
  ASSUME NEW S \in SUBSET Jobs, S # {}, NEW f \in [Jobs -> JobStatus]
  PROVE  K6JobStatus(S, f).completion \in CompletionTime
  <1>1. \A T \in SUBSET S : T # {} => First(T) \in Jobs
    BY FirstExists, ObjectsType
  <1>2. \A j \in Jobs : f[j].completion \in CompletionTime
    BY DEF JobStatus
  <1>. QED  BY <1>1, <1>2 DEF K6JobStatus

\* Positions in the plan.
LEMMA Positions ==
  /\ DOMAIN Plan = 1..Len(Plan) /\ Len(Plan) \in Nat /\ 1 \in DOMAIN Plan
  /\ \A k \in DOMAIN Plan : /\ AfterIndex(k) \in DOMAIN Plan
                            /\ AfterCreate(k) \in {"create", "status"}
                            /\ Plan[k] \in Objects
                            /\ Plan[k] = Pvc => k + 1 \in DOMAIN Plan
  <1>1. DOMAIN Plan = 1..Len(Plan) /\ Len(Plan) \in Nat /\ Len(Plan) > 0
    BY PlanEndsWithAJob, LenProperties
  <1>2. Plan[Len(Plan)] # Pvc
    BY PlanEndsWithAJob DEF Pvc
  <1>. QED  BY <1>1, <1>2 DEF AfterIndex, AfterCreate, Objects
-----------------------------------------------------------------------------
(***************************************************************************)
(* Type correctness.  The position in the plan and the number of waits     *)
(* stay in range only because a wait starts with time left and follows the *)
(* creation of a claim or a pod, never of the last object.                 *)
(***************************************************************************)
Waiting ==
  /\ pc \in {"waitPvc", "waitPod"} => ~Expired
  /\ pc = "waitPvc" => Plan[next] = Pvc

TypeInv == TypeOK /\ Waiting

LEMMA TypeInit == Init => TypeInv
  <1>. SUFFICES ASSUME Init PROVE TypeInv
    OBVIOUS
  <1>1. ServerTypeOK
    BY InitialValues DEF Init, ServerTypeOK, PodState
  <1>2. QueueTypeOK
    <2>1. cache = Absent /\ events = <<Created>>
      BY DEF Init
    <2>2. nsCached = FALSE /\ dirty = FALSE /\ retry = FALSE
      BY DEF Init
    <2>. QED  BY <2>1, <2>2, InitialValues, Tuples DEF QueueTypeOK
  <1>3. SyncTypeOK /\ Waiting
    <2>1. /\ pc = "idle" /\ next = 1 /\ waits = 0 /\ faults = 0
          /\ fresh = FALSE /\ syncOk = TRUE
          /\ loadTest = NoCopy /\ cachedPhase = Blank /\ workerJob = NewJobStatus
      BY DEF Init
    <2>2. 1 \in DOMAIN Plan /\ Blank \in Phase /\ 0 \in 0..WaitsPerSync /\ 0 \in 0..MaxFaults
      BY Positions, PhaseTypes, FaultsAssumption, WaitsAssumption
    <2>. QED  BY <2>1, <2>2, InitialValues DEF SyncTypeOK, Waiting, PCs
  <1>. QED  BY <1>1, <1>2, <1>3 DEF TypeInv, TypeOK

\* The steps of the informers and of the queue.
LEMMA InformersType == TypeInv /\ Informers => TypeInv'
  <1>. SUFFICES ASSUME TypeInv, Informers PROVE TypeInv'
    OBVIOUS
  <1>1. UNCHANGED <<stored, clusterVars, pc, syncVars, faults>>
    BY DEF Informers, Deliver, Resync, HandleObject, RetryFires, DeliverNamespace
  <1>2. ServerTypeOK' /\ SyncTypeOK' /\ Waiting'
    BY <1>1 DEF TypeInv, TypeOK, ServerTypeOK, SyncTypeOK, Waiting, Expired,
                clusterVars, syncVars
  <1>3. QueueTypeOK'
    <2>. USE DEF TypeInv, TypeOK, QueueTypeOK
    <2>1. CASE Deliver
      <3>1. cache' \in Version /\ events' \in Seq(Version)
        BY <2>1, HeadTailProperties DEF Deliver
      <3>2. nsCached' \in BOOLEAN /\ retry' \in BOOLEAN
        BY <2>1 DEF Deliver
      <3>3. dirty' \in BOOLEAN
        BY <2>1, Zenon DEF Deliver
      <3>. QED  BY <3>1, <3>2, <3>3
    <2>2. CASE Resync \/ HandleObject \/ RetryFires
      BY <2>2 DEF Resync, HandleObject, RetryFires, informerVars
    <2>3. CASE DeliverNamespace
      BY <2>3 DEF DeliverNamespace, queueVars
    <2>. QED  BY <2>1, <2>2, <2>3 DEF Informers
  <1>. QED  BY <1>2, <1>3 DEF TypeInv, TypeOK

\* The steps the cluster takes by itself.
LEMMA EnvironmentType == TypeInv /\ (Environment \/ GarbageCollector) => TypeInv'
  <1>. SUFFICES ASSUME TypeInv, Environment \/ GarbageCollector PROVE TypeInv'
    OBVIOUS
  <1>. USE DEF TypeInv, TypeOK
  <1>. USE DEF ClusterStep, SetJob, Collect
  <1>1. UNCHANGED <<cache, nsCached, queueVars, pc, syncVars, faults>>
    BY DEF Environment, GarbageCollector, JobStarts, JobPodSucceeds, JobCompletes,
           JobPodFails, JobGivesUp, CompletionAges, PodChanges, LoadTestAges, PodsAge,
           UserDeletes, GCNamespace, GCOwned, NamespaceGone, informerVars
  <1>2. SyncTypeOK' /\ Waiting'
    BY <1>1 DEF SyncTypeOK, Waiting, Expired, syncVars
  <1>3. ASSUME NEW j \in Jobs, NEW s \in JobStatus, SetJob(j, s)
        PROVE  ServerTypeOK' /\ UNCHANGED <<cache, events, nsCached>>
    BY <1>3 DEF ServerTypeOK, informerVars
  <1>4. ASSUME NEW gone, Collect(gone), namespace' \in {namespace, "none"}
        PROVE  ServerTypeOK' /\ UNCHANGED <<cache, events, nsCached>>
    BY <1>4, InitialValues DEF ServerTypeOK, informerVars, PodState
  <1>5. \A j \in Jobs : job[j] \in JobStatus
    BY DEF ServerTypeOK
  <1>6. (ServerTypeOK' /\ UNCHANGED <<cache, events, nsCached>>) \/ UserDeletes
    <2>1. ASSUME NEW j \in Jobs, JobStarts(j)
          PROVE  ServerTypeOK' /\ UNCHANGED <<cache, events, nsCached>>
      <3>1. [job[j] EXCEPT !.active = TRUE] \in JobStatus
        BY <1>5 DEF JobStatus
      <3>. QED  BY <2>1, <3>1, <1>3 DEF JobStarts
    <2>2. ASSUME NEW j \in Jobs, JobPodSucceeds(j)
          PROVE  ServerTypeOK' /\ UNCHANGED <<cache, events, nsCached>>
      <3>1. [job[j] EXCEPT !.succeeded = TRUE] \in JobStatus
        BY <1>5 DEF JobStatus
      <3>. QED  BY <2>2, <3>1, <1>3 DEF JobPodSucceeds
    <2>3. ASSUME NEW j \in Jobs, JobCompletes(j)
          PROVE  ServerTypeOK' /\ UNCHANGED <<cache, events, nsCached>>
      <3>1. [job[j] EXCEPT !.active = FALSE, !.succeeded = TRUE, !.completion = "recent"]
              \in JobStatus
        BY <1>5 DEF JobStatus, CompletionTime
      <3>. QED  BY <2>3, <3>1, <1>3 DEF JobCompletes
    <2>4. ASSUME NEW j \in Jobs, JobPodFails(j)
          PROVE  ServerTypeOK' /\ UNCHANGED <<cache, events, nsCached>>
      <3>1. PICK others \in BOOLEAN :
              SetJob(j, [job[j] EXCEPT !.failed = TRUE, !.active = others,
                                       !.gaveUp = ~RetriesPods /\ ~others])
        BY <2>4 DEF JobPodFails
      <3>2. (~RetriesPods /\ ~others) \in BOOLEAN
        OBVIOUS
      <3>3. [job[j] EXCEPT !.failed = TRUE, !.active = others,
                           !.gaveUp = ~RetriesPods /\ ~others] \in JobStatus
        <4> DEFINE g == ~RetriesPods /\ ~others
        <4>1. g \in BOOLEAN
          OBVIOUS
        <4> HIDE DEF g
        <4>2. [job[j] EXCEPT !.failed = TRUE, !.active = others, !.gaveUp = g] \in JobStatus
          BY <1>5, <4>1 DEF JobStatus
        <4>. QED  BY <4>2 DEF g
      <3>. QED  BY <3>1, <3>3, <1>3
    <2>5. ASSUME NEW j \in Jobs, JobGivesUp(j)
          PROVE  ServerTypeOK' /\ UNCHANGED <<cache, events, nsCached>>
      <3>1. [job[j] EXCEPT !.gaveUp = TRUE, !.active = FALSE] \in JobStatus
        BY <1>5 DEF JobStatus
      <3>. QED  BY <2>5, <3>1, <1>3 DEF JobGivesUp
    <2>6. ASSUME NEW j \in Jobs, CompletionAges(j)
          PROVE  ServerTypeOK' /\ UNCHANGED <<cache, events, nsCached>>
      <3>1. [job[j] EXCEPT !.completion = "old"] \in JobStatus
        BY <1>5 DEF JobStatus, CompletionTime
      <3>. QED  BY <2>6, <3>1, <1>3 DEF CompletionAges
    <2>7. ASSUME NEW p \in Pods, PodChanges(p)
          PROVE  ServerTypeOK' /\ UNCHANGED <<cache, events, nsCached>>
      BY <2>7 DEF PodChanges, ServerTypeOK, informerVars, PodState
    <2>8. CASE LoadTestAges \/ PodsAge \/ GCNamespace
      BY <2>8 DEF LoadTestAges, PodsAge, GCNamespace, ServerTypeOK, informerVars
    <2>9. CASE GCOwned \/ NamespaceGone
      BY <2>9, <1>4 DEF GCOwned, NamespaceGone
    <2>. QED  BY <2>1, <2>2, <2>3, <2>4, <2>5, <2>6, <2>7, <2>8, <2>9
              DEF Environment, GarbageCollector
  <1>7. CASE UserDeletes
    BY <1>7, <1>1, <1>2, InitialValues
       DEF UserDeletes, Write, ServerTypeOK, QueueTypeOK, clusterVars, queueVars
  <1>8. CASE ServerTypeOK' /\ UNCHANGED <<cache, events, nsCached>>
    BY <1>8, <1>1, <1>2 DEF QueueTypeOK, queueVars
  <1>. QED  BY <1>6, <1>7, <1>8

\* What is left alone keeps its type.
LEMMA NothingElseType == TypeInv /\ NothingElse => ServerTypeOK' /\ QueueTypeOK'
  BY DEF NothingElse, TypeInv, TypeOK, ServerTypeOK, QueueTypeOK, clusterVars,
         informerVars, queueVars

\* A reading of SyncStatus ends it, goes on with the next call or fails.
LEMMA ReadingType ==
  ASSUME TypeInv, ReadOnly,
         \/ \E phase \in Phase, completion \in CompletionTime : Decide(phase, completion)
         \/ \E call \in {"workerJob", "job", "pods"} : ReadNext(call)
         \/ NotFound
  PROVE  TypeInv'
  <1>1. ServerTypeOK' /\ QueueTypeOK'
    BY NothingElseType DEF ReadOnly
  <1>2. Began \in Phase
    BY PhaseTypes DEF Began, TypeInv, TypeOK, SyncTypeOK, Copy
  <1>3. UNCHANGED <<cachedPhase, fresh, next, waits, faults>>
    BY DEF ReadOnly
  <1>4. ASSUME NEW phase \in Phase, NEW completion \in CompletionTime, Decide(phase, completion)
        PROVE  SyncTypeOK' /\ Waiting'
    BY <1>3, <1>4, InitialValues
       DEF Decide, TypeInv, TypeOK, SyncTypeOK, Waiting, PCs, Copy
  <1>5. ASSUME NEW call \in {"workerJob", "job", "pods"}, ReadNext(call)
        PROVE  SyncTypeOK' /\ Waiting'
    BY <1>2, <1>3, <1>5 DEF ReadNext, TypeInv, TypeOK, SyncTypeOK, Waiting, PCs, Copy
  <1>6. ASSUME NotFound
        PROVE  SyncTypeOK' /\ Waiting'
    BY <1>2, <1>3, <1>6, InitialValues
       DEF NotFound, Fail, TypeInv, TypeOK, SyncTypeOK, Waiting, PCs, Copy
  <1>. QED  BY <1>1, <1>4, <1>5, <1>6 DEF TypeInv, TypeOK

\* The readings of every backend are of that kind.
LEMMA SyncStatusType == TypeInv /\ SyncStatus => TypeInv' \/ K6Panic
  <1>. SUFFICES ASSUME TypeInv, SyncStatus PROVE TypeInv' \/ K6Panic
    OBVIOUS
  <1>. DEFINE Decides == \E phase \in Phase, completion \in CompletionTime :
                           Decide(phase, completion)
              GoesOn == \E call \in {"workerJob", "job", "pods"} : ReadNext(call)
  <1>1. "none" \in CompletionTime /\ Creating \in Phase /\ Errored \in Phase /\ Finished \in Phase
    BY PhaseTypes DEF CompletionTime
  <1>2. \A j \in Jobs : job[j].completion \in CompletionTime
    BY DEF TypeInv, TypeOK, ServerTypeOK, JobStatus
  <1>3. loadTest.phase \in Phase
    BY DEF TypeInv, TypeOK, SyncTypeOK, Copy
  <1>4. \A i \in Nat : Job(i) \in objects => Job(i) \in Jobs
    BY DEF Job, Jobs, TypeInv, TypeOK, ServerTypeOK
  <1>5. CASE StatusSettled
    BY <1>5, <1>1, ReadingType DEF StatusSettled
  <1>6. CASE GhzReadJob
    <2>1. ReadOnly /\ (Decides \/ NotFound)
      BY <1>6, <1>2, <1>4, PhaseTypes DEF GhzReadJob
    <2>. QED  BY <2>1, ReadingType
  <1>7. CASE K6ListJobs
    <2>1. job \in [Jobs -> JobStatus]
      BY DEF TypeInv, TypeOK, ServerTypeOK
    <2>2. Listed \in SUBSET Jobs /\ Listed # {}
      BY <1>7 DEF K6ListJobs, Listed
    <2>3. K6JobStatus(Listed, job).completion \in CompletionTime
      BY <2>1, <2>2, K6JobStatusType
    <2>4. K6Phase(Listed, job) \in Phase
      BY PhaseTypes
    <2>5. ReadOnly /\ Decide(K6Phase(Listed, job), K6JobStatus(Listed, job).completion)
      BY <1>7 DEF K6ListJobs
    <2>6. ReadOnly /\ Decides
      BY <2>3, <2>4, <2>5
    <2>. QED  BY <2>6, ReadingType
  <1>8. CASE LocustGetConfigMap
    <2>1. ReadOnly /\ (Decides \/ GoesOn)
      BY <1>8, <1>1 DEF LocustGetConfigMap
    <2>. QED  BY <2>1, ReadingType
  <1>9. CASE LocustGetWorkerJob
    <2>1. CASE WorkerJob \in objects
      <3>1. job[WorkerJob] \in JobStatus
        BY <2>1, <1>4 DEF WorkerJob, TypeInv, TypeOK, ServerTypeOK
      <3>2. /\ pc' = "masterJob" /\ workerJob' = job[WorkerJob]
            /\ UNCHANGED <<loadTest, syncOk, cachedPhase, fresh, next, waits, faults>>
        BY <1>9, <2>1 DEF LocustGetWorkerJob, ReadOnly
      <3>3. SyncTypeOK' /\ Waiting'
        BY <3>1, <3>2 DEF TypeInv, TypeOK, SyncTypeOK, Waiting, PCs
      <3>. QED  BY <3>3, <1>9, NothingElseType DEF LocustGetWorkerJob, ReadOnly, TypeInv, TypeOK
    <2>2. CASE WorkerJob \notin objects
      BY <1>9, <2>2, ReadingType DEF LocustGetWorkerJob
    <2>. QED  BY <2>1, <2>2
  <1>10. CASE LocustGetMasterJob
    <2>1. MasterJob \in objects => job[MasterJob].completion \in CompletionTime
      BY <1>2, <1>4 DEF MasterJob
    <2>2. ReadOnly /\ (Decides \/ NotFound)
      BY <1>10, <2>1, PhaseTypes DEF LocustGetMasterJob
    <2>. QED  BY <2>2, ReadingType
  <1>11. CASE FakeStatusNamespace
    <2>1. ReadOnly /\ (Decides \/ GoesOn)
      BY <1>11, <1>1 DEF FakeStatusNamespace
    <2>. QED  BY <2>1, ReadingType
  <1>12. CASE FakeReadJob
    <2>1. ReadOnly /\ (Decides \/ NotFound)
      BY <1>12, <1>2, <1>4, PhaseTypes DEF FakeReadJob
    <2>. QED  BY <2>1, ReadingType
  <1>13. CASE JMeterStatusNamespace
    <2>1. ReadOnly /\ (Decides \/ GoesOn)
      BY <1>13, <1>1 DEF JMeterStatusNamespace
    <2>. QED  BY <2>1, ReadingType
  <1>14. CASE JMeterListPods
    <2>1. ReadOnly /\ (Decides \/ GoesOn)
      BY <1>14, <1>1, <1>3, PhaseTypes DEF JMeterListPods
    <2>. QED  BY <2>1, ReadingType
  <1>15. CASE JMeterReadJob
    <2>1. ReadOnly /\ (Decides \/ NotFound)
      BY <1>15, <1>2, <1>4, PhaseTypes DEF JMeterReadJob
    <2>. QED  BY <2>1, ReadingType
  <1>. QED  BY <1>5, <1>6, <1>7, <1>8, <1>9, <1>10, <1>11, <1>12, <1>13, <1>14, <1>15
            DEF SyncStatus

\* Fewer faults than allowed leave room for one more.
LEMMA FaultType == SyncTypeOK /\ Fault => faults' \in 0..MaxFaults
  BY FaultsAssumption DEF SyncTypeOK, Fault

\* The locals of a sync, and those of one that has returned.
LEMMA ReturnType == SyncTypeOK /\ Return /\ faults' \in 0..MaxFaults => SyncTypeOK' /\ Waiting'
  <1>. SUFFICES ASSUME SyncTypeOK, Return, faults' \in 0..MaxFaults PROVE SyncTypeOK' /\ Waiting'
    OBVIOUS
  <1>1. /\ pc' = "idle" /\ next' = 1 /\ waits' = 0 /\ fresh' = FALSE /\ syncOk' = TRUE
        /\ loadTest' = NoCopy /\ cachedPhase' = Blank /\ workerJob' = NewJobStatus
    BY DEF Return
  <1>2. 1 \in DOMAIN Plan /\ Blank \in Phase /\ 0 \in 0..WaitsPerSync
    BY Positions, PhaseTypes, WaitsAssumption
  <1>. QED  BY <1>1, <1>2, InitialValues DEF SyncTypeOK, Waiting, PCs

\* The calls of checkOrCreateNamespace and of Sync.
LEMMA CallsType ==
  ASSUME TypeInv,
         \/ CallFails \/ SyncMissing \/ SyncStart \/ ListNamespaces \/ CreateNamespace
         \/ FakeGetNamespace \/ CheckGuard \/ CreateRefused
  PROVE  TypeInv'
  <1>. USE DEF TypeInv, TypeOK
  <1>1. CASE CallFails
    <2>1. faults' \in 0..MaxFaults
      BY <1>1, FaultType DEF CallFails, SyncTypeOK
    <2>2. loadTest' \in Copy
      BY <1>1, PhaseTypes DEF CallFails, SyncTypeOK, Copy
    <2>3. SyncTypeOK' /\ Waiting'
      BY <1>1, <2>1, <2>2, InitialValues DEF CallFails, Fail, SyncTypeOK, Waiting, PCs
    <2>. QED  BY <1>1, <2>3, NothingElseType DEF CallFails
  <1>2. CASE SyncMissing
    BY <1>2 DEF SyncMissing, ServerTypeOK, QueueTypeOK, SyncTypeOK, Waiting, Expired,
                clusterVars, informerVars, syncVars
  <1>3. CASE SyncStart
    <2>1. ServerTypeOK' /\ QueueTypeOK'
      BY <1>3 DEF SyncStart, TakeCopy, ServerTypeOK, QueueTypeOK, clusterVars, informerVars
    <2>2. loadTest' \in Copy /\ cachedPhase' \in Phase
      BY <1>3 DEF SyncStart, TakeCopy, QueueTypeOK, Version, Copy, CompletionTime
    <2>3. fresh' \in BOOLEAN
      BY <1>3, Zenon DEF SyncStart, TakeCopy, CarriesStoredVersion
    <2>4. pc' \in PCs \ {"waitPvc", "waitPod"}
      BY <1>3 DEF SyncStart, TakeCopy, EnterSync, PCs
    <2>5. SyncTypeOK' /\ Waiting'
      BY <1>3, <2>2, <2>3, <2>4 DEF SyncStart, TakeCopy, SyncTypeOK, Waiting
    <2>. QED  BY <2>1, <2>5
  <1>4. CASE ListNamespaces
    <2>1. SyncTypeOK' /\ Waiting'
      BY <1>4 DEF ListNamespaces, EnterSync, SyncTypeOK, Waiting, PCs, Copy
    <2>. QED  BY <1>4, <2>1, NothingElseType DEF ListNamespaces
  <1>5. CASE CreateNamespace
    <2>1. ServerTypeOK' /\ QueueTypeOK'
      BY <1>5 DEF CreateNamespace, ServerTypeOK, QueueTypeOK, informerVars, queueVars
    <2>2. faults' \in 0..MaxFaults
      BY <1>5, FaultType DEF CreateNamespace, SyncTypeOK
    <2>3. SyncTypeOK' /\ Waiting'
      BY <1>5, <2>2 DEF CreateNamespace, Fail, EnterSync, SyncTypeOK, Waiting, PCs, Copy
    <2>. QED  BY <2>1, <2>3
  <1>6. CASE FakeGetNamespace
    <2>1. SyncTypeOK' /\ Waiting'
      BY <1>6 DEF FakeGetNamespace, SyncTypeOK, Waiting, PCs, syncVars
    <2>. QED  BY <1>6, <2>1, NothingElseType DEF FakeGetNamespace
  <1>7. CASE CheckGuard
    <2>1. SyncTypeOK' /\ Waiting'
      BY <1>7 DEF CheckGuard, SyncTypeOK, Waiting, PCs, syncVars
    <2>. QED  BY <1>7, <2>1, NothingElseType DEF CheckGuard
  <1>8. CASE CreateRefused
    <2>1. SyncTypeOK' /\ Waiting'
      BY <1>8 DEF CreateRefused, Fail, SyncTypeOK, Waiting, PCs
    <2>. QED  BY <1>8, <2>1, NothingElseType DEF CreateRefused
  <1>. QED  BY <1>1, <1>2, <1>3, <1>4, <1>5, <1>6, <1>7, <1>8

\* The Create calls, and the waits of JMeter.
LEMMA CreatesType ==
  ASSUME TypeInv, CreateObject \/ JMeterWaitPod \/ JMeterWaitPvc
  PROVE  TypeInv'
  <1>. USE DEF TypeInv, TypeOK
  <1>1. next \in DOMAIN Plan /\ AfterIndex(next) \in DOMAIN Plan
        /\ AfterCreate(next) \in {"create", "status"} /\ Plan[next] \in Objects
    BY Positions DEF SyncTypeOK
  <1>2. next - 1 + 1 = next /\ next + 1 - 1 = next /\ next + 2 - 1 = next + 1
    BY <1>1, Positions
  <1>3. CASE CreateObject
    <2>1. ServerTypeOK' /\ QueueTypeOK'
      BY <1>1, <1>3 DEF CreateObject, ServerTypeOK, QueueTypeOK, informerVars, queueVars
    <2>2. faults' \in 0..MaxFaults
      BY <1>3, FaultType DEF CreateObject, SyncTypeOK
    <2>3. SyncTypeOK'
      BY <1>1, <1>3, <2>2 DEF CreateObject, Fail, SyncTypeOK, PCs
    <2>4. Waiting'
      BY <1>1, <1>3 DEF CreateObject, Fail, Waiting, Expired, Pods, Pvc
    <2>. QED  BY <2>1, <2>3, <2>4
  <1>4. CASE JMeterWaitPod
    <2>1. waits' \in 0..WaitsPerSync
      BY <1>4, WaitsAssumption DEF JMeterWaitPod, SyncTypeOK, Waiting, Expired
    <2>2. faults' \in 0..MaxFaults
      BY <1>4, FaultType DEF JMeterWaitPod, SyncTypeOK
    <2>3. pc' \in {"create", "status"} /\ next' \in DOMAIN Plan
      BY <1>1, <1>2, <1>4 DEF JMeterWaitPod, Waited
    <2>4. SyncTypeOK' /\ Waiting'
      BY <1>4, <2>1, <2>2, <2>3 DEF JMeterWaitPod, Waited, SyncTypeOK, Waiting, PCs
    <2>. QED  BY <1>4, <2>4, NothingElseType DEF JMeterWaitPod, Waited
  <1>5. CASE JMeterWaitPvc
    <2>1. waits' \in 0..WaitsPerSync
      BY <1>5, WaitsAssumption DEF JMeterWaitPvc, SyncTypeOK, Waiting, Expired
    <2>2. faults' \in 0..MaxFaults
      BY <1>5, FaultType DEF JMeterWaitPvc, SyncTypeOK
    <2>3. AfterCreate(next + 1) \in {"create", "status"} /\ AfterIndex(next + 1) \in DOMAIN Plan
      BY <1>1, <1>5, Positions DEF JMeterWaitPvc, Waiting
    <2>4. pc' \in {"create", "status"} /\ next' \in DOMAIN Plan
      BY <1>1, <1>2, <1>5, <2>3 DEF JMeterWaitPvc, Waited
    <2>5. SyncTypeOK' /\ Waiting'
      BY <1>5, <2>1, <2>2, <2>4 DEF JMeterWaitPvc, Waited, SyncTypeOK, Waiting, PCs
    <2>. QED  BY <1>5, <2>5, NothingElseType DEF JMeterWaitPvc, Waited
  <1>. QED  BY <1>3, <1>4, <1>5

\* The end of a sync, and the restart of the controller.
LEMMA EndsType ==
  ASSUME TypeInv,
         CleanUpDeletes \/ NoCleanUp \/ UpdateStatus \/ UpdateLost \/ Restart \/ K6Panic
  PROVE  TypeInv'
  <1>. USE DEF TypeInv, TypeOK
  <1>1. CASE CleanUpDeletes
    <2>1. ServerTypeOK' /\ QueueTypeOK'
      BY <1>1, InitialValues
         DEF CleanUpDeletes, Write, ServerTypeOK, QueueTypeOK, clusterVars, queueVars
    <2>2. SyncTypeOK' /\ Waiting'
      BY <1>1 DEF CleanUpDeletes, SyncTypeOK, Waiting, PCs, syncVars
    <2>. QED  BY <2>1, <2>2
  <1>2. CASE NoCleanUp
    <2>1. faults' \in 0..MaxFaults
      BY <1>2, FaultType DEF NoCleanUp, SyncTypeOK
    <2>2. SyncTypeOK' /\ Waiting'
      BY <1>2, <2>1 DEF NoCleanUp, SyncTypeOK, Waiting, PCs, syncVars
    <2>. QED  BY <1>2, <2>2, NothingElseType DEF NoCleanUp
  <1>3. CASE UpdateStatus
    <2>1. [exists |-> TRUE, phase |-> loadTest.phase, ns |-> loadTest.ns] \in Version
      BY DEF SyncTypeOK, Copy, Version
    <2>2. stored' \in Version /\ events' \in Seq(Version)
      <3>1. stored \in Version /\ events \in Seq(Version)
        BY DEF ServerTypeOK, QueueTypeOK
      <3>2. \/ UNCHANGED <<stored, events>>
            \/ Write([exists |-> TRUE, phase |-> loadTest.phase, ns |-> loadTest.ns])
        BY <1>3 DEF UpdateStatus
      <3>. QED  BY <2>1, <3>1, <3>2, AppendProperties DEF Write
    <2>6. ServerTypeOK' /\ cache' \in Version
      BY <1>3, <2>2 DEF UpdateStatus, ServerTypeOK, QueueTypeOK, clusterVars
    <2>3. nsCached' \in BOOLEAN /\ dirty' \in BOOLEAN
      BY <1>3 DEF UpdateStatus, QueueTypeOK
    <2>4. retry' \in BOOLEAN
      BY <1>3, Zenon DEF UpdateStatus, EndSync
    <2>5. SyncTypeOK' /\ Waiting'
      BY <1>3, ReturnType DEF UpdateStatus, EndSync, SyncTypeOK
    <2>. QED  BY <2>2, <2>3, <2>4, <2>5, <2>6 DEF QueueTypeOK
  <1>4. CASE UpdateLost
    <2>1. retry' \in BOOLEAN
      BY <1>4, Zenon DEF UpdateLost, EndSync
    <2>2. ServerTypeOK' /\ QueueTypeOK'
      BY <1>4, <2>1 DEF UpdateLost, ServerTypeOK, QueueTypeOK, clusterVars, informerVars
    <2>3. SyncTypeOK' /\ Waiting'
      BY <1>4, FaultType, ReturnType DEF UpdateLost, EndSync
    <2>. QED  BY <2>2, <2>3
  <1>5. CASE Restart \/ K6Panic
    <2>1. Restarted /\ faults' \in 0..MaxFaults
      BY <1>5, FaultType DEF Restart, K6Panic, SyncTypeOK
    <2>2. nsCached' \in BOOLEAN
      BY <2>1, Zenon DEF Restarted
    <2>3. ServerTypeOK' /\ QueueTypeOK'
      <3>1. stored \in Version /\ stored.exists \in BOOLEAN
        BY DEF ServerTypeOK, Version
      <3>2. cache' = stored /\ events' = <<>> /\ dirty' = stored.exists /\ retry' = FALSE
        BY <2>1 DEF Restarted
      <3>3. QueueTypeOK'
        <4>1. events' \in Seq(Version)
          BY <3>2
        <4>. QED  BY <2>2, <3>1, <3>2, <4>1 DEF QueueTypeOK
      <3>4. ServerTypeOK'
        BY <2>1 DEF Restarted, ServerTypeOK, clusterVars
      <3>. QED  BY <3>3, <3>4
    <2>4. SyncTypeOK' /\ Waiting'
      BY <2>1, ReturnType DEF Restarted
    <2>. QED  BY <2>3, <2>4
  <1>. QED  BY <1>1, <1>2, <1>3, <1>4, <1>5

\* Every step keeps the types.
LEMMA TypeNext == TypeInv /\ [Next]_vars => TypeInv'
  <1>1. TypeInv /\ Next => TypeInv'
    BY InformersType, EnvironmentType, SyncStatusType, CallsType, CreatesType, EndsType
       DEF Next, Worker
  <1>2. TypeInv /\ UNCHANGED vars => TypeInv'
    BY DEF TypeInv, TypeOK, ServerTypeOK, QueueTypeOK, SyncTypeOK, Waiting, Expired,
           vars, clusterVars, informerVars, queueVars, syncVars
  <1>. QED  BY <1>1, <1>2

\* TypeOK holds in every reachable state of the controller.
THEOREM TypeCorrect == Spec => []TypeOK
  <1>1. TypeInv => TypeOK
    BY DEF TypeInv
  <1>. QED  BY <1>1, TypeInit, TypeNext, PTL DEF Spec
-----------------------------------------------------------------------------
(***************************************************************************)
(* What a pod refers to is there before the pod.  The invariant says that, *)
(* up to its next Create, a sync has left no gap in the plan except pods   *)
(* of JMeter, which nothing refers to.  It only holds while the load test  *)
(* exists: afterwards the garbage collector removes the objects in any     *)
(* order, and no step brings the load test back.                           *)
(***************************************************************************)

\* The garbage collector only starts on a namespace that lost its owner.
NamespaceKept == namespace = "terminating" => ~stored.exists

\* A sync starts with the first object of the plan.
StartsAnew ==
  pc \in {"idle", "listNamespaces", "createNamespace", "getNamespace", "guard"} => next = 1

NoGaps ==
  /\ pc \in {"create", "waitPvc", "waitPod"} =>
       \A k \in 1..(next - 1) : Plan[k] \in objects \/ Plan[k][1] = "pod"
  /\ pc \in {"waitPvc", "waitPod"} => Plan[next] \in objects

DataFound == \A o \in objects : Needs(o) \subseteq objects

DataInv == NamespaceKept /\ StartsAnew /\ (stored.exists => NoGaps /\ DataFound)

\* Steps that create nothing, and after which no further Create is due but
\* the one that was due before.
LEMMA DataFrame ==
  ASSUME DataInv, stored'.exists => stored.exists /\ UNCHANGED objects,
         NamespaceKept',
         \/ UNCHANGED <<pc, next>>
         \/ pc' \notin {"create", "waitPvc", "waitPod"} /\ StartsAnew'
  PROVE  DataInv'
  <1>1. StartsAnew'
    BY DEF DataInv, StartsAnew
  <1>2. ASSUME stored'.exists PROVE NoGaps' /\ DataFound'
    BY <1>2 DEF DataInv, NoGaps, DataFound
  <1>. QED  BY <1>1, <1>2 DEF DataInv

\* The steps of the informers, of the cluster and of the garbage collector.
LEMMA OutsideKeepsData ==
  ASSUME DataInv, Informers \/ Environment \/ GarbageCollector
  PROVE  DataInv'
  <1>1. UNCHANGED <<pc, next>>
    BY DEF Informers, Deliver, Resync, HandleObject, RetryFires, DeliverNamespace,
           Environment, GarbageCollector, JobStarts, JobPodSucceeds, JobCompletes,
           JobPodFails, JobGivesUp, CompletionAges, PodChanges, LoadTestAges, PodsAge,
           UserDeletes, GCNamespace, GCOwned, NamespaceGone, Collect, SetJob, ClusterStep,
           syncVars
  <1>2. CASE GarbageCollector
    <2>1. ~stored.exists /\ UNCHANGED stored
      BY <1>2 DEF GarbageCollector, GCNamespace, GCOwned, NamespaceGone, Collect, ClusterStep,
                  DataInv, NamespaceKept
    <2>. QED  BY <1>1, <2>1, DataFrame DEF NamespaceKept
  <1>3. CASE UserDeletes
    <2>1. stored' = Absent
      BY <1>3 DEF UserDeletes, Write
    <2>. QED  BY <1>1, <2>1, DataFrame DEF NamespaceKept, Absent
  <1>4. CASE (Informers \/ Environment) /\ ~UserDeletes
    <2>1. UNCHANGED <<stored, namespace, objects>>
      BY <1>4 DEF Informers, Deliver, Resync, HandleObject, RetryFires, DeliverNamespace,
           Environment, JobStarts, JobPodSucceeds, JobCompletes, JobPodFails, JobGivesUp,
           CompletionAges, PodChanges, LoadTestAges, PodsAge, SetJob, ClusterStep, clusterVars
    <2>. QED  BY <1>1, <2>1, DataFrame DEF DataInv, NamespaceKept
  <1>. QED  BY <1>2, <1>3, <1>4

\* The calls before and after the creations, and the end of a sync.
LEMMA CallsKeepData ==
  ASSUME TypeInv, DataInv,
         \/ CallFails \/ SyncMissing \/ SyncStart \/ ListNamespaces \/ CreateNamespace
         \/ FakeGetNamespace \/ CreateRefused \/ SyncStatus
         \/ CleanUpDeletes \/ NoCleanUp \/ UpdateStatus \/ UpdateLost \/ Restart
  PROVE  DataInv'
  <1>1. CASE CallFails \/ CreateRefused
    <2>1. UNCHANGED <<stored, namespace, objects>> /\ pc' = "update"
      BY <1>1 DEF CallFails, CreateRefused, Fail, NothingElse, clusterVars
    <2>. QED  BY <2>1, DataFrame DEF DataInv, NamespaceKept, StartsAnew
  <1>2. CASE SyncMissing
    <2>1. UNCHANGED <<stored, namespace, objects, pc, next>>
      BY <1>2 DEF SyncMissing, clusterVars, syncVars
    <2>. QED  BY <2>1, DataFrame DEF DataInv, NamespaceKept
  <1>3. CASE SyncStart \/ ListNamespaces \/ FakeGetNamespace
    <2>1. /\ UNCHANGED <<stored, namespace, objects, next>>
          /\ pc \in {"idle", "listNamespaces", "getNamespace"}
          /\ pc' \notin {"create", "waitPvc", "waitPod"}
      BY <1>3 DEF SyncStart, TakeCopy, ListNamespaces, FakeGetNamespace, EnterSync,
                  NothingElse, clusterVars, syncVars
    <2>. QED  BY <2>1, DataFrame DEF DataInv, NamespaceKept, StartsAnew
  <1>4. CASE CreateNamespace
    <2>1. /\ UNCHANGED <<stored, objects, next>> /\ namespace' = "active"
          /\ pc = "createNamespace" /\ pc' \notin {"create", "waitPvc", "waitPod"}
      BY <1>4 DEF CreateNamespace, EnterSync, Fail
    <2>. QED  BY <2>1, DataFrame DEF DataInv, NamespaceKept, StartsAnew
  <1>5. ASSUME Restarted PROVE DataInv'
    <2>1. UNCHANGED <<stored, namespace, objects>> /\ pc' = "idle" /\ next' = 1
      BY <1>5 DEF Restarted, Return, clusterVars
    <2>. QED  BY <2>1, DataFrame DEF DataInv, NamespaceKept, StartsAnew
  <1>6. CASE SyncStatus /\ ~K6Panic
    <2>1. /\ UNCHANGED <<stored, namespace, objects>>
          /\ pc' \in {"cleanup", "update", "workerJob", "masterJob", "job", "pods"}
      BY <1>6 DEF SyncStatus, StatusSettled, GhzReadJob, K6ListJobs, LocustGetConfigMap,
                  LocustGetWorkerJob, LocustGetMasterJob, FakeStatusNamespace, FakeReadJob,
                  JMeterStatusNamespace, JMeterListPods, JMeterReadJob, ReadOnly, NothingElse,
                  Decide, ReadNext, NotFound, Fail, clusterVars
    <2>. QED  BY <2>1, DataFrame DEF DataInv, NamespaceKept, StartsAnew
  <1>7. CASE CleanUpDeletes \/ NoCleanUp \/ UpdateStatus \/ UpdateLost
    <2>1. /\ UNCHANGED <<namespace, objects>>
          /\ pc' = "update" \/ (pc' = "idle" /\ next' = 1)
      BY <1>7 DEF CleanUpDeletes, NoCleanUp, UpdateStatus, UpdateLost, EndSync, Return,
                  NothingElse, clusterVars
    <2>2. stored'.exists => stored.exists
      BY <1>7 DEF CleanUpDeletes, NoCleanUp, UpdateStatus, UpdateLost, NothingElse, Write, Absent
    <2>. QED  BY <2>1, <2>2, DataFrame DEF DataInv, NamespaceKept, StartsAnew
  <1>. QED  BY <1>1, <1>2, <1>3, <1>4, <1>5, <1>6, <1>7 DEF Restart, K6Panic

\* The creations: what the next object refers to is among those before it,
\* and none of that is a pod, which alone may have been skipped.
LEMMA CreatesKeepData ==
  ASSUME TypeInv, DataInv, CheckGuard \/ CreateObject \/ JMeterWaitPod \/ JMeterWaitPvc
  PROVE  DataInv'
  <1>1. /\ next \in DOMAIN Plan /\ DOMAIN Plan = 1..Len(Plan) /\ Len(Plan) \in Nat
        /\ \A k \in DOMAIN Plan : Plan[k] = Pvc => k + 1 \in DOMAIN Plan
    BY Positions DEF TypeInv, TypeOK, SyncTypeOK
  <1>2. UNCHANGED <<stored, namespace>>
    BY DEF CheckGuard, CreateObject, JMeterWaitPod, JMeterWaitPvc, Waited, NothingElse, clusterVars
  <1>3. NamespaceKept'
    BY <1>2 DEF DataInv, NamespaceKept
  <1>4. CASE CheckGuard
    <2>1. UNCHANGED <<objects, next>> /\ next = 1 /\ pc' \in {"create", "status"}
      BY <1>4 DEF CheckGuard, NothingElse, clusterVars, syncVars, DataInv, StartsAnew
    <2>2. StartsAnew' /\ NoGaps'
      BY <2>1 DEF StartsAnew, NoGaps
    <2>. QED  BY <1>2, <1>3, <2>1, <2>2 DEF DataInv, DataFound
  <1>5. CASE CreateObject
    <2>1. /\ pc = "create" /\ objects' = objects \cup {Plan[next]}
          /\ \/ pc' \in {"waitPvc", "waitPod"} /\ next' = next
             \/ pc' = AfterCreate(next) /\ next' = AfterIndex(next)
             \/ pc' = "update"
      BY <1>5 DEF CreateObject, Fail
    <2>2. StartsAnew'
      BY <2>1 DEF StartsAnew, AfterCreate
    <2>3. ASSUME stored.exists PROVE DataFound'
      <3>1. \A j \in 1..(next - 1) : Plan[j] \in objects \/ Plan[j][1] = "pod"
        BY <2>1, <2>3 DEF DataInv, NoGaps
      <3>2. Needs(Plan[next]) \subseteq {Plan[j] : j \in 1..(next - 1)}
        BY <1>1, NeedsComeFirst DEF Ordered
      <3>3. Needs(Plan[next]) \subseteq objects
        BY <3>1, <3>2, NeedsOf
      <3>. QED  BY <2>1, <2>3, <3>3 DEF DataInv, DataFound
    <2>4. ASSUME stored.exists PROVE NoGaps'
      <3>1. \A k \in 1..(next - 1) : Plan[k] \in objects' \/ Plan[k][1] = "pod"
        BY <2>1, <2>4 DEF DataInv, NoGaps
      <3>2. Plan[next] \in objects'
        BY <2>1
      <3>3. \A k \in 1..next : k \in 1..(next - 1) \/ k = next
        BY <1>1
      <3>4. next # Len(Plan) => AfterIndex(next) - 1 = next
        BY <1>1 DEF AfterIndex
      <3>. QED  BY <2>1, <3>1, <3>2, <3>3, <3>4 DEF NoGaps, AfterCreate
    <2>. QED  BY <1>2, <1>3, <2>2, <2>3, <2>4 DEF DataInv
  <1>6. ASSUME NEW k \in {next, next + 1}, k \in DOMAIN Plan, UNCHANGED objects,
               pc' = AfterCreate(k), next' = AfterIndex(k),
               pc \in {"waitPvc", "waitPod"}, k # next => Plan[k][1] = "pod"
        PROVE  DataInv'
    <2>1. StartsAnew'
      BY <1>6 DEF StartsAnew, AfterCreate
    <2>2. ASSUME stored.exists PROVE NoGaps'
      <3>1. \A j \in 1..next : Plan[j] \in objects \/ Plan[j][1] = "pod"
        <4>1. \A j \in 1..(next - 1) : Plan[j] \in objects \/ Plan[j][1] = "pod"
          BY <1>6, <2>2 DEF DataInv, NoGaps
        <4>2. Plan[next] \in objects
          BY <1>6, <2>2 DEF DataInv, NoGaps
        <4>3. \A j \in 1..next : j \in 1..(next - 1) \/ j = next
          BY <1>1
        <4>. QED  BY <4>1, <4>2, <4>3
      <3>2. \A j \in 1..k : j \in 1..next \/ (j = k /\ k # next)
        BY <1>1, <1>6
      <3>3. \A j \in 1..k : Plan[j] \in objects' \/ Plan[j][1] = "pod"
        BY <1>6, <3>1, <3>2
      <3>4. k # Len(Plan) => AfterIndex(k) - 1 = k
        BY <1>1, <1>6 DEF AfterIndex
      <3>. QED  BY <1>6, <3>3, <3>4 DEF NoGaps, AfterCreate
    <2>. QED  BY <1>2, <1>3, <1>6, <2>1, <2>2 DEF DataInv, DataFound
  <1>7. CASE JMeterWaitPod
    <2>1. /\ UNCHANGED objects /\ pc = "waitPod"
          /\ pc' = AfterCreate(next + 1 - 1) /\ next' = AfterIndex(next + 1 - 1)
      BY <1>7 DEF JMeterWaitPod, Waited, NothingElse, clusterVars
    <2>2. next + 1 - 1 = next
      BY <1>1
    <2>. QED  BY <1>1, <1>6, <2>1, <2>2
  <1>8. CASE JMeterWaitPvc
    <2>1. Plan[next] = Pvc /\ next + 1 \in DOMAIN Plan /\ Plan[next + 1][1] = "pod"
      BY <1>1, <1>8, NeedsComeFirst DEF JMeterWaitPvc, TypeInv, Waiting, Paired
    <2>2. /\ UNCHANGED objects /\ pc = "waitPvc"
          /\ \E steps \in {1, 2} : /\ pc' = AfterCreate(next + steps - 1)
                                   /\ next' = AfterIndex(next + steps - 1)
      BY <1>8 DEF JMeterWaitPvc, Waited, NothingElse, clusterVars
    <2>3. next + 1 - 1 = next /\ next + 2 - 1 = next + 1
      BY <1>1
    <2>. QED  BY <1>1, <1>6, <2>1, <2>2, <2>3
  <1>. QED  BY <1>4, <1>5, <1>7, <1>8

\* Every step keeps the invariant.
LEMMA DataNext == TypeInv /\ DataInv /\ [Next]_vars => DataInv'
  <1>1. TypeInv /\ DataInv /\ Next => DataInv'
    BY OutsideKeepsData, CallsKeepData, CreatesKeepData DEF Next, Worker
  <1>2. DataInv /\ UNCHANGED vars => DataInv'
    BY DEF DataInv, NamespaceKept, StartsAnew, NoGaps, DataFound, vars, clusterVars, syncVars
  <1>. QED  BY <1>1, <1>2

\* With every backend, number of pods and set of rejected objects, and after
\* any number of failing calls and restarts, a job or worker pod of a load
\* test never exists without what its containers refer to.
THEOREM PodsAreComplete == Spec => []PodsFindTheirData
  <1>1. Init => DataInv
    BY DEF Init, DataInv, NamespaceKept, StartsAnew, NoGaps, DataFound
  <1>2. DataInv => PodsFindTheirData
    BY DEF DataInv, DataFound, PodsFindTheirData
  <1>. QED  BY <1>1, <1>2, TypeInit, TypeNext, DataNext, PTL DEF Spec
=============================================================================
