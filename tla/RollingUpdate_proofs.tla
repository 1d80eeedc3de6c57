------------------------ MODULE RollingUpdate_proofs ------------------------
(***************************************************************************)
(* Proofs about two controllers at once.  Each keeps the invariant of      *)
(* Lifecycle_proofs although the other one works between any two of its    *)
(* calls: what one of them does is progress for the other one, which sees  *)
(* nothing of it but a later version of the load test.                     *)
(***************************************************************************)
EXTENDS RollingUpdate, Lifecycle_proofs

\* The old controller again, with the invariants and lemmas of the proofs.
O == INSTANCE Lifecycle_proofs
       WITH cache <- oCache, events <- oEvents, nsCached <- oNsCached,
            dirty <- oDirty, retry <- oRetry, pc <- oPc, loadTest <- oLoadTest,
            cachedPhase <- oCachedPhase, fresh <- oFresh, next <- oNext,
            waits <- oWaits, workerJob <- oWorkerJob, syncOk <- oSyncOk
-----------------------------------------------------------------------------
(***************************************************************************)
(* Old and O are the same instance of Controller: their definitions have   *)
(* the same bodies.  What reads the API server alone is also what the new  *)
(* controller has.                                                         *)
(***************************************************************************)

LEMMA SameValues ==
  /\ Old!Blank = O!Blank /\ Old!Creating = O!Creating /\ Old!Finished = O!Finished
  /\ Old!Errored = O!Errored /\ Old!NewJobStatus = O!NewJobStatus
  /\ Old!Absent = O!Absent /\ Old!Created = O!Created /\ Old!NoCopy = O!NoCopy
  /\ Old!JobStatus = O!JobStatus /\ Old!Phase = O!Phase /\ Old!Version = O!Version
  /\ Old!Copy = O!Copy
  BY DEF Old!Blank, O!Blank, Old!Creating, O!Creating, Old!Starting, O!Starting,
     Old!Running, O!Running, Old!Finished, O!Finished, Old!Errored, O!Errored,
     Old!NewJobStatus, O!NewJobStatus, Old!Absent, O!Absent, Old!Created, O!Created,
     Old!NoCopy, O!NoCopy, Old!CompletionTime, O!CompletionTime, Old!JobStatus,
     O!JobStatus, Old!Phase, O!Phase, Old!Version, O!Version, Old!Copy, O!Copy

LEMMA SameObjects ==
  /\ Old!ConfigMap = O!ConfigMap /\ Old!Pvc = O!Pvc
  /\ Old!MasterJob = O!MasterJob /\ Old!WorkerJob = O!WorkerJob /\ Old!Job(0) = O!Job(0)
  /\ Old!Plan = O!Plan /\ Old!Objects = O!Objects /\ Old!Jobs = O!Jobs
  /\ Old!Pods = O!Pods /\ Old!Guard = O!Guard
  BY DEF Old!ConfigMap, O!ConfigMap, Old!TestData, O!TestData, Old!Secret, O!Secret,
     Old!Service, O!Service, Old!Pvc, O!Pvc, Old!Job, O!Job, Old!Pod, O!Pod,
     Old!MasterJob, O!MasterJob, Old!WorkerJob, O!WorkerJob, Old!OnlyIf, O!OnlyIf,
     Old!FakePlan, O!FakePlan, Old!GhzPlan, O!GhzPlan, Old!K6Plan, O!K6Plan,
     Old!LocustPlan, O!LocustPlan, Old!JMeterWorkers, O!JMeterWorkers, Old!JMeterPlan,
     O!JMeterPlan, Old!Plan, O!Plan, Old!Objects, O!Objects, Old!Jobs, O!Jobs, Old!Pods,
     O!Pods, Old!Guard, O!Guard

LEMMA SameVerdicts ==
  /\ \A s : /\ Old!FakePhase(s) = O!FakePhase(s) /\ Old!GhzPhase(s) = O!GhzPhase(s)
            /\ Old!JMeterPhase(s) = O!JMeterPhase(s)
            /\ Old!WorkerPodPhase(s) = O!WorkerPodPhase(s)
            /\ Old!First(s) = O!First(s) /\ Old!Cardinality(s) = O!Cardinality(s)
  /\ \A m, w : Old!LocustPhase(m, w) = O!LocustPhase(m, w)
  /\ \A l, s : /\ Old!K6Phase(l, s) = O!K6Phase(l, s)
               /\ Old!K6JobStatus(l, s) = O!K6JobStatus(l, s)
  /\ \A p, c, a : Old!LifeTimeExceeded(p, c, a) = O!LifeTimeExceeded(p, c, a)
  BY DEF Old!Starting, O!Starting, Old!Running, O!Running, Old!Finished, O!Finished,
     Old!Errored, O!Errored, Old!FakePhase, O!FakePhase, Old!GhzPhase, O!GhzPhase,
     Old!JMeterPhase, O!JMeterPhase, Old!WorkerPodPhase, O!WorkerPodPhase, Old!First,
     O!First, Old!Cardinality, O!Cardinality, Old!LocustPhase, O!LocustPhase,
     Old!K6Phase, O!K6Phase, Old!K6JobStatus, O!K6JobStatus, Old!LifeTimeExceeded,
     O!LifeTimeExceeded

LEMMA SameParts ==
  /\ (Old!Expired <=> O!Expired) /\ (Old!Fault <=> O!Fault) /\ (Old!Fail <=> O!Fail)
  /\ (Old!NothingElse <=> O!NothingElse) /\ Old!EnterSync = O!EnterSync
  /\ (Old!TakeCopy <=> O!TakeCopy) /\ (Old!Return <=> O!Return)
  /\ Old!Began = O!Began /\ Old!Listed = O!Listed
  /\ \A k : Old!AfterCreate(k) = O!AfterCreate(k) /\ Old!AfterIndex(k) = O!AfterIndex(k)
  /\ \A v : Old!Write(v) <=> O!Write(v)
  /\ \A n : Old!Waited(n) <=> O!Waited(n)
  /\ Old!ReadOnly <=> O!ReadOnly
  /\ \A p, c : Old!Decide(p, c) <=> O!Decide(p, c)
  /\ \A c : Old!ReadNext(c) <=> O!ReadNext(c)
  /\ Old!NotFound <=> O!NotFound
  <1>. USE SameValues, SameObjects
  <1>1. (Old!Expired <=> O!Expired) /\ (Old!Fault <=> O!Fault) /\ (Old!Fail <=> O!Fail)
    BY DEF Old!Expired, O!Expired, Old!Fault, O!Fault, Old!Fail, O!Fail
  <1>2. Old!NothingElse <=> O!NothingElse
    BY DEF Old!NothingElse, O!NothingElse, Old!clusterVars, O!clusterVars,
       Old!informerVars, O!informerVars, Old!queueVars, O!queueVars
  <1>3. Old!EnterSync = O!EnterSync
    BY DEF Old!EnterSync, O!EnterSync
  <1>4. Old!TakeCopy <=> O!TakeCopy
    BY <1>3 DEF Old!TakeCopy, O!TakeCopy, Old!CarriesStoredVersion, O!CarriesStoredVersion
  <1>5. Old!Return <=> O!Return
    BY DEF Old!Return, O!Return
  <1>6. Old!Began = O!Began /\ Old!Listed = O!Listed
    BY DEF Old!Began, O!Began, Old!Listed, O!Listed
  <1>7. \A k : Old!AfterCreate(k) = O!AfterCreate(k) /\ Old!AfterIndex(k) = O!AfterIndex(k)
    BY DEF Old!AfterCreate, O!AfterCreate, Old!AfterIndex, O!AfterIndex
  <1>8. \A v : Old!Write(v) <=> O!Write(v)
    BY DEF Old!Write, O!Write
  <1>9. \A n : Old!Waited(n) <=> O!Waited(n)
    BY <1>2, <1>7 DEF Old!Waited, O!Waited
  <1>10. Old!ReadOnly <=> O!ReadOnly
    BY <1>1, <1>2 DEF Old!ReadOnly, O!ReadOnly
  <1>11. \A p, c : Old!Decide(p, c) <=> O!Decide(p, c)
    BY DEF Old!Decide, O!Decide
  <1>12. \A c : Old!ReadNext(c) <=> O!ReadNext(c)
    BY <1>6 DEF Old!ReadNext, O!ReadNext
  <1>13. Old!NotFound <=> O!NotFound
    BY <1>1, <1>6 DEF Old!NotFound, O!NotFound
  <1>. QED
    BY <1>1, <1>2, <1>3, <1>4, <1>5, <1>6, <1>7, <1>8, <1>9, <1>10, <1>11, <1>12, <1>13

LEMMA SameWorker == Old!Worker <=> O!Worker
  <1>. USE SameValues, SameObjects, SameParts
       DEF Old!clusterVars, O!clusterVars, Old!informerVars, O!informerVars,
           Old!queueVars, O!queueVars, Old!syncVars, O!syncVars
  <1>1. /\ (Old!SyncMissing <=> O!SyncMissing)
        /\ (Old!SyncStart <=> O!SyncStart)
    BY DEF Old!SyncMissing, O!SyncMissing, Old!SyncStart, O!SyncStart
  <1>2. Old!CallFails <=> O!CallFails
    BY DEF Old!CallFails, O!CallFails, Old!StatusCalls, O!StatusCalls
  <1>3. /\ (Old!ListNamespaces <=> O!ListNamespaces)
        /\ (Old!CreateNamespace <=> O!CreateNamespace)
    BY DEF Old!ListNamespaces, O!ListNamespaces, Old!CreateNamespace, O!CreateNamespace
  <1>4. /\ (Old!FakeGetNamespace <=> O!FakeGetNamespace)
        /\ (Old!CheckGuard <=> O!CheckGuard)
    BY DEF Old!FakeGetNamespace, O!FakeGetNamespace, Old!CheckGuard, O!CheckGuard
  <1>5. /\ (Old!CreateObject <=> O!CreateObject)
        /\ (Old!CreateRefused <=> O!CreateRefused)
    BY DEF Old!Collides, O!Collides, Old!CreateObject, O!CreateObject, Old!CreateRefused, O!CreateRefused
  <1>6. /\ (Old!JMeterWaitPod <=> O!JMeterWaitPod)
        /\ (Old!JMeterWaitPvc <=> O!JMeterWaitPvc)
    BY DEF Old!JMeterWaitPod, O!JMeterWaitPod, Old!JMeterWaitPvc, O!JMeterWaitPvc
  <1>7. /\ (Old!StatusSettled <=> O!StatusSettled)
        /\ (Old!GhzReadJob <=> O!GhzReadJob)
    BY SameVerdicts
       DEF Old!StatusSettled, O!StatusSettled, Old!GhzReadJob, O!GhzReadJob
  <1>8. /\ (Old!K6ListJobs <=> O!K6ListJobs)
        /\ (Old!K6Panic <=> O!K6Panic)
    BY SameVerdicts
       DEF Old!K6ListJobs, O!K6ListJobs, Old!K6Panic, O!K6Panic, Old!Restarted, O!Restarted
  <1>9. /\ (Old!LocustGetConfigMap <=> O!LocustGetConfigMap)
        /\ (Old!LocustGetWorkerJob <=> O!LocustGetWorkerJob)
        /\ (Old!LocustGetMasterJob <=> O!LocustGetMasterJob)
    BY SameVerdicts
       DEF Old!LocustGetConfigMap, O!LocustGetConfigMap, Old!LocustGetWorkerJob,
       O!LocustGetWorkerJob, Old!LocustGetMasterJob, O!LocustGetMasterJob
  <1>10. /\ (Old!FakeStatusNamespace <=> O!FakeStatusNamespace)
        /\ (Old!FakeReadJob <=> O!FakeReadJob)
    BY SameVerdicts
       DEF Old!FakeStatusNamespace, O!FakeStatusNamespace, Old!FakeReadJob, O!FakeReadJob
  <1>11. /\ (Old!JMeterStatusNamespace <=> O!JMeterStatusNamespace)
        /\ (Old!JMeterListPods <=> O!JMeterListPods)
        /\ (Old!JMeterReadJob <=> O!JMeterReadJob)
    BY SameVerdicts
       DEF Old!JMeterStatusNamespace, O!JMeterStatusNamespace, Old!JMeterListPods,
       O!JMeterListPods, Old!JMeterReadJob, O!JMeterReadJob
  <1>12. /\ (Old!CleanUpDeletes <=> O!CleanUpDeletes)
        /\ (Old!NoCleanUp <=> O!NoCleanUp)
    BY SameVerdicts
       DEF Old!CleanUpDeletes, O!CleanUpDeletes, Old!NoCleanUp, O!NoCleanUp, Old!CleanUpDue,
       O!CleanUpDue
  <1>13. /\ (Old!UpdateStatus <=> O!UpdateStatus)
        /\ (Old!UpdateLost <=> O!UpdateLost)
    BY DEF Old!UpdateStatus, O!UpdateStatus, Old!UpdateLost, O!UpdateLost, Old!EndSync,
       O!EndSync
  <1>. QED
    BY ONLY <1>1, <1>2, <1>3, <1>4, <1>5, <1>6, <1>7, <1>8, <1>9, <1>10, <1>11, <1>12, <1>13
       DEF Old!Worker, O!Worker, Old!SyncStatus, O!SyncStatus

LEMMA SameRest ==
  /\ (Old!Init <=> O!Init) /\ (Old!Deliver <=> O!Deliver)
  /\ (Old!QueueTypeOK <=> O!QueueTypeOK) /\ (Old!SyncTypeOK <=> O!SyncTypeOK)
  /\ Old!SyncedMeansCreated <=> O!SyncedMeansCreated
  BY SameValues, SameObjects
     DEF Old!Init, O!Init, Old!Deliver, O!Deliver, Old!QueueTypeOK, O!QueueTypeOK,
         Old!SyncTypeOK, O!SyncTypeOK, Old!PCs, O!PCs, Old!SyncedMeansCreated,
         O!SyncedMeansCreated, Old!clusterVars, O!clusterVars, Old!syncVars, O!syncVars

LEMMA SharedValues ==
  /\ Objects = O!Objects /\ Jobs = O!Jobs /\ Pods = O!Pods /\ Guard = O!Guard
  /\ Version = O!Version /\ JobStatus = O!JobStatus /\ PodState = O!PodState
  /\ Absent = O!Absent /\ Errored = O!Errored /\ Running = O!Running
  /\ Finished = O!Finished
  BY DEF ConfigMap, O!ConfigMap, TestData, O!TestData, Secret, O!Secret, Service, O!Service,
     Pvc, O!Pvc, Job, O!Job, Pod, O!Pod, MasterJob, O!MasterJob, WorkerJob, O!WorkerJob,
     OnlyIf, O!OnlyIf, FakePlan, O!FakePlan, GhzPlan, O!GhzPlan, K6Plan, O!K6Plan,
     LocustPlan, O!LocustPlan, JMeterWorkers, O!JMeterWorkers, JMeterPlan, O!JMeterPlan,
     Plan, O!Plan, Objects, O!Objects, Jobs, O!Jobs, Pods, O!Pods, Guard, O!Guard,
     Blank, O!Blank, Creating, O!Creating, Starting, O!Starting, Running, O!Running,
     Finished, O!Finished, Errored, O!Errored, Phase, O!Phase, CompletionTime,
     O!CompletionTime, JobStatus, O!JobStatus, PodState, O!PodState, Version, O!Version,
     Absent, O!Absent

LEMMA SharedMoves == Moves = O!Moves
  BY DEF Moves, O!Moves, FakeMoves, O!FakeMoves, GhzMoves, O!GhzMoves, K6Moves, O!K6Moves,
     LocustMoves, O!LocustMoves, JMeterMoves, O!JMeterMoves, Started, O!Started,
     Outcome, O!Outcome, Phase, O!Phase, Blank, O!Blank, Creating, O!Creating, Starting,
     O!Starting, Running, O!Running, Finished, O!Finished, Errored, O!Errored

LEMMA SharedServer == (ServerTypeOK <=> O!ServerTypeOK) /\ (ServerTypeOK' <=> O!ServerTypeOK')
  BY SharedValues DEF ServerTypeOK, O!ServerTypeOK

LEMMA SharedProgress == Progress <=> O!Progress
  BY SharedValues
     DEF Progress, O!Progress, JobGrows, O!JobGrows, Begun, O!Begun, Success, O!Success,
         Terminal, O!Terminal

LEMMA SharedCommon ==
  ASSUME Backend # "JMeter"
  PROVE  (Common <=> O!Common) /\ (Common' <=> O!Common')
  <1>. USE SharedValues
       DEF Common, O!Common, NamespaceKept, O!NamespaceKept, JobsAreSane, O!JobsAreSane,
           ByJobs, O!ByJobs, SuccessIsFinal, O!SuccessIsFinal, Earned, O!Earned,
           AllSucceeded, O!AllSucceeded, AllJobsDone, O!AllJobsDone, Begun, O!Begun,
           Success, O!Success, Terminal, O!Terminal
  <1>1. Common <=> O!Common
    OBVIOUS
  <1>2. Common' <=> O!Common'
    OBVIOUS
  <1>. QED  BY ONLY <1>1, <1>2

\* What the modules behind O assume of the constants.
LEMMA Assumed ==
  /\ Backend \in {"Fake", "Ghz", "K6", "Locust", "JMeter"} /\ N \in Nat \ {0}
  /\ {HasTestData, HasEnvVars, HasCustomData} \subseteq BOOLEAN
  /\ CleanUp \in BOOLEAN /\ Rejected \subseteq O!Objects
  /\ WaitsPerSync \in Nat \ {0} /\ MaxFaults \in Nat
  BY SharedValues, BackendAssumption, SizeAssumption, SpecAssumption, CleanUpAssumption,
     RejectedAssumption, WaitsAssumption, FaultsAssumption

-----------------------------------------------------------------------------
(***************************************************************************)
(* The inductive invariant.  JMeter is left out of its second half: what a *)
(* JMeter controller has seen, it has seen in a namespace cache of its     *)
(* own, and the model stops the one of the old controller.                 *)
(***************************************************************************)
BothTypeInv ==
  /\ TypeInv /\ O!TypeInv
  /\ old = "syncing" <=> oPc # "idle"

BothLives == FullInv /\ O!LInv /\ (old = "waiting" => O!LastVersion)

BothInv == BothTypeInv /\ (Backend # "JMeter" => BothLives)

LEMMA BothStart == BothInit => BothInv
  <1>. SUFFICES ASSUME BothInit PROVE BothInv
    OBVIOUS
  <1>1. FullInv /\ O!FullInv
    BY FullInit, O!FullInit, Assumed, SameRest DEF BothInit
  <1>2. TypeInv /\ O!TypeInv
    BY <1>1 DEF FullInv, LInv, IInv, O!FullInv, O!LInv, O!IInv
  <1>3. oPc = "idle" /\ old = "waiting"
    BY SameRest DEF BothInit, O!Init
  <1>. QED  BY <1>1, <1>2, <1>3 DEF BothInv, BothTypeInv, BothLives, FullInv, O!FullInv

\* Two steps that leave the API server and the cluster alone are progress.
LEMMA NothingIsProgress == UNCHANGED <<stored, clusterVars>> => Progress
  BY DEF Progress, JobGrows, clusterVars

LEMMA OldSeesIt == OldSees => O!Sees
  BY DEF OldSees, O!Sees, O!queueVars

LEMMA NewSeesIt == NewSees => Sees
  BY DEF NewSees, Sees, queueVars

LEMMA GivesUp ==
  /\ NamespaceExists => CreateGivesUp /\ UNCHANGED <<stored, clusterVars>>
  /\ OldNamespaceExists => O!CreateGivesUp /\ UNCHANGED <<stored, clusterVars>>
  <1>1. NamespaceExists => CreateGivesUp /\ UNCHANGED <<stored, clusterVars>>
    BY DEF NamespaceExists, CreateGivesUp
  <1>2. OldNamespaceExists => O!CreateGivesUp /\ UNCHANGED <<stored, clusterVars>>
    BY SameParts
       DEF OldNamespaceExists, O!CreateGivesUp, O!clusterVars, clusterVars, O!informerVars,
           O!queueVars
  <1>. QED  BY <1>1, <1>2

\* The new controller, the user, the cluster, the clock, and nobody at all.
LEMMA NewStepsKeep ==
  ASSUME BothInv, NewSteps \/ UNCHANGED allVars
  PROVE  BothInv'
  <1>1. O!Sees /\ UNCHANGED <<old, oPc>>
        /\ (old = "waiting" => oEvents' = IF stored' # stored THEN Append(oEvents, stored')
                                                              ELSE oEvents)
    <2>1. UNCHANGED allVars => OldSees
      <3>1. oFresh \in BOOLEAN
        BY DEF BothInv, BothTypeInv, O!TypeInv, O!TypeOK, O!SyncTypeOK
      <3>2. UNCHANGED allVars => oFresh' = oFresh /\ stored' = stored
        BY DEF allVars, oVars, oSyncVars, vars
      <3>3. UNCHANGED allVars => oFresh' = (oFresh /\ stored' = stored)
        BY <3>1, <3>2, Zenon
      <3>. QED  BY <3>2, <3>3 DEF allVars, oVars, oSyncVars, OldSees
    <2>. QED  BY <2>1, OldSeesIt DEF NewSteps, OldSees
  <1>2. [Next]_vars \/ (CreateGivesUp /\ UNCHANGED <<stored, clusterVars>>)
    BY GivesUp DEF NewSteps, allVars
  <1>3. TypeInv'
    BY <1>2, TypeNext, LastStepsType DEF BothInv, BothTypeInv
  <1>4. ServerTypeOK' /\ O!ServerTypeOK' /\ faults' \in 0..MaxFaults /\ stored' \in O!Version
    BY <1>3, SharedServer DEF TypeInv, TypeOK, SyncTypeOK, O!ServerTypeOK
  <1>5. O!TypeInv'
    BY <1>1, <1>4, O!OtherType, Assumed DEF BothInv, BothTypeInv
  <1>6. ASSUME Backend # "JMeter" PROVE BothLives'
    <2>1. FullInv /\ O!LInv /\ (old = "waiting" => O!LastVersion) /\ TypeInv /\ O!TypeInv
      BY <1>6 DEF BothInv, BothLives, BothTypeInv
    <2>2. LInv'
      BY <1>2, <2>1, LifeNext, GivesUpLives DEF FullInv
    <2>3. LastVersion'
      <3>1. CreateGivesUp => UNCHANGED <<stored, cache, events>>
        BY DEF CreateGivesUp, informerVars
      <3>. QED  BY <1>2, <2>1, <3>1, VersionNext DEF FullInv, LastVersion
    <2>4. O!Common'
      <3>1. Common'
        BY <2>2, CommonHolds, PTL
      <3>. QED  BY <1>6, <3>1, SharedCommon
    <2>5. O!Progress
      <3>1. NamespaceKept
        BY <2>1 DEF FullInv, LInv, LifeInv
      <3>. QED  BY <1>2, <2>1, <3>1, StepsProgress, NothingIsProgress, SharedProgress
    <2>6. O!LInv'
      BY <1>1, <1>4, <2>1, <2>4, <2>5, O!OtherLives, Assumed
    <2>7. old' = "waiting" => O!LastVersion'
      BY <1>1, <1>4, <2>1, O!OtherVersion, Assumed
    <2>. QED  BY <2>2, <2>3, <2>6, <2>7 DEF BothLives, FullInv
  <1>. QED  BY <1>1, <1>3, <1>5, <1>6 DEF BothInv, BothTypeInv

LEMMA OldCommonHolds == O!LInv => O!Common
  BY O!CommonHolds, Assumed

\* A step of the old controller that leaves its lister and its sync right.
LEMMA NewFollows ==
  ASSUME BothInv, NewSees, O!TypeInv',
         Backend # "JMeter" => O!Progress /\ O!LInv'
  PROVE  TypeInv' /\ (Backend # "JMeter" => FullInv')
  <1>1. Sees /\ events' = IF stored' # stored THEN Append(events, stored') ELSE events
    BY NewSeesIt DEF NewSees
  <1>2. ServerTypeOK' /\ faults' \in 0..MaxFaults /\ stored' \in Version
    BY SharedServer DEF O!TypeInv, O!TypeOK, O!SyncTypeOK, ServerTypeOK
  <1>3. TypeInv'
    BY <1>1, <1>2, OtherType DEF BothInv, BothTypeInv
  <1>4. ASSUME Backend # "JMeter" PROVE FullInv'
    <2>1. LInv /\ LastVersion /\ TypeInv
      BY <1>4 DEF BothInv, BothLives, BothTypeInv, FullInv
    <2>2. Common'
      <3>1. O!LInv'
        BY <1>4
      <3>2. O!Common'
        BY <3>1, OldCommonHolds, PTL
      <3>. QED  BY <1>4, <3>2, SharedCommon
    <2>3. Progress
      BY <1>4, SharedProgress
    <2>. QED  BY <1>1, <1>2, <2>1, <2>2, <2>3, OtherLives, OtherVersion DEF FullInv
  <1>. QED  BY <1>3, <1>4

LEMMA OldDeliversKeep ==
  ASSUME BothInv, OldDelivers
  PROVE  BothInv'
  <1>1. O!Deliver /\ NewSees /\ old = "waiting" /\ UNCHANGED old
    BY SameRest DEF OldDelivers
  <1>2. O!Next /\ UNCHANGED <<oPc, stored, clusterVars>>
    BY <1>1 DEF O!Next, O!Informers, O!Deliver, O!clusterVars, clusterVars
  <1>3. O!TypeInv'
    BY <1>2, O!TypeNext, Assumed DEF BothInv, BothTypeInv
  <1>4. ASSUME Backend # "JMeter" PROVE O!Progress /\ O!LInv' /\ O!LastVersion'
    <2>1. O!TypeInv /\ O!LInv /\ O!LastVersion
      BY <1>1, <1>4 DEF BothInv, BothTypeInv, BothLives
    <2>2. O!LInv' /\ O!LastVersion'
      BY <1>2, <2>1, O!LifeNext, O!VersionNext, Assumed
    <2>. QED  BY <1>2, <2>2, NothingIsProgress, SharedProgress
  <1>5. TypeInv' /\ (Backend # "JMeter" => FullInv')
    BY <1>1, <1>3, <1>4, NewFollows
  <1>. QED  BY <1>1, <1>2, <1>3, <1>4, <1>5 DEF BothInv, BothTypeInv, BothLives

LEMMA OldWorksKeeps ==
  ASSUME BothInv, OldWorks
  PROVE  BothInv'
  <1>1. NewSees /\ oPc # "idle" /\ old' = IF oPc' = "idle" THEN "gone" ELSE "syncing"
    BY DEF OldWorks, BothInv, BothTypeInv
  <1>2. O!Next \/ (O!CreateGivesUp /\ UNCHANGED <<stored, clusterVars>>)
    BY SameWorker, GivesUp DEF OldWorks, O!Next
  <1>3. O!TypeInv'
    BY <1>2, O!TypeNext, O!LastStepsType, Assumed DEF BothInv, BothTypeInv
  <1>4. ASSUME Backend # "JMeter" PROVE O!Progress /\ O!LInv'
    <2>1. O!TypeInv /\ O!LInv
      BY <1>4 DEF BothInv, BothTypeInv, BothLives
    <2>2. O!LInv'
      BY <1>1, <1>2, <2>1, O!LifeNext, O!GivesUpLives, Assumed
    <2>3. O!NamespaceKept
      BY <2>1 DEF O!LInv, O!LifeInv
    <2>. QED
      BY <1>2, <2>1, <2>2, <2>3, O!StepsProgress, NothingIsProgress, SharedProgress, Assumed
  <1>5. TypeInv' /\ (Backend # "JMeter" => FullInv')
    BY <1>1, <1>3, <1>4, NewFollows
  <1>. QED  BY <1>1, <1>3, <1>4, <1>5 DEF BothInv, BothTypeInv, BothLives

\* It takes its last copy, or its process ends.
LEMMA LastStepsKeep ==
  ASSUME BothInv, OldStarts \/ OldEnds
  PROVE  BothInv'
  <1>1. UNCHANGED vars /\ O!ListerGone
    BY SharedValues, SameValues
       DEF OldStarts, OldEnds, OldListerGone, O!ListerGone, vars, clusterVars, O!clusterVars,
           Absent
  <1>2. \/ O!TakeCopy /\ old = "waiting" /\ old' = "syncing" /\ oPc' # "idle"
        \/ O!Return /\ old' = "gone" /\ oPc' = "idle"
    <2>1. OldStarts => O!TakeCopy /\ old = "waiting" /\ old' = "syncing"
      BY SameParts DEF OldStarts
    <2>2. O!TakeCopy => oPc' # "idle"
      BY DEF O!TakeCopy, O!EnterSync
    <2>3. OldEnds => O!Return /\ old' = "gone" /\ oPc' = "idle"
      BY SameParts DEF OldEnds, O!Return
    <2>. QED  BY <2>1, <2>2, <2>3
  <1>3. TypeInv' /\ O!TypeInv'
    BY <1>1, <1>2, TypeNext, O!LastStepsType, Assumed DEF BothInv, BothTypeInv
  <1>4. ASSUME Backend # "JMeter" PROVE BothLives'
    <2>1. FullInv /\ O!LInv /\ (old = "waiting" => O!LastVersion) /\ TypeInv
      BY <1>4 DEF BothInv, BothLives, BothTypeInv
    <2>2. O!LInv'
      BY <1>1, <1>2, <1>4, <2>1, O!LastStepsLive, Assumed
    <2>3. FullInv'
      BY <1>1, <2>1, LifeNext, VersionNext DEF FullInv
    <2>. QED  BY <1>2, <2>2, <2>3 DEF BothLives
  <1>. QED  BY <1>2, <1>3, <1>4 DEF BothInv, BothTypeInv

LEMMA BothCorrect == BothSpec => []BothInv
  <1>1. BothInv /\ [BothNext]_allVars => BothInv'
    BY NewStepsKeep, OldDeliversKeep, OldWorksKeeps, LastStepsKeep DEF BothNext
  <1>. QED  BY <1>1, BothStart, PTL DEF BothSpec
-----------------------------------------------------------------------------
\* For every backend, the variables of both controllers keep their types.
THEOREM BothTypesCorrect == BothSpec => []BothTypeOK
  <1>1. BothInv => BothTypeOK
    BY SameRest DEF BothInv, BothTypeInv, BothTypeOK, TypeInv, TypeOK, O!TypeInv, O!TypeOK
  <1>. QED  BY <1>1, BothCorrect, PTL

\* For Ghz, K6 and Locust, whatever the other controller does between two of
\* its calls, no Sync of either returns before every object of a load test
\* that still exists has been created.
THEOREM BothSyncedComplete == BothSpec => [](ByJobs => BothSyncedMeansCreated)
  <1>1. BothInv => (ByJobs => BothSyncedMeansCreated)
    <2>. SUFFICES ASSUME BothInv, ByJobs PROVE BothSyncedMeansCreated
      OBVIOUS
    <2>1. LInv /\ O!LInv
      BY DEF BothInv, BothLives, FullInv, ByJobs
    <2>2. SyncedMeansCreated
      BY <2>1 DEF LInv, IInv, FinishedInv, Calls, Live, CreatedSoFar, Reading,
         SyncedMeansCreated
    <2>3. O!SyncedMeansCreated
      BY <2>1
         DEF ByJobs, O!ByJobs, O!LInv, O!IInv, O!FinishedInv, O!Calls, O!Live,
             O!CreatedSoFar, O!Reading, O!SyncedMeansCreated
    <2>. QED  BY <2>2, <2>3, SameRest DEF BothSyncedMeansCreated
  <1>. QED  BY <1>1, BothCorrect, PTL

\* The stored load test changes as it does with one controller.
LEMMA BothStoredMoves ==
  ASSUME BothInv, [BothNext]_allVars, Backend # "JMeter"
  PROVE  \/ UNCHANGED stored
         \/ stored.exists /\ stored' = Absent
         \/ /\ stored.exists /\ stored'.exists
            /\ <<stored.phase, stored'.phase>> \in Moves
  <1>1. LInv /\ O!LInv
    BY DEF BothInv, BothLives, FullInv
  <1>2. CASE NewSteps
    <2>1. Next \/ UNCHANGED stored
      BY <1>2, GivesUp DEF NewSteps
    <2>. QED  BY <1>1, <2>1, StoredMoves
  <1>3. CASE OldWorks
    <2>1. O!Next \/ UNCHANGED stored
      BY <1>3, SameWorker, GivesUp DEF OldWorks, O!Next
    <2>. QED  BY <1>1, <2>1, O!StoredMoves, SharedValues, SharedMoves, Assumed
  <1>4. CASE OldDelivers
    BY <1>4, SameRest DEF OldDelivers, O!Deliver
  <1>5. CASE OldStarts \/ OldEnds \/ UNCHANGED allVars
    BY <1>5 DEF OldStarts, OldEnds, allVars, vars
  <1>. QED  BY <1>2, <1>3, <1>4, <1>5 DEF BothNext

\* On every backend but JMeter, two controllers at once show a client the
\* moves of one: each move is permitted by the backend, one after the other,
\* until the load test is gone for good.
THEOREM BothLifecycleImplemented ==
  ASSUME Backend # "JMeter"
  PROVE  BothSpec => BothImplementLifecycle
  <1> DEFINE seen == IF stored.exists THEN stored.phase ELSE "gone"
  <1>1. BothInit => Lifecycle!Init
    <2>1. BothInit => stored = Created
      BY DEF BothInit, Init
    <2>2. Created.exists /\ Created.phase = Blank
      BY DEF Created
    <2>. QED  BY <2>1, <2>2 DEF Lifecycle!Init, Lifecycle!Blank, Blank
  <1>2. BothInv /\ [BothNext]_allVars => [Lifecycle!Next]_seen
    <2>. SUFFICES ASSUME BothInv, [BothNext]_allVars PROVE [Lifecycle!Next]_seen
      OBVIOUS
    <2>1. CASE UNCHANGED stored
      BY <2>1
    <2>2. CASE stored.exists /\ stored' = Absent
      <3>1. stored.phase # "gone"
        BY DEF BothInv, BothTypeInv, TypeInv, TypeOK, ServerTypeOK, Version, Phase, Blank,
           Creating, Starting, Running, Finished, Errored
      <3>. QED  BY <2>2, <3>1 DEF Absent, Lifecycle!Next, Lifecycle!Delete, Lifecycle!Gone
    <2>3. CASE stored.exists /\ stored'.exists /\ <<stored.phase, stored'.phase>> \in Moves
      <3>1. Lifecycle!Phase = Phase
        BY DEF Lifecycle!Phase, Phase, Lifecycle!Blank, Blank, Lifecycle!Creating, Creating,
           Lifecycle!Starting, Starting, Lifecycle!Running, Running, Lifecycle!Finished,
           Finished, Lifecycle!Errored, Errored
      <3>. QED  BY <2>3, <3>1, MovesAtTheEnds DEF Lifecycle!Next, Lifecycle!Move
    <2>. QED  BY <2>1, <2>2, <2>3, BothStoredMoves
  <1>. QED
    BY <1>1, <1>2, BothCorrect, PTL DEF BothSpec, BothImplementLifecycle, Lifecycle!Spec
=============================================================================
