-------------------------- MODULE Finished_proofs --------------------------
(***************************************************************************)
(* Why a stored Finished is right, and why a Sync that returned nil has    *)
(* created everything, for the backends that decide by their jobs alone:   *)
(* Ghz, K6 and Locust, with every number of pods, set of rejected objects, *)
(* number of faults and clean-up setting.                                  *)
(***************************************************************************)
EXTENDS Controller_proofs

\* Backends that neither wait nor read a namespace or a pod.
ByJobs == Backend \in {"Ghz", "K6", "Locust"}

-----------------------------------------------------------------------------
(***************************************************************************)
(* The inductive invariant.  What it says of the objects only holds while  *)
(* the load test exists: the garbage collector undoes it afterwards, when  *)
(* no step brings the load test back.                                      *)
(***************************************************************************)

\* A job that only shows success has completed.
Success(s) == ~s.active /\ s.succeeded /\ ~s.failed

SuccessIsFinal == \A j \in Jobs : Success(job[j]) => Terminal(job[j])

\* Which calls these backends make, and that a sync starts the plan anew.
Calls ==
  /\ pc \notin {"getNamespace", "waitPvc", "waitPod", "job", "pods"}
  /\ pc \in {"workerJob", "masterJob"} => Backend = "Locust"
  /\ pc \in {"idle", "listNamespaces", "createNamespace", "guard"} => next = 1

Reading == {"status", "workerJob", "masterJob"}

\* The creations are made in the order of the plan, and the object the
\* guard looks for is the last one.
CreatedSoFar ==
  /\ pc = "create" => \A k \in 1..(next - 1) : Plan[k] \in objects
  /\ pc \in Reading => Objects \subseteq objects
  /\ Guard \cap objects # {} => Objects \subseteq objects

\* What was read of the worker job before the master's is not outdated.
WorkerSeen == pc = "masterJob" /\ Success(workerJob) => Terminal(job[WorkerJob])

\* No copy of the load test says Finished before its jobs are done: neither
\* the stored one, nor the lister's, nor one on its way there, nor the one
\* syncHandler works on.
NobodySaysFinished ==
  /\ stored.phase # Finished /\ cache.phase # Finished /\ loadTest.phase # Finished
  /\ \A i \in DOMAIN events : events[i].phase # Finished

Live == CreatedSoFar /\ WorkerSeen /\ (~AllJobsDone => NobodySaysFinished)

FinishedInv ==
  /\ NamespaceKept /\ SuccessIsFinal /\ Calls
  /\ stored.exists => Live

IInv == TypeInv /\ (ByJobs => FinishedInv)
-----------------------------------------------------------------------------
(***************************************************************************)
(* The plans of the three backends.                                        *)
(***************************************************************************)

\* Objects nobody waits for.
Plain == {o \in Object : o[1] \notin {"pod", "pvc"}}

\* The plans only hold objects nobody waits for.
LEMMA PlanIsPlain == ByJobs => Objects \subseteq Plain
  <1>. SUFFICES ASSUME ByJobs PROVE Objects \subseteq Plain
    OBVIOUS
  <1>1. /\ {ConfigMap, TestData, Secret, Service, MasterJob, WorkerJob} \subseteq Plain
        /\ \A i \in Nat : Job(i) \in Plain
    BY DEF Plain, Object, Kind, ConfigMap, TestData, Secret, Service, MasterJob, WorkerJob, Job
  <1>2. <<ConfigMap>> \in Seq(Plain) /\ <<Job(0)>> \in Seq(Plain)
    BY <1>1, Tuples
  <1>3. OnlyIf(HasTestData, TestData) \in Seq(Plain) /\ OnlyIf(HasEnvVars, Secret) \in Seq(Plain)
    BY <1>1 DEF OnlyIf
  <1>4. <<MasterJob, Service, WorkerJob>> \in Seq(Plain)
    BY <1>1, Tuples
  <1>5. [k \in 1..N |-> Job(k - 1)] \in Seq(Plain)
    <2>1. \A k \in 1..N : k - 1 \in Nat
      BY SizeAssumption
    <2>. QED  BY <1>1, <2>1, SizeAssumption, IsASeq
  <1>6. <<ConfigMap>> \o OnlyIf(HasTestData, TestData) \in Seq(Plain)
        /\ <<ConfigMap>> \o OnlyIf(HasEnvVars, Secret) \in Seq(Plain)
    BY <1>2, <1>3, ConcatProperties
  <1>7. <<ConfigMap>> \o OnlyIf(HasTestData, TestData) \o OnlyIf(HasEnvVars, Secret) \in Seq(Plain)
    BY <1>3, <1>6, ConcatProperties
  <1>8. GhzPlan \in Seq(Plain) /\ K6Plan \in Seq(Plain) /\ LocustPlan \in Seq(Plain)
    BY <1>2, <1>4, <1>5, <1>6, <1>7, ConcatProperties DEF GhzPlan, K6Plan, LocustPlan
  <1>9. Plan \in Seq(Plain)
    BY <1>8 DEF Plan, ByJobs
  <1>. QED  BY <1>9, ElementOfSeq DEF Objects

\* An optional object is a sequence over every set that has it.
LEMMA OnlyIfTypes ==
  ASSUME NEW S, NEW o \in S, NEW wanted
  PROVE  OnlyIf(wanted, o) \in Seq(S)
  <1>1. <<>> \in Seq(S) /\ <<o>> \in Seq(S)
    OBVIOUS
  <1>. QED  BY <1>1 DEF OnlyIf

\* In a plan that ends with an object found nowhere before it, that object
\* has the last position.
LEMMA LastOnlyAtTheEnd ==
  ASSUME NEW S, NEW s \in Seq(S), NEW o, o \notin S, NEW k \in DOMAIN (s \o <<o>>)
  PROVE  /\ (s \o <<o>>)[k] = o => k = Len(s \o <<o>>)
         /\ (s \o <<o>>)[k] \in S \cup {o}
  <1>1. s \in Seq(S \cup {o}) /\ <<o>> \in Seq(S \cup {o}) /\ Len(s) \in Nat
    BY LenProperties
  <1>2. /\ Len(s \o <<o>>) = Len(s) + 1 /\ s \o <<o>> \in Seq(S \cup {o})
        /\ \A i \in 1..Len(s) : (s \o <<o>>)[i] = s[i]
    BY <1>1, ConcatProperties
  <1>3. \A i \in 1..Len(s) : s[i] # o
    BY <1>1, ElementOfSeq
  <1>4. k \in 1..(Len(s) + 1)
    BY <1>2, LenProperties
  <1>. QED  BY <1>1, <1>2, <1>3, <1>4, ElementOfSeq

\* What Ghz creates.
LEMMA GhzObjects ==
  ASSUME Backend = "Ghz"
  PROVE  /\ Jobs \subseteq {Job(0)}
         /\ \A k \in DOMAIN Plan : Plan[k] = Job(0) => k = Len(Plan)
  <1> DEFINE S == {ConfigMap, TestData}
             s == <<ConfigMap>> \o OnlyIf(HasTestData, TestData)
  <1>1. Plan = s \o <<Job(0)>>
    BY DEF Plan, GhzPlan
  <1>2. s \in Seq(S)
    <2>1. <<ConfigMap>> \in Seq(S)
      OBVIOUS
    <2>2. OnlyIf(HasTestData, TestData) \in Seq(S)
      BY OnlyIfTypes
    <2>. QED  BY <2>1, <2>2, ConcatProperties
  <1>3. Job(0) \notin S /\ \A o \in S : o[1] # "job"
    BY DEF Job, ConfigMap, TestData
  <1> HIDE DEF S, s
  <1>4. \A k \in DOMAIN Plan : /\ Plan[k] = Job(0) => k = Len(Plan)
                               /\ Plan[k] \in S \cup {Job(0)}
    BY <1>1, <1>2, <1>3, LastOnlyAtTheEnd
  <1>. QED  BY <1>3, <1>4 DEF Jobs, Objects

\* What Locust creates.
LEMMA LocustObjects ==
  ASSUME Backend = "Locust"
  PROVE  /\ Jobs \subseteq {MasterJob, WorkerJob} /\ WorkerJob \in Jobs
         /\ ConfigMap \in Objects
         /\ \A k \in DOMAIN Plan : Plan[k] = WorkerJob => k = Len(Plan)
  <1> DEFINE S == {ConfigMap, Secret, MasterJob, Service}
             e == OnlyIf(HasEnvVars, Secret)
             s == <<ConfigMap>> \o e \o <<MasterJob, Service>>
  <1>1. e \in Seq(S) /\ Len(e) \in Nat
    BY OnlyIfTypes, LenProperties
  <1>2. Plan = <<ConfigMap>> \o e \o <<MasterJob, Service, WorkerJob>>
    BY DEF Plan, LocustPlan
  <1>3. <<ConfigMap>> \in Seq(S) /\ <<MasterJob, Service>> \in Seq(S)
    OBVIOUS
  <1>4. WorkerJob \notin S /\ \A o \in S : o[1] = "job" => o = MasterJob
    BY DEF WorkerJob, MasterJob, Job, ConfigMap, Secret, Service
  <1>5. <<ConfigMap>> \o e \in Seq(S) /\ s \in Seq(S)
    BY <1>1, <1>3, ConcatProperties
  <1>6. <<MasterJob, Service, WorkerJob>> = <<MasterJob, Service>> \o <<WorkerJob>>
    OBVIOUS
  <1>7. Plan = s \o <<WorkerJob>>
    <2> DEFINE first == <<ConfigMap>> \o e
    <2>1. first \in Seq(S \cup {WorkerJob}) /\ <<MasterJob, Service>> \in Seq(S \cup {WorkerJob})
          /\ <<WorkerJob>> \in Seq(S \cup {WorkerJob})
      BY <1>5
    <2>2. Plan = first \o (<<MasterJob, Service>> \o <<WorkerJob>>)
      BY <1>2, <1>6
    <2> HIDE DEF first, S
    <2>3. first \o (<<MasterJob, Service>> \o <<WorkerJob>>)
            = (first \o <<MasterJob, Service>>) \o <<WorkerJob>>
      BY <2>1, ConcatAssociative
    <2>. QED  BY <2>2, <2>3 DEF first
  <1>8. 1 \in DOMAIN Plan /\ Plan[1] = ConfigMap
    BY <1>1, <1>2, ConcatProperties
  <1> HIDE DEF S, s
  <1>9. \A k \in DOMAIN Plan : /\ Plan[k] = WorkerJob => k = Len(Plan)
                               /\ Plan[k] \in S \cup {WorkerJob}
    BY <1>4, <1>5, <1>7, LastOnlyAtTheEnd
  <1>10. WorkerJob \in Jobs
    <2>1. s \in Seq(S \cup {WorkerJob}) /\ <<WorkerJob>> \in Seq(S \cup {WorkerJob})
      BY <1>5
    <2>2. Len(s) + 1 \in DOMAIN Plan /\ Plan[Len(s) + 1] = WorkerJob
      BY <1>7, <2>1, ConcatProperties, LenProperties
    <2>3. WorkerJob[1] = "job"
      BY DEF WorkerJob, Job
    <2>. QED  BY <2>2, <2>3 DEF Jobs, Objects
  <1>. QED  BY <1>4, <1>8, <1>9, <1>10 DEF Jobs, Objects
-----------------------------------------------------------------------------
(***************************************************************************)
(* The steps of the informers and of the cluster.                          *)
(***************************************************************************)

\* The invariant at the start: nothing is read, nothing is done.
LEMMA FinishedInit == Init /\ ByJobs => FinishedInv
  <1>. SUFFICES ASSUME Init, ByJobs PROVE FinishedInv
    OBVIOUS
  <1>1. /\ stored = Created /\ namespace = "none" /\ objects = {} /\ pc = "idle" /\ next = 1
        /\ cache = Absent /\ events = <<Created>> /\ loadTest = NoCopy
        /\ job = [j \in Jobs |-> NewJobStatus]
    BY DEF Init
  <1>2. NamespaceKept /\ SuccessIsFinal /\ Calls
    BY <1>1 DEF NamespaceKept, SuccessIsFinal, Success, Calls, NewJobStatus
  <1>3. CreatedSoFar /\ WorkerSeen
    BY <1>1 DEF CreatedSoFar, WorkerSeen, Reading
  <1>4. NobodySaysFinished
    <2>1. DOMAIN <<Created>> = {1} /\ <<Created>>[1] = Created
      OBVIOUS
    <2>2. Created.phase # Finished /\ Absent.phase # Finished /\ NoCopy.phase # Finished
      BY DEF Created, Absent, NoCopy, Blank, Finished
    <2>. QED  BY <1>1, <2>1, <2>2 DEF NobodySaysFinished
  <1>. QED  BY <1>2, <1>3, <1>4 DEF FinishedInv, Live

\* Delivering a version brings nothing the queue of events did not hold.
LEMMA InformersKeep ==
  ASSUME TypeInv, FinishedInv, Informers
  PROVE  FinishedInv'
  <1>1. UNCHANGED <<stored, clusterVars, pc, syncVars>>
    BY DEF Informers, Deliver, Resync, HandleObject, RetryFires, DeliverNamespace
  <1>2. NamespaceKept' /\ SuccessIsFinal' /\ Calls'
    BY <1>1 DEF FinishedInv, NamespaceKept, SuccessIsFinal, Calls, clusterVars, syncVars
  <1>3. stored.exists => CreatedSoFar' /\ WorkerSeen'
    BY <1>1 DEF FinishedInv, Live, CreatedSoFar, WorkerSeen, clusterVars, syncVars
  <1>4. AllJobsDone' = AllJobsDone
    BY <1>1 DEF AllJobsDone, clusterVars
  <1>5. NobodySaysFinished => NobodySaysFinished'
    <2>. SUFFICES ASSUME NobodySaysFinished PROVE NobodySaysFinished'
      OBVIOUS
    <2>1. events \in Seq(Version)
      BY DEF TypeInv, TypeOK, QueueTypeOK
    <2>2. CASE Deliver
      <3>1. events # <<>> /\ cache' = Head(events) /\ events' = Tail(events)
        BY <2>2 DEF Deliver
      <3>2. Head(events) = events[1] /\ 1 \in DOMAIN events
        BY <2>1, <3>1, LenProperties, EmptySeq
      <3>3. \A i \in DOMAIN events' : i + 1 \in DOMAIN events /\ events'[i] = events[i + 1]
        BY <2>1, <3>1, HeadTailProperties, LenProperties
      <3>. QED  BY <1>1, <3>1, <3>2, <3>3 DEF NobodySaysFinished, syncVars
    <2>3. CASE Resync \/ HandleObject \/ RetryFires \/ DeliverNamespace
      <3>1. UNCHANGED <<cache, events>>
        BY <2>3 DEF Resync, HandleObject, RetryFires, DeliverNamespace, informerVars
      <3>. QED  BY <1>1, <3>1 DEF NobodySaysFinished, syncVars
    <2>. QED  BY <2>2, <2>3 DEF Informers
  <1>. QED  BY <1>1, <1>2, <1>3, <1>4, <1>5 DEF FinishedInv, Live

\* A job moves towards its end, and shows success only when it completes.
LEMMA JobMoveKeeps ==
  ASSUME TypeInv, ByJobs, FinishedInv,
         NEW j \in Jobs, NEW s, SetJob(j, s),
         Terminal(job[j]) => Terminal(s), Success(s) => Terminal(s)
  PROVE  FinishedInv'
  <1>1. /\ UNCHANGED <<stored, namespace, objects, cache, events, pc, syncVars>>
        /\ job' = [job EXCEPT ![j] = s]
    BY DEF SetJob, ClusterStep, informerVars
  <1>2. job \in [Jobs -> JobStatus]
    BY DEF TypeInv, TypeOK, ServerTypeOK
  <1>3. /\ job'[j] = s
        /\ \A i \in Jobs : i # j => job'[i] = job[i]
        /\ \A i : Terminal(job[i]) /\ i \in Jobs => Terminal(job'[i])
    BY <1>1, <1>2
  <1>4. NamespaceKept' /\ SuccessIsFinal' /\ Calls'
    BY <1>1, <1>3 DEF FinishedInv, NamespaceKept, SuccessIsFinal, Calls, syncVars
  <1>5. stored.exists => CreatedSoFar'
    BY <1>1 DEF FinishedInv, Live, CreatedSoFar, syncVars
  <1>6. stored.exists => WorkerSeen'
    <2>1. CASE Backend = "Locust"
      <3>1. WorkerJob \in Jobs
        BY <2>1, LocustObjects
      <3>. QED  BY <1>1, <1>3, <3>1 DEF FinishedInv, Live, WorkerSeen, syncVars
    <2>2. CASE Backend # "Locust"
      BY <1>1, <2>2 DEF FinishedInv, Calls, WorkerSeen
    <2>. QED  BY <2>1, <2>2
  <1>7. AllJobsDone => AllJobsDone'
    BY <1>1, <1>3 DEF AllJobsDone
  <1>8. NobodySaysFinished => NobodySaysFinished'
    BY <1>1 DEF NobodySaysFinished, syncVars
  <1>. QED  BY <1>1, <1>4, <1>5, <1>6, <1>7, <1>8 DEF FinishedInv, Live

\* The cluster never takes back what it reported of a live load test.
LEMMA ClusterKeeps ==
  ASSUME TypeInv, ByJobs, FinishedInv, Environment \/ GarbageCollector
  PROVE  FinishedInv'
  <1>1. \A j \in Jobs : job[j] \in JobStatus
    BY DEF TypeInv, TypeOK, ServerTypeOK
  <1>2. ASSUME NEW j \in Jobs, JobStarts(j) PROVE FinishedInv'
    <2>1. SetJob(j, [job[j] EXCEPT !.active = TRUE]) /\ ~Terminal(job[j])
      BY <1>2 DEF JobStarts, LiveJob
    <2>2. ~Success([job[j] EXCEPT !.active = TRUE])
      BY <1>1 DEF Success, JobStatus
    <2>. QED  BY <2>1, <2>2, JobMoveKeeps
  <1>3. ASSUME NEW j \in Jobs, JobPodSucceeds(j) PROVE FinishedInv'
    <2>1. /\ SetJob(j, [job[j] EXCEPT !.succeeded = TRUE]) /\ ~Terminal(job[j])
          /\ job[j].active
      BY <1>3 DEF JobPodSucceeds, LiveJob
    <2>2. ~Success([job[j] EXCEPT !.succeeded = TRUE])
      BY <1>1, <2>1 DEF Success, JobStatus
    <2>. QED  BY <2>1, <2>2, JobMoveKeeps
  <1>4. ASSUME NEW j \in Jobs, JobCompletes(j) PROVE FinishedInv'
    <2> DEFINE s == [job[j] EXCEPT !.active = FALSE, !.succeeded = TRUE, !.completion = "recent"]
    <2>1. SetJob(j, s)
      BY <1>4 DEF JobCompletes
    <2>2. Terminal(s)
      BY <1>1 DEF Terminal, JobStatus
    <2> HIDE DEF s
    <2>. QED  BY <2>1, <2>2, JobMoveKeeps
  <1>5. ASSUME NEW j \in Jobs, JobPodFails(j) PROVE FinishedInv'
    <2>1. PICK others \in BOOLEAN :
            SetJob(j, [job[j] EXCEPT !.failed = TRUE, !.active = others,
                                     !.gaveUp = ~RetriesPods /\ ~others])
      BY <1>5 DEF JobPodFails
    <2> DEFINE g == ~RetriesPods /\ ~others
               s == [job[j] EXCEPT !.failed = TRUE, !.active = others, !.gaveUp = g]
    <2>2. SetJob(j, s) /\ ~Terminal(job[j])
      BY <1>5, <2>1 DEF JobPodFails, LiveJob
    <2>3. ~Success(s)
      <3> HIDE DEF g
      <3>. QED  BY <1>1 DEF Success, JobStatus
    <2> HIDE DEF s
    <2>. QED  BY <2>2, <2>3, JobMoveKeeps
  <1>6. ASSUME NEW j \in Jobs, JobGivesUp(j) PROVE FinishedInv'
    <2> DEFINE s == [job[j] EXCEPT !.gaveUp = TRUE, !.active = FALSE]
    <2>1. SetJob(j, s)
      BY <1>6 DEF JobGivesUp
    <2>2. Terminal(s)
      BY <1>1 DEF Terminal, JobStatus
    <2> HIDE DEF s
    <2>. QED  BY <2>1, <2>2, JobMoveKeeps
  <1>7. ASSUME NEW j \in Jobs, CompletionAges(j) PROVE FinishedInv'
    <2> DEFINE s == [job[j] EXCEPT !.completion = "old"]
    <2>1. SetJob(j, s)
      BY <1>7 DEF CompletionAges
    <2>2. Terminal(s)
      BY <1>1 DEF Terminal, JobStatus
    <2> HIDE DEF s
    <2>. QED  BY <2>1, <2>2, JobMoveKeeps
  <1>8. CASE (\E p \in Pods : PodChanges(p)) \/ LoadTestAges \/ PodsAge
    <2>1. UNCHANGED <<stored, namespace, objects, job, cache, events, pc, syncVars>>
      BY <1>8 DEF PodChanges, LoadTestAges, PodsAge, ClusterStep, informerVars
    <2>2. /\ NamespaceKept' = NamespaceKept /\ SuccessIsFinal' = SuccessIsFinal
          /\ Calls' = Calls /\ CreatedSoFar' = CreatedSoFar /\ WorkerSeen' = WorkerSeen
          /\ AllJobsDone' = AllJobsDone /\ NobodySaysFinished' = NobodySaysFinished
      BY <2>1 DEF NamespaceKept, SuccessIsFinal, Calls, CreatedSoFar, WorkerSeen,
                  AllJobsDone, NobodySaysFinished, syncVars
    <2>. QED  BY <2>1, <2>2 DEF FinishedInv, Live
  <1>9. CASE UserDeletes
    <2>1. UNCHANGED <<clusterVars, pc, syncVars>> /\ stored' = Absent
      BY <1>9 DEF UserDeletes, Write
    <2>. QED  BY <2>1 DEF FinishedInv, NamespaceKept, SuccessIsFinal, Calls, Absent,
                          clusterVars, syncVars
  <1>10. CASE GarbageCollector
    <2>1. ~stored.exists
      BY <1>10 DEF GarbageCollector, GCNamespace, GCOwned, NamespaceGone, FinishedInv,
                   NamespaceKept
    <2>2. UNCHANGED <<stored, pc, syncVars>>
      BY <1>10 DEF GarbageCollector, GCNamespace, GCOwned, NamespaceGone, Collect, ClusterStep
    <2>3. \A j \in Jobs : job'[j] \in {job[j], NewJobStatus}
      BY <1>10 DEF GarbageCollector, GCNamespace, GCOwned, NamespaceGone, Collect
    <2>. QED  BY <2>1, <2>2, <2>3
              DEF FinishedInv, NamespaceKept, SuccessIsFinal, Success, Calls, NewJobStatus, syncVars
  <1>. QED  BY <1>2, <1>3, <1>4, <1>5, <1>6, <1>7, <1>8, <1>9, <1>10 DEF Environment
-----------------------------------------------------------------------------
(***************************************************************************)
(* The steps of the worker.                                                *)
(***************************************************************************)

\* A step that changes neither the jobs nor a version of the load test only
\* has to account for where it goes and for the phase it has decided.
LEMMA MovesOn ==
  ASSUME FinishedInv,
         UNCHANGED <<stored, objects, job, cache, events>>,
         namespace' \in {namespace, "active"},
         Calls',
         stored.exists => CreatedSoFar' /\ WorkerSeen',
         stored.exists /\ ~AllJobsDone => loadTest'.phase # Finished
  PROVE  FinishedInv'
  <1>1. NamespaceKept' /\ SuccessIsFinal'
    BY DEF FinishedInv, NamespaceKept, SuccessIsFinal
  <1>2. AllJobsDone' = AllJobsDone
    BY DEF AllJobsDone
  <1>3. stored.exists /\ ~AllJobsDone => NobodySaysFinished'
    BY DEF FinishedInv, Live, NobodySaysFinished
  <1>. QED  BY <1>1, <1>2, <1>3 DEF FinishedInv, Live

\* The calls up to the guard, and those that fail.
LEMMA CallsKeep ==
  ASSUME TypeInv, ByJobs, FinishedInv,
         \/ CallFails \/ SyncMissing \/ SyncStart \/ ListNamespaces \/ CreateNamespace
         \/ FakeGetNamespace \/ CheckGuard \/ CreateRefused
  PROVE  FinishedInv'
  <1>1. UNCHANGED <<stored, objects, job, cache, events>> /\ namespace' \in {namespace, "active"}
    BY DEF CallFails, SyncMissing, SyncStart, TakeCopy, ListNamespaces, CreateNamespace,
           FakeGetNamespace, CheckGuard, CreateRefused, NothingElse, clusterVars,
           informerVars
  <1>2. Calls
    BY DEF FinishedInv
  <1>3. Guard \cap objects # {} /\ stored.exists => Objects \subseteq objects
    BY DEF FinishedInv, Live, CreatedSoFar
  <1>4. EnterSync = "guard"
    BY DEF EnterSync, ByJobs
  <1>5. stored.exists /\ ~AllJobsDone => loadTest.phase # Finished /\ cache.phase # Finished
    BY DEF FinishedInv, Live, NobodySaysFinished
  <1>6. stored.exists /\ ~AllJobsDone => loadTest'.phase # Finished
    <2>1. loadTest'.phase \in {loadTest.phase, cache.phase, Creating}
      <3>1. loadTest \in Copy
        BY DEF TypeInv, TypeOK, SyncTypeOK
      <3>. QED  BY <3>1 DEF CallFails, SyncMissing, SyncStart, TakeCopy, ListNamespaces, CreateNamespace,
             FakeGetNamespace, CheckGuard, CreateRefused, Copy, syncVars
    <2>. QED  BY <1>5, <2>1 DEF Creating, Finished
  <1>7. CASE CallFails \/ CreateRefused
    <2>1. pc' = "update"
      BY <1>7 DEF CallFails, CreateRefused, Fail
    <2>2. Calls' /\ (stored.exists => CreatedSoFar' /\ WorkerSeen')
      BY <1>1, <1>3, <2>1 DEF Calls, CreatedSoFar, WorkerSeen, Reading
    <2>. QED  BY <1>1, <1>6, <2>2, MovesOn
  <1>8. CASE SyncMissing \/ SyncStart \/ ListNamespaces
    <2>1. pc' \in {"idle", "guard", "listNamespaces", "createNamespace"} /\ next' = 1
      BY <1>2, <1>4, <1>8 DEF SyncMissing, SyncStart, TakeCopy, ListNamespaces, Calls, syncVars
    <2>2. Calls' /\ (stored.exists => CreatedSoFar' /\ WorkerSeen')
      BY <1>1, <1>3, <2>1 DEF Calls, CreatedSoFar, WorkerSeen, Reading
    <2>. QED  BY <1>1, <1>6, <2>2, MovesOn
  <1>9. CASE CreateNamespace
    <2>1. pc' \in {"guard", "update"} /\ next' = 1
      BY <1>2, <1>4, <1>9 DEF CreateNamespace, Fail, Calls
    <2>2. Calls' /\ (stored.exists => CreatedSoFar' /\ WorkerSeen')
      BY <1>1, <1>3, <2>1 DEF Calls, CreatedSoFar, WorkerSeen, Reading
    <2>. QED  BY <1>1, <1>6, <2>2, MovesOn
  <1>10. CASE FakeGetNamespace
    BY <1>2, <1>10 DEF FakeGetNamespace, Calls
  <1>11. CASE CheckGuard
    <2>1. /\ pc' = IF Guard \cap objects # {} THEN "status" ELSE "create"
          /\ next' = next /\ next = 1
      BY <1>2, <1>11 DEF CheckGuard, Calls, syncVars
    <2>2. Calls'
      BY <2>1 DEF Calls
    <2>3. stored.exists => CreatedSoFar' /\ WorkerSeen'
      BY <1>1, <1>3, <2>1 DEF CreatedSoFar, WorkerSeen, Reading
    <2>. QED  BY <1>1, <1>6, <2>2, <2>3, MovesOn
  <1>. QED  BY <1>7, <1>8, <1>9, <1>10, <1>11

\* Only the last object of a plan can make the guard skip it.
LEMMA GuardIsLast ==
  ASSUME ByJobs, NEW k \in DOMAIN Plan, Plan[k] \in Guard
  PROVE  k = Len(Plan)
  <1>1. CASE Backend = "Ghz"
    BY <1>1, GhzObjects DEF Guard
  <1>2. CASE Backend = "K6"
    BY <1>2 DEF Guard
  <1>3. CASE Backend = "Locust"
    BY <1>3, LocustObjects DEF Guard
  <1>. QED  BY <1>1, <1>2, <1>3 DEF ByJobs

\* A Create call adds the next object of the plan.
LEMMA CreatesKeep ==
  ASSUME TypeInv, ByJobs, FinishedInv, CreateObject \/ JMeterWaitPod \/ JMeterWaitPvc
  PROVE  FinishedInv'
  <1>1. CreateObject
    BY DEF FinishedInv, Calls, JMeterWaitPod, JMeterWaitPvc
  <1>2. next \in DOMAIN Plan /\ DOMAIN Plan = 1..Len(Plan) /\ Len(Plan) \in Nat
    BY Positions DEF TypeInv, TypeOK, SyncTypeOK
  <1>3. /\ UNCHANGED <<stored, namespace, job, cache, events, loadTest, workerJob>>
        /\ objects' = objects \cup {Plan[next]} /\ pc = "create"
    BY <1>1 DEF CreateObject, informerVars
  <1>4. Plan[next] # Pvc /\ Plan[next] \notin Pods
    <2>1. Plan[next] \in Plain
      BY <1>2, PlanIsPlain DEF Objects
    <2>. QED  BY <2>1 DEF Plain, Pvc, Pods
  <1>5. \/ pc' = "update"
        \/ pc' = AfterCreate(next) /\ next' = AfterIndex(next)
    BY <1>1, <1>4 DEF CreateObject, Fail
  <1>6. NamespaceKept' /\ SuccessIsFinal'
    BY <1>3 DEF FinishedInv, NamespaceKept, SuccessIsFinal
  <1>7. Calls'
    BY <1>5 DEF Calls, AfterCreate
  <1>8. ASSUME stored.exists PROVE CreatedSoFar'
    <2>1. \A k \in 1..(next - 1) : Plan[k] \in objects
      BY <1>3, <1>8 DEF FinishedInv, Live, CreatedSoFar
    <2>2. \A k \in 1..next : Plan[k] \in objects'
      BY <1>2, <1>3, <2>1
    <2>3. next = Len(Plan) => Objects \subseteq objects'
      BY <1>2, <2>2 DEF Objects
    <2>4. Guard \cap objects' # {} => Objects \subseteq objects'
      <3>1. CASE Plan[next] \in Guard
        BY <1>2, <2>3, <3>1, GuardIsLast
      <3>2. CASE Plan[next] \notin Guard
        BY <1>3, <1>8, <3>2 DEF FinishedInv, Live, CreatedSoFar
      <3>. QED  BY <3>1, <3>2
    <2>5. CASE pc' = "update"
      BY <2>4, <2>5 DEF CreatedSoFar, Reading
    <2>6. CASE pc' = AfterCreate(next) /\ next' = AfterIndex(next) /\ next = Len(Plan)
      BY <2>3, <2>6 DEF CreatedSoFar, Reading, AfterCreate
    <2>7. CASE pc' = AfterCreate(next) /\ next' = AfterIndex(next) /\ next # Len(Plan)
      <3>1. pc' = "create" /\ next' = next + 1 /\ next' - 1 = next
        BY <1>2, <2>7 DEF AfterCreate, AfterIndex
      <3>. QED  BY <2>2, <2>4, <3>1 DEF CreatedSoFar, Reading
    <2>. QED  BY <1>5, <2>5, <2>6, <2>7
  <1>9. WorkerSeen'
    BY <1>5 DEF WorkerSeen, AfterCreate
  <1>10. AllJobsDone => AllJobsDone'
    BY <1>3 DEF AllJobsDone
  <1>11. NobodySaysFinished' = NobodySaysFinished
    BY <1>3 DEF NobodySaysFinished
  <1>. QED  BY <1>3, <1>6, <1>7, <1>8, <1>9, <1>10, <1>11 DEF FinishedInv, Live

\* A reading ends in a phase that is Finished only when the jobs are done,
\* goes on, or fails.
LEMMA ReadingKeeps ==
  ASSUME TypeInv, ByJobs, FinishedInv, ReadOnly, pc \in Reading,
         \/ \E phase, completion : /\ Decide(phase, completion)
                                   /\ (stored.exists /\ phase = Finished => AllJobsDone)
         \/ ReadNext("workerJob") /\ Backend = "Locust"
         \/ NotFound
  PROVE  FinishedInv'
  <1>1. UNCHANGED <<stored, namespace, objects, job, cache, events>>
    BY DEF ReadOnly, NothingElse, clusterVars, informerVars
  <1>2. stored.exists => /\ Objects \subseteq objects
                         /\ ~AllJobsDone => loadTest.phase # Finished
    BY DEF FinishedInv, Live, CreatedSoFar, NobodySaysFinished
  <1>3. loadTest \in Copy
    BY DEF TypeInv, TypeOK, SyncTypeOK
  <1>4. stored.exists /\ ~AllJobsDone => loadTest'.phase # Finished
    <2>1. ASSUME NEW phase, NEW completion, Decide(phase, completion),
                 stored.exists /\ phase = Finished => AllJobsDone
          PROVE  stored.exists /\ ~AllJobsDone => loadTest'.phase # Finished
      <3>1. loadTest'.phase = phase
        BY <1>3, <2>1 DEF Decide, Copy
      <3>. QED  BY <2>1, <3>1
    <2>2. ASSUME ReadNext("workerJob") \/ NotFound
          PROVE  stored.exists /\ ~AllJobsDone => loadTest'.phase # Finished
      <3>1. loadTest'.phase = Began
        BY <1>3, <2>2 DEF ReadNext, NotFound, Copy
      <3>. QED  BY <1>2, <3>1 DEF Began, Creating, Finished
    <2>. QED  BY <2>1, <2>2
  <1>5. pc' \in {"cleanup", "update"} \/ (pc' = "workerJob" /\ Backend = "Locust")
    BY DEF Decide, ReadNext, NotFound, Fail
  <1>6. Calls' /\ (stored.exists => CreatedSoFar' /\ WorkerSeen')
    BY <1>1, <1>2, <1>5 DEF Calls, CreatedSoFar, WorkerSeen, Reading
  <1>. QED  BY <1>1, <1>4, <1>6, MovesOn

\* What the status of Ghz, K6 and Locust calls finished is finished.
LEMMA StatusKeeps ==
  ASSUME TypeInv, ByJobs, FinishedInv, SyncStatus, ~K6Panic
  PROVE  FinishedInv'
  <1>1. pc \in Reading /\ stored.exists => Objects \subseteq objects
    BY DEF FinishedInv, Live, CreatedSoFar
  <1>2. \A j \in Jobs : Success(job[j]) => Terminal(job[j])
    BY DEF FinishedInv, SuccessIsFinal
  <1>3. Jobs \subseteq Objects
    BY DEF Jobs
  <1>4. CASE StatusSettled
    <2>1. /\ ReadOnly /\ pc \in Reading
          /\ \E phase, completion : Decide(phase, completion) /\ phase # Finished
      BY <1>4 DEF StatusSettled, Reading, Creating, Errored, Finished
    <2>. QED  BY <2>1, ReadingKeeps
  <1>5. CASE GhzReadJob
    <2>1. ReadOnly /\ pc \in Reading
      BY <1>5 DEF GhzReadJob, Reading
    <2>2. Jobs \subseteq {Job(0)}
      BY <1>5, GhzObjects DEF GhzReadJob
    <2>3. stored.exists /\ GhzPhase(job[Job(0)]) = Finished => AllJobsDone
      BY <1>1, <1>2, <1>3, <2>1, <2>2
         DEF GhzPhase, Success, AllJobsDone, Errored, Running, Starting, Finished
    <2>4. \/ Decide(GhzPhase(job[Job(0)]), job[Job(0)].completion)
          \/ NotFound
      BY <1>5 DEF GhzReadJob
    <2>. QED  BY <2>1, <2>3, <2>4, ReadingKeeps
  <1>6. CASE K6ListJobs
    <2>1. ReadOnly /\ pc \in Reading /\ Decide(K6Phase(Listed, job), K6JobStatus(Listed, job).completion)
      BY <1>6 DEF K6ListJobs, Reading
    <2>2. K6Phase(Listed, job) = Finished => \A j \in Listed : Success(job[j])
      BY DEF K6Phase, Success, Errored, Running, Starting, Finished
    <2>3. stored.exists /\ K6Phase(Listed, job) = Finished => AllJobsDone
      BY <1>1, <1>2, <1>3, <2>1, <2>2 DEF AllJobsDone, Listed
    <2>. QED  BY <2>1, <2>3, ReadingKeeps
  <1>7. CASE LocustGetConfigMap
    <2>1. ReadOnly /\ pc \in Reading
      BY <1>7 DEF LocustGetConfigMap, Reading
    <2>2. ConfigMap \in Objects /\ Backend = "Locust"
      BY <1>7, LocustObjects DEF LocustGetConfigMap
    <2>3. stored.exists => ConfigMap \in objects
      BY <1>1, <2>1, <2>2
    <2>4. ReadNext("workerJob") \/ (Decide(Finished, "none") /\ ~stored.exists)
      BY <1>7, <2>3 DEF LocustGetConfigMap
    <2>. QED  BY <2>1, <2>2, <2>4, ReadingKeeps
  <1>8. CASE LocustGetWorkerJob
    <2>1. ReadOnly /\ pc \in Reading /\ pc = "workerJob"
      BY <1>8 DEF LocustGetWorkerJob, Reading
    <2>2. CASE NotFound
      BY <2>1, <2>2, ReadingKeeps
    <2>3. CASE /\ WorkerJob \in objects /\ pc' = "masterJob" /\ workerJob' = job[WorkerJob]
               /\ UNCHANGED loadTest
      <3>1. UNCHANGED <<stored, namespace, objects, job, cache, events>>
        BY <2>1 DEF ReadOnly, NothingElse, clusterVars, informerVars
      <3>2. Backend = "Locust"
        BY <2>1 DEF FinishedInv, Calls
      <3>3. WorkerJob \in Jobs
        BY <3>2, LocustObjects
      <3>4. Calls' /\ (stored.exists => CreatedSoFar' /\ WorkerSeen')
        <4>1. stored.exists => CreatedSoFar'
          BY <2>3, <3>1, <2>1 DEF CreatedSoFar, Reading, FinishedInv, Live
        <4>2. WorkerSeen'
          BY <1>2, <2>3, <3>1, <3>3 DEF WorkerSeen
        <4>3. Calls'
          BY <2>3, <3>2 DEF Calls
        <4>. QED  BY <4>1, <4>2, <4>3
      <3>5. stored.exists /\ ~AllJobsDone => loadTest'.phase # Finished
        BY <2>3 DEF FinishedInv, Live, NobodySaysFinished
      <3>. QED  BY <3>1, <3>4, <3>5, MovesOn
    <2>. QED  BY <1>8, <2>2, <2>3 DEF LocustGetWorkerJob
  <1>9. CASE LocustGetMasterJob
    <2>1. ReadOnly /\ pc \in Reading /\ pc = "masterJob"
      BY <1>9 DEF LocustGetMasterJob, Reading
    <2>2. Jobs \subseteq {MasterJob, WorkerJob} /\ WorkerJob \in Jobs
      BY <2>1, LocustObjects DEF FinishedInv, Calls
    <2>3. ASSUME stored.exists, LocustPhase(job[MasterJob], workerJob) = Finished
          PROVE  AllJobsDone
      <3>1. Success(job[MasterJob]) /\ Success(workerJob)
        BY <2>3 DEF LocustPhase, Success, Errored, Running, Starting, Finished
      <3>2. Terminal(job[WorkerJob])
        BY <2>1, <2>3, <3>1 DEF FinishedInv, Live, WorkerSeen
      <3>3. \A j \in Jobs : Terminal(job[j])
        BY <1>2, <2>2, <3>1, <3>2
      <3>. QED  BY <1>1, <1>3, <2>1, <2>3, <3>3 DEF AllJobsDone
    <2>4. \/ Decide(LocustPhase(job[MasterJob], workerJob), job[MasterJob].completion)
          \/ NotFound
      BY <1>9 DEF LocustGetMasterJob
    <2>. QED  BY <2>1, <2>3, <2>4, ReadingKeeps
  <1>10. CASE FakeStatusNamespace \/ FakeReadJob
    BY <1>10 DEF FakeStatusNamespace, FakeReadJob, ByJobs
  <1>11. CASE JMeterStatusNamespace \/ JMeterListPods \/ JMeterReadJob
    BY <1>11 DEF JMeterStatusNamespace, JMeterListPods, JMeterReadJob, FinishedInv,
                 Calls, ByJobs
  <1>. QED  BY <1>4, <1>5, <1>6, <1>7, <1>8, <1>9, <1>10, <1>11 DEF SyncStatus

\* The end of a sync writes the phase it decided, or nothing.
LEMMA EndsKeep ==
  ASSUME TypeInv, ByJobs, FinishedInv,
         CleanUpDeletes \/ NoCleanUp \/ UpdateStatus \/ UpdateLost \/ Restart \/ K6Panic
  PROVE  FinishedInv'
  <1>1. UNCHANGED clusterVars
    BY DEF CleanUpDeletes, NoCleanUp, UpdateStatus, UpdateLost, Restart, K6Panic, Restarted,
           NothingElse
  <1>2. pc' \in {"idle", "update"} /\ (pc' = "idle" => next' = 1)
    BY DEF CleanUpDeletes, NoCleanUp, UpdateStatus, UpdateLost, Restart, K6Panic, Restarted,
           EndSync, Return
  <1>3. stored'.exists => stored.exists
    BY DEF CleanUpDeletes, NoCleanUp, UpdateStatus, UpdateLost, Restart, K6Panic, Restarted,
           NothingElse, Write, Absent
  <1>4. SuccessIsFinal' /\ Calls'
    BY <1>1, <1>2 DEF FinishedInv, SuccessIsFinal, Calls, clusterVars
  <1>5. NamespaceKept'
    BY <1>1, <1>3 DEF FinishedInv, NamespaceKept, clusterVars
  <1>6. stored.exists => CreatedSoFar' /\ WorkerSeen'
    BY <1>1, <1>2 DEF FinishedInv, Live, CreatedSoFar, WorkerSeen, Reading, clusterVars
  <1>7. AllJobsDone' = AllJobsDone
    BY <1>1 DEF AllJobsDone, clusterVars
  <1>8. ASSUME stored'.exists, NobodySaysFinished PROVE NobodySaysFinished'
    <2>1. NoCopy.phase # Finished
      BY DEF NoCopy, Blank, Finished
    <2>2. CASE CleanUpDeletes \/ NoCleanUp
      <3>1. UNCHANGED <<stored, cache, events, syncVars>>
        BY <1>8, <2>2 DEF CleanUpDeletes, NoCleanUp, NothingElse, Write, Absent, informerVars
      <3>. QED  BY <1>8, <3>1 DEF NobodySaysFinished, syncVars
    <2>3. CASE UpdateStatus
      <3> DEFINE v == [exists |-> TRUE, phase |-> loadTest.phase, ns |-> loadTest.ns]
      <3>1. UNCHANGED cache /\ loadTest' = NoCopy /\ (UNCHANGED <<stored, events>> \/ Write(v))
        BY <2>3 DEF UpdateStatus, EndSync, Return
      <3>2. v.phase # Finished
        BY <1>8 DEF NobodySaysFinished
      <3>3. events \in Seq(Version) /\ v \in Version
        BY DEF TypeInv, TypeOK, QueueTypeOK, SyncTypeOK, Copy, Version
      <3> HIDE DEF v
      <3>4. CASE Write(v)
        <4>1. stored' = v /\ events' = Append(events, v)
          BY <3>4 DEF Write
        <4>2. \A i \in DOMAIN events' : events'[i] = v \/ (i \in DOMAIN events /\ events'[i] = events[i])
          BY <3>3, <4>1, AppendProperties, LenProperties
        <4>. QED  BY <1>8, <2>1, <3>1, <3>2, <4>1, <4>2 DEF NobodySaysFinished
      <3>5. CASE UNCHANGED <<stored, events>>
        BY <1>8, <2>1, <3>1, <3>5 DEF NobodySaysFinished
      <3>. QED  BY <3>1, <3>4, <3>5
    <2>4. CASE UpdateLost
      <3>1. UNCHANGED <<stored, cache, events>> /\ loadTest' = NoCopy
        BY <2>4 DEF UpdateLost, EndSync, Return, informerVars
      <3>. QED  BY <1>8, <2>1, <3>1 DEF NobodySaysFinished
    <2>5. CASE Restart \/ K6Panic
      <3>1. /\ cache' = stored /\ stored' = stored /\ events' = <<>> /\ loadTest' = NoCopy
        BY <2>5 DEF Restart, K6Panic, Restarted, Return
      <3>. QED  BY <1>8, <2>1, <3>1 DEF NobodySaysFinished
    <2>. QED  BY <2>2, <2>3, <2>4, <2>5
  <1>. QED  BY <1>3, <1>4, <1>5, <1>6, <1>7, <1>8 DEF FinishedInv, Live

-----------------------------------------------------------------------------
(***************************************************************************)
(* The theorems.                                                           *)
(***************************************************************************)

LEMMA FinishedNext == IInv /\ [Next]_vars => IInv'
  <1>1. IInv /\ Next /\ ByJobs => FinishedInv'
    BY InformersKeep, ClusterKeeps, CallsKeep, CreatesKeep, StatusKeeps, EndsKeep
       DEF IInv, Next, Worker
  <1>2. IInv /\ ByJobs /\ UNCHANGED vars => FinishedInv'
    <2>. SUFFICES ASSUME FinishedInv, UNCHANGED vars PROVE FinishedInv'
      BY DEF IInv
    <2>1. /\ NamespaceKept' = NamespaceKept /\ SuccessIsFinal' = SuccessIsFinal
          /\ Calls' = Calls /\ CreatedSoFar' = CreatedSoFar /\ WorkerSeen' = WorkerSeen
          /\ AllJobsDone' = AllJobsDone /\ NobodySaysFinished' = NobodySaysFinished
          /\ stored' = stored
      BY DEF NamespaceKept, SuccessIsFinal, Calls, CreatedSoFar, WorkerSeen, AllJobsDone,
             NobodySaysFinished, vars, clusterVars, informerVars, syncVars
    <2>. QED  BY <2>1 DEF FinishedInv, Live
  <1>. QED  BY <1>1, <1>2, TypeNext DEF IInv

\* For Ghz, K6 and Locust a load test that says it is finished is: all its
\* jobs exist and have come to their end.
THEOREM FinishedIsRight == Spec => [](ByJobs => FinishedMeansJobsDone)
  <1>1. Init => IInv
    BY TypeInit, FinishedInit DEF IInv
  <1>2. IInv => (ByJobs => FinishedMeansJobsDone)
    BY DEF IInv, FinishedInv, Live, NobodySaysFinished, FinishedMeansJobsDone
  <1>. QED  BY <1>1, <1>2, FinishedNext, PTL DEF Spec

\* Whenever a Sync of Ghz, K6 or Locust has returned nil for a load test that
\* still exists, every object of its plan exists, whatever failed before.
THEOREM SyncedIsComplete == Spec => [](ByJobs => SyncedMeansCreated)
  <1>1. Init => IInv
    BY TypeInit, FinishedInit DEF IInv
  <1>2. IInv => (ByJobs => SyncedMeansCreated)
    BY DEF IInv, FinishedInv, Calls, Live, CreatedSoFar, Reading, SyncedMeansCreated
  <1>. QED  BY <1>1, <1>2, FinishedNext, PTL DEF Spec
=============================================================================
