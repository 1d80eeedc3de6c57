----------------------------- MODULE Controller -----------------------------
(***************************************************************************)
(* The reconciliation of one LoadTest: the controller's single worker, its *)
(* work queue and informer caches, the Kubernetes API server that holds    *)
(* the LoadTest and the objects of its namespace, and the part of the      *)
(* cluster that moves by itself (job controller, garbage collector, time). *)
(*                                                                         *)
(* Every call to the API server is a step of its own, so the cluster, the  *)
(* informers, a user and the clock interleave between any two calls of     *)
(* syncHandler.  A call may fail without effect, or take effect and still  *)
(* report an error; the controller may be restarted between any two calls. *)
(* Such faults are bounded by MaxFaults.                                   *)
(***************************************************************************)
EXTENDS Backends

CONSTANTS
  CleanUp,       \* CLEANUP_THRESHOLD is not 0
  Rejected,      \* objects whose creation always fails (bad user data)
  WaitsPerSync,  \* waits for a pod or claim, each until it times out, that use up
                 \* SYNC_HANDLER_TIMEOUT
  MaxFaults      \* failing calls and restarts in one behaviour

ASSUME CleanUpAssumption  == CleanUp \in BOOLEAN
ASSUME RejectedAssumption == Rejected \subseteq Objects
ASSUME WaitsAssumption    == WaitsPerSync \in Nat \ {0}
ASSUME FaultsAssumption   == MaxFaults \in Nat

VARIABLES
  \* The API server and the cluster behind it.
  stored,      \* the LoadTest: does it exist, its phase, is status.namespace set
  namespace,   \* the load test's namespace
  objects,     \* objects that exist in the namespace
  job,         \* status of each job
  pod,         \* state of each JMeter worker pod
  aged,        \* the LoadTest is older than CLEANUP_THRESHOLD
  podsOld,     \* the worker pods started more than MaxWaitTimeForPods ago
  \* The informers.
  cache,       \* the LoadTest in the lister
  events,      \* versions of the LoadTest not delivered to the lister yet
  nsCached,    \* the namespace is in the lister JMeter reads
  \* The work queue: one key.
  dirty,       \* the key waits in the queue (or in its dirty set)
  retry,       \* AddRateLimited has a delayed Add outstanding
  \* The worker in syncHandler.
  pc,          \* the call to make next
  loadTest,    \* the copy being mutated: phase, namespace set, CompletionTime
  cachedPhase, \* loadTestFromCache.Status.Phase
  fresh,       \* the copy carries the stored resourceVersion
  next,        \* position in Plan of the next Create
  waits,       \* timeouts waited for in this sync
  workerJob,   \* status of the worker job (Locust reads it before the master's)
  syncOk,      \* no error so far
  faults       \* faults so far

clusterVars  == <<namespace, objects, job, pod, aged, podsOld>>
informerVars == <<cache, events, nsCached>>
queueVars    == <<dirty, retry>>
syncVars     == <<loadTest, cachedPhase, fresh, next, waits, workerJob, syncOk>>
vars == <<stored, clusterVars, informerVars, queueVars, pc, syncVars, faults>>

Version == [exists: BOOLEAN, phase: Phase, ns: BOOLEAN]
Absent  == [exists |-> FALSE, phase |-> Blank, ns |-> FALSE]

Copy == [phase: Phase, ns: BOOLEAN, completion: CompletionTime]
NoCopy == [phase |-> Blank, ns |-> FALSE, completion |-> "none"]

PCs == {"idle", "listNamespaces", "createNamespace", "getNamespace", "guard",
        "create", "waitPvc", "waitPod", "status", "workerJob", "masterJob",
        "job", "pods", "cleanup", "update"}

ServerTypeOK ==
  /\ stored \in Version
  /\ namespace \in {"none", "active", "terminating"}
  /\ objects \subseteq Objects
  /\ job \in [Jobs -> JobStatus]
  /\ pod \in [Pods -> PodState]
  /\ aged \in BOOLEAN /\ podsOld \in BOOLEAN

QueueTypeOK ==
  /\ cache \in Version /\ events \in Seq(Version) /\ nsCached \in BOOLEAN
  /\ dirty \in BOOLEAN /\ retry \in BOOLEAN

SyncTypeOK ==
  /\ pc \in PCs
  /\ loadTest \in Copy /\ cachedPhase \in Phase /\ fresh \in BOOLEAN
  /\ next \in DOMAIN Plan /\ waits \in 0..WaitsPerSync
  /\ workerJob \in JobStatus /\ syncOk \in BOOLEAN
  /\ faults \in 0..MaxFaults

TypeOK == ServerTypeOK /\ QueueTypeOK /\ SyncTypeOK

\* The proxy has just created the LoadTest.  Its status is dropped on Create
\* (the CRD has a status subresource), so the stored phase is blank.
Created == [exists |-> TRUE, phase |-> Blank, ns |-> FALSE]

Init ==
  /\ stored = Created
  /\ namespace = "none" /\ objects = {}
  /\ job = [j \in Jobs |-> NewJobStatus] /\ pod = [p \in Pods |-> "pending"]
  /\ aged = FALSE /\ podsOld = FALSE
  /\ cache = Absent /\ events = <<Created>> /\ nsCached = FALSE
  /\ dirty = FALSE /\ retry = FALSE
  /\ pc = "idle"
  /\ loadTest = NoCopy /\ cachedPhase = Blank /\ fresh = FALSE /\ next = 1
  /\ waits = 0 /\ workerJob = NewJobStatus /\ syncOk = TRUE
  /\ faults = 0
-----------------------------------------------------------------------------
(***************************************************************************)
(* Informers and queue.                                                    *)
(***************************************************************************)

\* The store takes a new version, which every watch will deliver in order.
Write(v) == stored' = v /\ events' = Append(events, v)

\* A watch event reaches the lister.  Add and Update enqueue the key; there
\* is no Delete handler.
Deliver ==
  /\ events # <<>>
  /\ cache' = Head(events) /\ events' = Tail(events)
  /\ dirty' = (dirty \/ Head(events).exists)
  /\ UNCHANGED <<stored, clusterVars, nsCached, retry, pc, syncVars, faults>>

\* Mutant: the informer factories have no resync period.
Resync_Never == FALSE /\ UNCHANGED vars

\* Every 30 seconds the informer calls UpdateFunc for what its cache holds.
Resync ==
  /\ cache.exists /\ dirty' = TRUE
  /\ UNCHANGED <<stored, clusterVars, informerVars, retry, pc, syncVars, faults>>

\* handleObject: a Job or Pod owned by the LoadTest was added or updated.
HandleObject ==
  /\ objects \cap (Jobs \cup Pods) # {} /\ cache.exists /\ dirty' = TRUE
  /\ UNCHANGED <<stored, clusterVars, informerVars, retry, pc, syncVars, faults>>

\* The delay of an AddRateLimited has passed.
RetryFires ==
  /\ retry /\ retry' = FALSE /\ dirty' = TRUE
  /\ UNCHANGED <<stored, clusterVars, informerVars, pc, syncVars, faults>>

DeliverNamespace ==
  /\ nsCached' = (namespace # "none") /\ nsCached' # nsCached
  /\ UNCHANGED <<stored, clusterVars, cache, events, queueVars, pc, syncVars, faults>>
-----------------------------------------------------------------------------
(***************************************************************************)
(* The cluster: what Kubernetes and the clock do on their own.             *)
(***************************************************************************)

ClusterStep == UNCHANGED <<stored, informerVars, queueVars, pc, syncVars, faults>>

SetJob(j, s) ==
  /\ job' = [job EXCEPT ![j] = s]
  /\ UNCHANGED <<namespace, objects, pod, aged, podsOld>> /\ ClusterStep

\* Once the LoadTest is deleted nothing depends on how far its jobs get.
LiveJob(j) == stored.exists /\ j \in objects /\ ~Terminal(job[j])

JobStarts(j) ==
  /\ LiveJob(j) /\ ~job[j].active
  /\ SetJob(j, [job[j] EXCEPT !.active = TRUE])

\* One of several parallel pods succeeds; the others are still active.
JobPodSucceeds(j) ==
  /\ LiveJob(j) /\ job[j].active /\ PodsOf(j) > 1 /\ ~job[j].succeeded
  /\ SetJob(j, [job[j] EXCEPT !.succeeded = TRUE])

\* The last pod succeeds and the job controller completes the job.
JobCompletes(j) ==
  /\ LiveJob(j) /\ job[j].active /\ (job[j].failed => RetriesPods)
  /\ SetJob(j, [job[j] EXCEPT !.active = FALSE, !.succeeded = TRUE,
                              !.completion = "recent"])

\* A pod fails; others of the job may still be active.
JobPodFails(j) ==
  /\ LiveJob(j) /\ job[j].active /\ ~(job[j].failed /\ ~RetriesPods)
  /\ \E others \in IF PodsOf(j) > 1 THEN BOOLEAN ELSE {FALSE} :
       SetJob(j, [job[j] EXCEPT !.failed = TRUE, !.active = others,
                                !.gaveUp = ~RetriesPods /\ ~others])

\* The backoff limit is exceeded: what still runs is killed.
JobGivesUp(j) ==
  /\ LiveJob(j) /\ job[j].failed
  /\ SetJob(j, [job[j] EXCEPT !.gaveUp = TRUE, !.active = FALSE])

PodChanges(p) ==
  /\ stored.exists /\ p \in objects
  /\ \E s \in {"unhealthy", "running"} \ {pod[p]} : pod' = [pod EXCEPT ![p] = s]
  /\ UNCHANGED <<namespace, objects, job, aged, podsOld>> /\ ClusterStep

\* Without a threshold nothing reads the age.
LoadTestAges ==
  /\ CleanUp /\ stored.exists /\ ~aged /\ aged' = TRUE
  /\ UNCHANGED <<namespace, objects, job, pod, podsOld>> /\ ClusterStep

PodsAge ==
  /\ stored.exists /\ ~podsOld /\ Pods \cap objects # {} /\ podsOld' = TRUE
  /\ UNCHANGED <<namespace, objects, job, pod, aged>> /\ ClusterStep

\* A completion is never older than its LoadTest.
CompletionAges(j) ==
  /\ stored.exists /\ aged /\ job[j].completion = "recent"
  /\ SetJob(j, [job[j] EXCEPT !.completion = "old"])

\* Mutant: newNamespace sets no owner reference.
NamespaceIsOwned_Not == FALSE

\* newNamespace makes the LoadTest the owner of the namespace.
NamespaceIsOwned == TRUE

\* The garbage collector.
GCNamespace ==
  /\ ~stored.exists /\ NamespaceIsOwned /\ namespace = "active" /\ namespace' = "terminating"
  /\ UNCHANGED <<objects, job, pod, aged, podsOld>> /\ ClusterStep

\* Owned objects go even if the namespace is not terminating yet.  What is
\* collected goes in one step: no later call can write a status any more.
Collect(gone) ==
  /\ objects' = objects \ gone
  /\ job' = [j \in Jobs |-> IF j \in gone THEN NewJobStatus ELSE job[j]]
  /\ pod' = [p \in Pods |-> IF p \in gone THEN "pending" ELSE pod[p]]
  /\ UNCHANGED <<aged, podsOld>> /\ ClusterStep

GCOwned ==
  /\ ~stored.exists /\ objects \cap Owned # {} /\ Collect(Owned)
  /\ UNCHANGED namespace

NamespaceGone ==
  /\ namespace = "terminating" /\ namespace' = "none" /\ Collect(Objects)

\* DELETE /load-test/{name} of the proxy, or kubectl.
UserDeletes ==
  /\ stored.exists /\ Write(Absent)
  /\ UNCHANGED <<clusterVars, cache, nsCached, queueVars, pc, syncVars, faults>>

Environment ==
  \/ \E j \in Jobs : \/ JobStarts(j) \/ JobPodSucceeds(j) \/ JobCompletes(j)
                     \/ JobPodFails(j) \/ JobGivesUp(j) \/ CompletionAges(j)
  \/ \E p \in Pods : PodChanges(p)
  \/ LoadTestAges \/ PodsAge \/ UserDeletes

GarbageCollector == GCNamespace \/ GCOwned \/ NamespaceGone

Informers == Deliver \/ Resync \/ HandleObject \/ RetryFires \/ DeliverNamespace
-----------------------------------------------------------------------------
(***************************************************************************)
(* syncHandler, call by call.                                              *)
(***************************************************************************)

\* Mutant: one wait is enough to use up the sync's time.
Expired_Sooner == waits + 1 >= WaitsPerSync

\* After SYNC_HANDLER_TIMEOUT the context fails every further call.
Expired == waits >= WaitsPerSync

Fault == faults < MaxFaults /\ faults' = faults + 1

\* The namespace name is known; the Sync of Fake first reads the namespace.
EnterSync == IF Backend = "Fake" THEN "getNamespace" ELSE "guard"

\* An error ends syncHandler: only the deferred status update still runs.
Fail == pc' = "update" /\ syncOk' = FALSE

NothingElse == UNCHANGED <<stored, clusterVars, informerVars, queueVars>>

\* SyncStatus of this backend makes an API call right away.
StatusCalls ==
  \/ Backend = "Fake"
  \/ Backend \in {"Ghz", "K6"} /\ loadTest.phase \notin {Blank, Errored}
  \/ Backend = "Locust" /\ loadTest.phase # Errored

\* Mutant: the error of a Create is logged and not returned.
CallFails_GoesOn ==
  /\ pc = "create" /\ Fault
  /\ pc' = (IF next = Len(Plan) THEN "status" ELSE "create")
  /\ next' = IF next = Len(Plan) THEN 1 ELSE next + 1
  /\ NothingElse /\ UNCHANGED <<loadTest, cachedPhase, fresh, waits, workerJob, syncOk>>

\* The call at hand reports an error and has no effect: it never reached
\* the API server (a fault), or the context has expired.  Locust has left
\* the blank phase before its first call.
CallFails ==
  /\ \/ pc \in {"listNamespaces", "createNamespace", "getNamespace", "guard", "create",
                "workerJob", "masterJob", "job", "pods"}
     \/ pc = "status" /\ StatusCalls
  /\ IF Expired THEN UNCHANGED faults ELSE Fault
  /\ Fail
  /\ loadTest' = IF pc = "status" /\ Backend = "Locust" /\ loadTest.phase = Blank
                 THEN [loadTest EXCEPT !.phase = Creating] ELSE loadTest
  /\ workerJob' = NewJobStatus
  /\ NothingElse /\ UNCHANGED <<cachedPhase, fresh, next, waits>>

\* processNextWorkItem takes the key, but the lister has no such LoadTest.
SyncMissing ==
  /\ pc = "idle" /\ dirty /\ ~cache.exists /\ dirty' = FALSE
  /\ UNCHANGED <<stored, clusterVars, informerVars, retry, pc, syncVars, faults>>

\* Mutant: the update carries no resourceVersion, so it never conflicts.
CarriesStoredVersion_Always == TRUE

\* The lister's version is the stored one.
CarriesStoredVersion == events = <<>>

\* The lister's copy is taken.
TakeCopy ==
  /\ pc = "idle" /\ cache.exists
  /\ pc' = IF cache.ns THEN EnterSync ELSE "listNamespaces"
  /\ loadTest' = [phase |-> cache.phase, ns |-> cache.ns, completion |-> "none"]
  /\ cachedPhase' = cache.phase /\ fresh' = CarriesStoredVersion
  /\ UNCHANGED <<next, waits, workerJob, syncOk>>

SyncStart ==
  /\ dirty /\ dirty' = FALSE /\ TakeCopy
  /\ UNCHANGED <<stored, clusterVars, informerVars, retry, faults>>

\* checkOrCreateNamespace lists by label and takes what it finds.
ListNamespaces ==
  /\ pc = "listNamespaces" /\ ~Expired
  /\ IF namespace = "none"
     THEN pc' = "createNamespace" /\ UNCHANGED loadTest
     ELSE pc' = EnterSync /\ loadTest' = [loadTest EXCEPT !.ns = TRUE]
  /\ NothingElse
  /\ UNCHANGED <<cachedPhase, fresh, next, waits, workerJob, syncOk, faults>>

CreateNamespace ==
  /\ pc = "createNamespace" /\ ~Expired
  /\ namespace = "none" /\ namespace' = "active"
  /\ \/ /\ pc' = EnterSync /\ loadTest' = [loadTest EXCEPT !.ns = TRUE]
        /\ UNCHANGED <<syncOk, faults>>
     \/ Fault /\ Fail /\ UNCHANGED loadTest
  /\ UNCHANGED <<stored, objects, job, pod, aged, podsOld, informerVars, queueVars,
                 cachedPhase, fresh, next, waits, workerJob>>

\* Fake.Sync returns nil when the namespace is gone.
FakeGetNamespace ==
  /\ pc = "getNamespace" /\ ~Expired
  /\ pc' = IF namespace = "none" THEN "status" ELSE "guard"
  /\ NothingElse /\ UNCHANGED <<syncVars, faults>>

CheckGuard ==
  /\ pc = "guard" /\ ~Expired
  /\ pc' = IF Guard \cap objects # {} THEN "status" ELSE "create"
  /\ NothingElse /\ UNCHANGED <<syncVars, faults>>

\* Mutant: the position is not reset after the last object.
AfterIndex_NoReset(k) == k + 1

\* The plan is done, or its next object is due.
AfterCreate(k) == IF k = Len(Plan) THEN "status" ELSE "create"
AfterIndex(k)  == IF k = Len(Plan) THEN 1 ELSE k + 1

\* Fake returns the AlreadyExists of its Create; the others ignore it.
Collides(o) == Backend = "Fake" /\ o \in objects

\* Create number next succeeds, or reports an AlreadyExists that is ignored.
CreateObject ==
  LET o == Plan[next] IN
  /\ pc = "create" /\ ~Expired
  /\ namespace = "active" /\ o \notin Rejected /\ ~Collides(o)
  /\ objects' = objects \cup {o}
  /\ \/ o = Pvc /\ pc' = "waitPvc" /\ UNCHANGED <<next, syncOk, faults>>
     \/ o \in Pods /\ pc' = "waitPod" /\ UNCHANGED <<next, syncOk, faults>>
     \/ /\ o # Pvc /\ o \notin Pods
        /\ pc' = AfterCreate(next) /\ next' = AfterIndex(next)
        /\ UNCHANGED <<syncOk, faults>>
     \/ Fault /\ Fail /\ UNCHANGED next
  /\ UNCHANGED <<stored, namespace, job, pod, aged, podsOld, informerVars, queueVars,
                 loadTest, cachedPhase, fresh, waits, workerJob>>

\* The API server (or NewTestdataConfigMap and NewSecret, on data they cannot
\* parse) refuses the object, or the namespace is missing or terminating, or
\* the object exists and the backend does not put up with that.
CreateRefused ==
  /\ pc = "create" /\ ~Expired
  /\ namespace # "active" \/ Plan[next] \in Rejected \/ Collides(Plan[next])
  /\ Fail
  /\ NothingElse
  /\ UNCHANGED <<loadTest, cachedPhase, fresh, next, waits, workerJob, faults>>

Waited(steps) ==
  /\ pc' = AfterCreate(next + steps - 1) /\ next' = AfterIndex(next + steps - 1)
  /\ NothingElse
  /\ UNCHANGED <<loadTest, cachedPhase, fresh, workerJob, syncOk>>

\* JMeter waits for each worker pod to run, but only for so long, and goes
\* on whatever the outcome, also when the Watch call fails.
JMeterWaitPod ==
  /\ pc = "waitPod" /\ Waited(1)
  /\ \/ pod[Plan[next]] = "running" /\ UNCHANGED <<waits, faults>>
     \/ pod[Plan[next]] # "running" /\ waits' = waits + 1 /\ UNCHANGED faults
     \/ Fault /\ UNCHANGED waits

\* The same for the claim, except that a failing Watch call moves on to the
\* next worker: the pod at next + 1 is not created.
JMeterWaitPvc ==
  /\ pc = "waitPvc"
  /\ \/ \E timeout \in {0, 1} : waits' = waits + timeout
        /\ Waited(1) /\ UNCHANGED faults
     \/ Fault /\ Waited(2) /\ UNCHANGED waits
-----------------------------------------------------------------------------
(***************************************************************************)
(* SyncStatus of each backend.  An error keeps the phase set so far.       *)
(***************************************************************************)

Began == IF loadTest.phase = Blank THEN Creating ELSE loadTest.phase

\* SyncStatus returns nil with this phase and this JobStatus.
Decide(phase, completion) ==
  /\ pc' = "cleanup"
  /\ loadTest' = [loadTest EXCEPT !.phase = phase, !.completion = completion]
  /\ workerJob' = NewJobStatus /\ UNCHANGED syncOk

\* SyncStatus goes on with the next call.
ReadNext(call) ==
  /\ pc' = call /\ loadTest' = [loadTest EXCEPT !.phase = Began]
  /\ UNCHANGED <<workerJob, syncOk>>

NotFound ==
  /\ Fail /\ loadTest' = [loadTest EXCEPT !.phase = Began]
  /\ workerJob' = NewJobStatus

ReadOnly ==
  ~Expired /\ NothingElse /\ UNCHANGED <<cachedPhase, fresh, next, waits, faults>>

\* Ghz and K6 return as soon as they have left the blank phase; an Errored
\* load test is never looked at again.
StatusSettled ==
  /\ pc = "status" /\ Backend \in {"Ghz", "K6", "Locust"} /\ ReadOnly
  /\ \/ loadTest.phase = Blank /\ Backend # "Locust" /\ Decide(Creating, "none")
     \/ loadTest.phase = Errored /\ Decide(Errored, "none")

GhzReadJob ==
  /\ pc = "status" /\ Backend = "Ghz" /\ loadTest.phase \notin {Blank, Errored}
  /\ ReadOnly
  /\ IF Job(0) \in objects
     THEN Decide(GhzPhase(job[Job(0)]), job[Job(0)].completion)
     ELSE NotFound

Listed == Jobs \cap objects

K6ListJobs ==
  /\ pc = "status" /\ Backend = "K6" /\ loadTest.phase \notin {Blank, Errored}
  /\ Listed # {}
  /\ ReadOnly /\ Decide(K6Phase(Listed, job), K6JobStatus(Listed, job).completion)

\* Locust looks at its config map, then at the worker job, then at the
\* master job, in three calls.
LocustGetConfigMap ==
  /\ pc = "status" /\ Backend = "Locust" /\ loadTest.phase # Errored /\ ReadOnly
  /\ IF ConfigMap \in objects THEN ReadNext("workerJob") ELSE Decide(Finished, "none")

LocustGetWorkerJob ==
  /\ pc = "workerJob" /\ ReadOnly
  /\ IF WorkerJob \in objects
     THEN pc' = "masterJob" /\ workerJob' = job[WorkerJob] /\ UNCHANGED <<loadTest, syncOk>>
     ELSE NotFound

LocustGetMasterJob ==
  /\ pc = "masterJob" /\ ReadOnly
  /\ IF MasterJob \in objects
     THEN Decide(LocustPhase(job[MasterJob], workerJob), job[MasterJob].completion)
     ELSE NotFound

FakeStatusNamespace ==
  /\ pc = "status" /\ Backend = "Fake" /\ ReadOnly
  /\ IF namespace = "none" THEN Decide(Finished, "none")
     ELSE IF Began = Errored THEN Decide(Errored, "none") ELSE ReadNext("job")

FakeReadJob ==
  /\ pc = "job" /\ Backend = "Fake" /\ ReadOnly
  /\ IF Job(0) \in objects
     THEN Decide(FakePhase(job[Job(0)]), job[Job(0)].completion)
     ELSE NotFound

\* JMeter asks the namespace informer's cache, not the API server.
JMeterStatusNamespace ==
  /\ pc = "status" /\ Backend = "JMeter" /\ ReadOnly
  /\ IF ~nsCached THEN Decide(Finished, "none")
     ELSE IF Began = Errored THEN Decide(Errored, "none") ELSE ReadNext("pods")

\* Mutant: the number of pods is not compared with Spec.DistributedPods.
JMeterListPods_AnyNumber ==
  LET idle == {p \in Pods \cap objects : pod[p] # "running"} IN
  /\ pc = "pods" /\ ReadOnly
  /\ IF idle = {} THEN ReadNext("job")
     ELSE IF podsOld /\ loadTest.phase = Creating THEN Decide(Finished, "none")
     ELSE Decide(WorkerPodPhase(pod[First(idle)]), "none")

\* The first worker pod, in list order, that is not running decides.
JMeterListPods ==
  LET here == Pods \cap objects
      idle == {p \in here : pod[p] # "running"} IN
  /\ pc = "pods" /\ ReadOnly
  /\ IF Cardinality(here) # N THEN Decide(loadTest.phase, "none")
     ELSE IF idle = {} THEN ReadNext("job")
     ELSE IF podsOld /\ loadTest.phase = Creating THEN Decide(Finished, "none")
     ELSE Decide(WorkerPodPhase(pod[First(idle)]), "none")

JMeterReadJob ==
  /\ pc = "job" /\ Backend = "JMeter" /\ ReadOnly
  /\ IF Job(0) \in objects
     THEN Decide(JMeterPhase(job[Job(0)]), job[Job(0)].completion)
     ELSE NotFound
-----------------------------------------------------------------------------
(***************************************************************************)
(* The end of syncHandler and of processNextWorkItem.                      *)
(***************************************************************************)

CleanUpDue == CleanUp /\ LifeTimeExceeded(loadTest.phase, loadTest.completion, aged)

\* The load test is deleted by name, without a precondition on its version.
\* An error of the Delete call is only logged.
CleanUpDeletes ==
  /\ pc = "cleanup" /\ CleanUpDue /\ pc' = "update"
  /\ IF stored.exists THEN Write(Absent) ELSE UNCHANGED <<stored, events>>
  /\ UNCHANGED <<clusterVars, cache, nsCached, queueVars, syncVars, faults>>

NoCleanUp ==
  /\ pc = "cleanup" /\ pc' = "update"
  /\ IF CleanUpDue THEN Fault ELSE UNCHANGED faults
  /\ NothingElse /\ UNCHANGED syncVars

\* The variables of syncHandler go out of scope.
Return ==
  /\ pc' = "idle"
  /\ loadTest' = NoCopy /\ cachedPhase' = Blank /\ fresh' = FALSE /\ next' = 1
  /\ waits' = 0 /\ workerJob' = NewJobStatus /\ syncOk' = TRUE

\* Done(key), after AddRateLimited when syncHandler returned an error.
EndSync == Return /\ retry' = (retry \/ ~syncOk)

\* updateLoadTestStatus writes only a phase that differs from the cached
\* one.  The write is conditional on the resourceVersion of the cached copy;
\* a conflict, a missing LoadTest and any other error are logged and dropped.
UpdateStatus ==
  /\ pc = "update" /\ EndSync
  /\ IF loadTest.phase # cachedPhase /\ stored.exists /\ fresh /\ ~Expired
     THEN Write([exists |-> TRUE, phase |-> loadTest.phase, ns |-> loadTest.ns])
     ELSE UNCHANGED <<stored, events>>
  /\ UNCHANGED <<clusterVars, cache, nsCached, dirty, faults>>

UpdateLost ==
  /\ pc = "update" /\ EndSync /\ loadTest.phase # cachedPhase /\ Fault
  /\ UNCHANGED <<stored, clusterVars, informerVars, dirty>>

\* The process is replaced: the queue and the sync in progress are lost, the
\* caches are filled from a list, and every listed LoadTest is enqueued.
Restarted ==
  /\ cache' = stored /\ events' = <<>> /\ nsCached' = (namespace # "none")
  /\ dirty' = stored.exists /\ retry' = FALSE /\ Return
  /\ UNCHANGED <<stored, clusterVars>>

Restart == Fault /\ Restarted

\* determineLoadTestStatusFromJobs indexes an empty list: the panic in the
\* worker goroutine ends the process.
K6Panic ==
  /\ pc = "status" /\ Backend = "K6" /\ loadTest.phase \notin {Blank, Errored}
  /\ ~Expired /\ Listed = {} /\ Restarted /\ UNCHANGED faults

SyncStatus ==
  \/ StatusSettled \/ GhzReadJob \/ K6ListJobs \/ K6Panic
  \/ LocustGetConfigMap \/ LocustGetWorkerJob \/ LocustGetMasterJob
  \/ FakeStatusNamespace \/ FakeReadJob
  \/ JMeterStatusNamespace \/ JMeterListPods \/ JMeterReadJob

Worker ==
  \/ SyncMissing \/ SyncStart \/ CallFails
  \/ ListNamespaces \/ CreateNamespace \/ FakeGetNamespace \/ CheckGuard
  \/ CreateObject \/ CreateRefused \/ JMeterWaitPod \/ JMeterWaitPvc
  \/ SyncStatus
  \/ CleanUpDeletes \/ NoCleanUp \/ UpdateStatus \/ UpdateLost

Next == Informers \/ Environment \/ GarbageCollector \/ Worker \/ Restart

(***************************************************************************)
(* Fairness.  The worker goroutine runs, the informers deliver and resync, *)
(* timers fire, Kubernetes collects garbage and the clock advances.  What  *)
(* jobs, pods and users do is never promised.                              *)
(***************************************************************************)
Fairness ==
  /\ WF_vars(Worker)
  /\ WF_vars(Deliver) /\ WF_vars(Resync) /\ WF_vars(RetryFires) /\ WF_vars(DeliverNamespace)
  /\ WF_vars(GarbageCollector)
  /\ WF_vars(LoadTestAges) /\ \A j \in Jobs : WF_vars(CompletionAges(j))

Spec == Init /\ [][Next]_vars /\ Fairness
-----------------------------------------------------------------------------
(***************************************************************************)
(* Properties.                                                             *)
(***************************************************************************)

AllJobsDone == \A j \in Jobs : j \in objects /\ Terminal(job[j])

\* types.go: "LoadTestFinished is used when the ... job has run and is
\* finished running".  A stored Finished is never wrong: every job of the
\* load test exists and Kubernetes will start no further pod for it.
FinishedMeansJobsDone ==
  stored.exists /\ stored.phase = Finished => AllJobsDone

\* "Sync check if ... resources have been create, if they have not been
\* create them": whenever a Sync has returned nil for a load test that still
\* exists, every object of its plan exists, whatever calls failed and
\* whenever the controller was restarted in this or earlier syncs.
SyncedMeansCreated ==
  pc \in {"status", "workerJob", "masterJob", "job", "pods"} /\ stored.exists
    => Objects \subseteq objects

\* "JMeter requires all workers to be running before master starts" is the
\* last of several such orders: whatever calls of Sync fail, wherever it is
\* ended and taken up again, and whichever worker it skips, a job or worker
\* pod never exists without the files, the variables, the volume and the
\* service its containers refer to.  A worker of JMeter would not even miss
\* its test data, and test with none.
PodsFindTheirData ==
  stored.exists => \A o \in objects : Needs(o) \subseteq objects

\* checkLoadTestLifeTimeExceeded "returns true if the input loadtest has
\* existed for longer than certain threshold, and its status is Finished or
\* Errored".  When the clean-up is about to delete a load test, the jobs
\* themselves agree now, and not only when they were read: all completed, or
\* one has failed.
CleanUpIsJustified ==
  pc = "cleanup" /\ CleanUpDue /\ stored.exists =>
    /\ aged
    /\ \/ \A j \in Jobs : job[j].completion # "none"
       \/ \E j \in Jobs : job[j].failed

\* A load test that lacks a worker pod (its creation was skipped after a
\* failing Watch) is never reported as running.
RunningHasAllWorkers ==
  stored.exists /\ stored.phase = Running => Pods \subseteq objects

\* Errored is the last phase: no later reading of pods or jobs, and no write
\* from an older copy, replaces it.
ErroredSticks ==
  [][stored.phase = Errored /\ stored'.exists => stored'.phase = Errored]_vars

\* The controller eventually notices that the jobs are over.
OutcomeIsReported ==
  AllJobsDone ~> (~stored.exists \/ stored.phase \in {Finished, Errored})

\* README: "clean up after the test finishes".
CleanedUp == AllJobsDone ~> ~stored.exists

\* Nothing survives the LoadTest, and a sync that still runs on an old copy
\* does not bring anything back for good.
NothingLeft == ~stored.exists ~> [](namespace = "none" /\ objects = {})

\* "One of containers is unhealthy, marking LoadTest as errored": when the
\* worker pods are there and stay unhealthy, the load test gets an outcome.
UnhealthyIsErrored ==
  <>[](\A p \in Pods : p \in objects /\ pod[p] = "unhealthy")
    => <>(~stored.exists \/ stored.phase \in {Finished, Errored})

(***************************************************************************)
(* The phases a client can observe, one after the other.                   *)
(***************************************************************************)
Outcome == {Finished, Errored}
Started == {Starting, Running} \cup Outcome

\* A Ghz load test only moves forward.
GhzMoves ==
  {<<Blank, Creating>>} \cup ({Creating} \X Started)
    \cup {<<Starting, Running>>} \cup ({Starting, Running} \X Outcome)

\* With several jobs, one that has not started yet may turn the phase back
\* from running to starting.
K6Moves ==
  {<<Blank, Creating>>} \cup ({Creating, Starting, Running} \X Started)

LocustMoves == ({Blank} \X ({Creating} \cup Started))
                 \cup ({Creating, Starting, Running} \X Started)

\* Fake and JMeter jobs replace failed pods, so Finished may be left again.
FakeMoves   == (Phase \ {Errored}) \X (Phase \ {Blank, Errored})
JMeterMoves == (Phase \ {Errored}) \X (Phase \ {Blank})

Moves == [Fake   |-> FakeMoves,   Ghz    |-> GhzMoves, K6 |-> K6Moves,
          Locust |-> LocustMoves, JMeter |-> JMeterMoves][Backend]

Lifecycle == INSTANCE LoadTestLifecycle
               WITH seen <- IF stored.exists THEN stored.phase ELSE "gone"

\* The controller implements the life cycle with the moves of its backend:
\* whatever it reads, and whichever copy it writes back, a client sees one
\* permitted move after the other until the load test is gone.
ImplementsLifecycle == Lifecycle!Spec

\* The controller eventually gives every load test a phase.
PhaseLeavesBlank == Lifecycle!LeavesBlank
=============================================================================
