# Kangal in TLA+

Kangal runs load tests in Kubernetes. A **proxy** turns REST requests into
`LoadTest` custom resources; a **controller** reconciles each `LoadTest`: it
creates a namespace, lets one of five **backends** (Fake, ghz, k6, Locust,
JMeter) create jobs and their companions in it, copies the progress of the jobs
into `status.phase`, and deletes the `LoadTest` when its time is over. Reports
go through the proxy to an S3 bucket.

This directory holds TLA+ modules translated from the code, the TLC
configurations that check them, and TLAPS proofs about them.

## 1. Inventory

### 1.1 Components

| Component | Source | State | Operations | What makes it correct |
|---|---|---|---|---|
| Controller | `pkg/controller/loadtest.go`, `controller.go`, `cmd/controller.go` | work queue with its rate limiter, informer caches, the sync in progress | event handlers, `processNextWorkItem`, `syncHandler`, `checkOrCreateNamespace`, `updateLoadTestStatus`, clean-up | the stored phase is true of the jobs; every outcome is reported; clean-up hits what is over, and all of it; restarts and failing calls lose nothing |
| `LoadTest` and its life cycle | `pkg/kubernetes/apis/loadtest/v1` | phase, namespace, job status | build, hash, parse tags and phases | phases move in a permitted order; `errored` is final |
| Backends | `pkg/backends/{fake,ghz,k6,locust,jmeter}` | none of their own: objects in the namespace | `Sync`, `SyncStatus` | `Sync` can be repeated until everything exists; `SyncStatus` reads several objects at different moments and still tells the truth |
| `waitfor` | `pkg/core/waitfor` | one Watch | `Resource` | a wait ends |
| Backend registry | `pkg/backends/registry.go` | map filled at start-up | `GetBackend` | one backend per type |
| Proxy handlers | `pkg/proxy/proxy.go` | none: list, count and create calls | `Create`, `Delete`, `Get`, `List`, `GetLogs` | no duplicate test file, not more than `MAX_LOAD_TESTS`, overwrite replaces |
| Request parsing | `pkg/proxy/request.go`, `envs.go` | none | form to spec | accepted requests are valid specs |
| Kubernetes client | `pkg/kubernetes/client.go` | none | list, create, delete, count, logs | counts what it should count |
| Report store | `pkg/report` | bucket, extracted archives in a local directory, ticker | `ShowHandler`, `PersistHandler` | a shown report is complete, and not that of an older test for ever |
| Middleware, metrics, logging | `pkg/core/{middleware,observability,http}`, `pkg/controller/metrics.go` | counters | | stateless around the rest |
| Generated clientset | `pkg/kubernetes/generated` | informer caches | | generated |
| Charts, CLI, scripts | `charts`, `main.go`, `ci` | | | configuration |

### 1.2 How they interact

* Proxy to controller: only through the stored `LoadTest` (create and delete).
* Controller to backend: calls, within one `syncHandler`, on a deep copy of the
  lister's `LoadTest`.
* Backend to cluster: one API call after the other; Kubernetes moves the jobs
  and pods between any two of them.
* Cluster to controller: watch events into informer caches, whose handlers put
  the one key of the `LoadTest` in the work queue; a resync does so every 30 s
  (`cmd/controller.go:99`).
* `LoadTest` to its namespace and objects: owner references and the garbage
  collector.
* Pods to the report store: `PUT /load-test/{id}/report`, which the proxy passes on
  to the bucket; clients read it back through the proxy's local directory.

### 1.3 What is hard here

1. `syncHandler` takes its `LoadTest` from a cache and writes it back at the
   end of many calls. A conflict or error of that write is logged and dropped.
2. `Sync` decides by *one* object whether everything exists, and a restart or
   a failing call may fall between any two Creates.
3. `SyncStatus` reads configuration, pods and jobs by separate calls; JMeter
   reads its namespace from a cache.
4. All waits of a JMeter sync share one deadline with the calls after them.
5. Clean-up deletes by name, on the strength of an older reading.
6. The `LoadTest` may be deleted at any time, also while its objects are created.
7. During a rolling update two controllers work on the same `LoadTest`.
8. The proxy validates what another program relies on much later: pods to divide
   by, images to run, test data to split.
9. Requests for one report extract it to a directory that they share, that
   others already read from, and that a ticker removes.

The file `PROJECT.json` lists each hazard at its line together with the
property that watches it.

## 2. Modules

| Module | What it is |
|---|---|
| `LoadTestPhases` | phases, what is read of a Job, the phase function of each backend, `checkLoadTestLifeTimeExceeded` |
| `Backends` | per backend: what `Sync` creates in which order (`Plan`), which objects make it skip (`Guard`), what the containers of a pod refer to (`Needs`), owner references, parallelism, back-off |
| `Controller` | one `LoadTest` from its creation to its end: queue, informers, `syncHandler` call by call, the cluster, faults; all properties |
| `LoadTestLifecycle` | abstract: the phases a client sees, one after another, until the `LoadTest` is gone |
| `Proxy` | concurrent `POST /load-test` requests, call by call, over several `LoadTest`s |
| `RollingUpdate` | two `Controller`s at once on one API server |
| `Submission` | one form: parsing, `TransformLoadTestSpec`, and what `Sync` makes of the test data and of the segments of k6 |
| `ReportStore` | the report of one load test: uploads, concurrent `ShowHandler` requests, the directory, the ticker |
| `MCController`, `MCProxy`, `MCReportStore` | the instances that TLC checks |
| `Backends_proofs`, `Controller_proofs`, `Finished_proofs`, `Lifecycle_proofs`, `RollingUpdate_proofs` | theorems about the controller, and then about two of them, each on top of the one before |
| `Proxy_proofs`, `Submission_proofs` | theorems about the proxy |
| `ReportStore_proofs` | theorems about the report store |

`Controller` extends `Backends` extends `LoadTestPhases`; `Controller`
instantiates `LoadTestLifecycle`, and `RollingUpdate` extends `Controller` and
instantiates it once more for the second process. `Proxy` extends
`LoadTestPhases` and sees the controller only as moves of the stored phases and
removals. `Submission` and `ReportStore` stand alone: the first ends where
`Proxy`'s `CreateLoadTest` and `Controller`'s `Init` begin, and a report outlives
its `LoadTest`.

### 2.1 `Controller` and the code

State of the API server: `stored` (exists, phase, namespace name set),
`namespace`, `objects`, `job`, `pod`; of the clock: `aged`, `podsOld`; of the
informers: `cache` (the lister's `LoadTest`), `events` (watch events on their
way), `nsCached`; of the queue: `dirty`, `retry` (a delayed `AddRateLimited`);
of the worker: `pc`, the next API call, and `syncHandler`'s locals.

One action per API call, so that everything else may happen in between:

| Code | Actions |
|---|---|
| event handlers, resync, `handleObject`, delayed add | `Deliver`, `Resync`, `HandleObject`, `RetryFires` |
| `processNextWorkItem`, lister `Get` | `SyncStart`, `SyncMissing` |
| `checkOrCreateNamespace` | `ListNamespaces`, `CreateNamespace` |
| `Sync` | `FakeGetNamespace`, `CheckGuard`, `CreateObject`, `CreateRefused`, `JMeterWaitPod`, `JMeterWaitPvc` |
| `SyncStatus` | `StatusSettled`, `GhzReadJob`, `K6ListJobs`, `K6Panic`, `LocustGet...`, `Fake...`, `JMeter...` |
| clean-up | `CleanUpDeletes`, `NoCleanUp` |
| deferred `updateLoadTestStatus`, `Done`, `AddRateLimited` | `UpdateStatus`, `UpdateLost` |
| any failing call; end of the context | `CallFails` (and a disjunct of the Creates: the effect took place, the answer is an error) |
| restart of the process | `Restart`, `K6Panic` |

Facts of the deployment the module uses: one replica and one worker
(`charts/kangal/values.yaml`, `controller.go:52`); the CRD has a status
subresource, so the phase the proxy sends is dropped on Create and the stored
phase is blank until the controller's first update, and `jobStatus` is not in
the CRD schema, so it lives only as long as one sync.

A Create of an object that exists is ignored by every backend but Fake, which
returns the error (`Collides`). One controller cannot get there, since Fake looks
for its job first; two can.

`WaitsPerSync` is the number of JMeter waits that use up
`SYNC_HANDLER_TIMEOUT`. By default that is 60 s; a wait lasts
`WAIT_FOR_RESOURCE_TIMEOUT` (30 s), but `KUBE_CLIENT_TIMEOUT` (5 s) also ends the
Watch, so that twelve waits fill a sync. The runs use 2, `JMeter` 3.

### 2.2 `Proxy` and the code

`Create` (`pkg/proxy/proxy.go:149`) is four kinds of API calls, each an action:
`ListSameFile` (`GetLoadTestsByLabel`), `DeleteOld` once per listed load test,
`CountActive` (`CountExistingLoadtests`) and `CreateLoadTest`. `Receive` is the
parsing of the form, `Fails` any failing call, a client that hangs up or a
replica that dies. Two replicas of the proxy (`charts/kangal/values.yaml`) and
the handlers of one are alike: requests share nothing but the API server.
`Remove` is `DELETE /load-test/{name}` and the controller's clean-up,
`PhaseMoves` the controller's status updates. A name is one number; the API
server lists in the order of names. A name in use may be drawn again
(`collision`); that a name is drawn again after its bearer was deleted, while
requests still hold it in a list, is left out. `creator`, `found` (after the
answer) and `removed` are history for the properties.

### 2.3 `RollingUpdate` and the code

The chart's Deployment has one replica, the default update strategy, and the
controller elects no leader (`cmd/controller.go`), so that an update starts the
new process before it ends the old one. The new controller is `Controller` as it
stands, with its retries, resyncs and clients. The old one is the same module
again, its own variables renamed (`oPc`, `oCache`, ...) and those of the API
server and of the cluster shared. What one writes reaches the lister of the other as a
watch event (`OldSees`, `NewSees`), and makes the copy the other works on no
longer the stored version. Both list namespaces before they create one; the name is
that of the load test, so the second Create reports AlreadyExists
(`NamespaceExists`). The old controller makes one more sync, from whatever its
lister holds by then, and may be ended before or at any call of it (`OldEnds`); that
it makes only one is the bound of this module.

### 2.4 `Submission` and the code

One action per field in the order in which `fromHTTPRequestToLoadTestSpec`
(`pkg/proxy/request.go:110`) reads them, each of which may refuse the form; a value is chosen when
its field is read. Fields of which nothing but acceptance matters later (tags,
overwrite, URL, duration, the test file) are `Checked`. An image reference is the sequence of its
separators, which is all that `getImage` looks at: references outside its table
become no image, and no image becomes the default. `TransformLoadTestSpec` follows for
all five backends, then `splitTestData` record by record
(`pkg/backends/jmeter/resources.go:553`), and `segmentArgs` and `sequenceArgs` of k6 as functions.
What `Create` does between the two (listing, counting) is `Proxy`. The API server
stores what the schema of the custom resource allows (`SchemaAllows`,
`charts/kangal/crds/loadtest.yaml:39`): a Fake load test without pods passes
Fake's `TransformLoadTestSpec` and is refused there.

### 2.5 `ReportStore` and the code

`ShowHandler` (`pkg/report/handler.go:28`) is a chain of steps per request: `Show`
(`Stat` of the object), `CheckLocal` (`untar`'s look at the directory), `GetArchive` (the
first Read, which asks the bucket for the very version that `Stat` has seen),
`MakeDir` (the archive's first entry, `./`), and for each file `OpenFile` and one
`CopyBlock` per Write of `io.Copy`, then `Serve`. `ReadFails` is a failing read or a client
that goes. A descriptor keeps its own offset and keeps working on a file that has been
unlinked. What is not an archive is answered from the bucket; the branch of
`MinioFileSystem` that lists directories is not reached by it and is left out. `PersistStarts` and
`PersistPut` are `PersistHandler`: pods of one load test may upload one after the
other, and a PUT shows its object when it is complete. The ticker's
`os.RemoveAll` lists the directory, unlinks name by name, and removes the directory if
nothing has been added meanwhile. `disturbed` is history: it says that something happened
after which the directory may stay partial (`Disturbs`).

### 2.6 Simplifications

* One `LoadTest`. Different ones share the queue and nothing else here.
* Pod counters of a Job are only compared with zero, so each is a Boolean.
* Locals of `syncHandler` get their initial values when it returns.
* Watch events are delivered in order; a restart fills the caches from a list.
* After the `LoadTest` is deleted its jobs and pods make no further progress,
  and the garbage collector takes the owned objects in one step: nothing that
  is written afterwards depends on them.
* The k6 list order is the order of the indices (the code takes what the API
  server returns; names sort the same way for fewer than ten jobs).
* One flag says that all worker pods are past `MaxWaitTimeForPods`.
* `aged` only advances when there is a clean-up threshold.
* Out-of-band deletion of the namespace or of single objects is left out.

## 3. Runs

Bound: `MaxFaults` bounds failing calls and restarts together; the context's
end is not a fault and is never bounded. `N` is `spec.distributedPods`. Every
queue, cache and phase is finite as it stands: versions in flight are bounded
by the number of phase changes one sync at a time can store. Two pods or jobs
are enough to have one lag behind the other; one fault is enough to cut a
sequence of Creates at each place, to drop any update and to restart anywhere.

| Run | Constants | Checks | Distinct states |
|---|---|---|---|
| `Ghz` | N=2, test data, clean-up, 1 fault | truth, completeness, clean-up, life cycle, end | 141 704 |
| `K6` | N=2, clean-up, no fault | truth, clean-up, life cycle, reporting | 139 636 |
| `Locust` | N=1, environment variables, 1 fault | truth, completeness, order of creation, life cycle, reporting | 279 994 |
| `FakeLive` | clean-up, 1 fault | reporting | 190 042 |
| `JMeter` | N=1, custom data, 3 waits, 1 fault | `RunningHasAllWorkers`, `PodsFindTheirData`, `ErroredSticks`, `UnhealthyIsErrored` | 550 049 |
| `Proxy` | 4 requests for 1 file, 4 names, limit 2, 1 fault | `DuplicatesAreRaces`, `SomeOverwriterWins` | 711 571 |
| `Rolling` | two Ghz controllers, N=1, test data, no fault | completeness for both, moves of the phases | 1 183 973 |
| `Submission` | up to 4 pods, up to 9 lines | the six properties of `Submission` | 32 168 |
| `Reports` | 2 requests, 2 files, versions of 2 blocks and 1 block | `UndisturbedIsComplete`, `ServedNeverShrinks`, `StaleReportGoes` | 66 592 |
| `JMeterJobLost` | N=1, 1 fault | violates `SyncedMeansCreated` | |
| `JMeterFinished` | N=1, no fault | violates `FinishedMeansJobsDone` | |
| `ProxyLimit` | 2 requests, 2 files, limit 1 | violates `LimitHeld` | |

`K6` runs without faults because its two jobs already interleave with every
call of the sync, and it has no guard object that a fault could mislead; the
faults of its status update are those of `Ghz`. In `Proxy`, four requests are
what it takes for two of them to race into duplicates and for two more to
overwrite both; one file is enough for that, since requests for different
files meet only in the count. The load tests take the moves of `FewMoves`: what
matters to a request is only whether a load test is counted. Its requests are
symmetric (the run checks invariants only).

`JMeter` has one worker, so that `UnhealthyIsErrored` is checked for waits that fit in
a sync, and only for those (section 3.3 says what happens to more workers).
`Locust` has environment variables, so that both of its jobs refer to a secret.

`Rolling` has one pod and no fault besides the end of the old process at any
call, because the two controllers already interleave at every call, and failing
calls of one alone are those of `Ghz`. In `Submission` four pods and nine lines give every
case of the division: no data, fewer lines than pods, a remainder, none. In
`Reports` the second version is shorter than the first, so that a file of the old
one sticks out behind the new one; two files are what it takes for the ticker to
remove one that is complete while the other is written. Requests come again and again. (With three
requests and one file, 265 040 states, the properties hold as well.)

Deadlock checking is off but in `Reports`: after the `LoadTest` is deleted, or all
requests are answered, everything comes to rest, and should.

### 3.1 Properties

* `FinishedMeansJobsDone`: a stored `finished` is true; all jobs exist and are over.
* `SyncedMeansCreated`: when `Sync` returns nil, everything it should create
  exists, whatever failed in this or earlier syncs.
* `PodsFindTheirData`: while the load test exists, no job and no worker pod exists
  without the files, variables, claim and service its containers refer to,
  whichever Creates failed, whichever worker was skipped, and wherever Sync was
  interrupted and begun again. The volume with JMeter's test data is optional, so
  that a worker created too early would not wait for it but test with nothing.
* `CleanUpIsJustified`: when the clean-up deletes, the jobs *now* agree that they are over.
* `ImplementsLifecycle`: refinement of `LoadTestLifecycle` with the moves the
  backend permits. `PhaseLeavesBlank` is that module's liveness.
* `OutcomeIsReported`, `PhaseLeavesBlank`, `CleanedUp`, `NothingLeft`, `UnhealthyIsErrored`: what
  must eventually happen.
* `RunningHasAllWorkers`, `ErroredSticks`: JMeter does not run with a worker
  missing, and does not come back from `errored`. The latter rests on the
  conflict check of the status update: without it (its mutant) a sync that
  started from an older copy finds the pods healthy again and overwrites it.
* `DuplicatesAreRaces`: two load tests of one file exist only if neither
  creator had the other in its list.
* `SomeOverwriterWins`: of the requests that delete each other's load tests, not
  all give up. The reason is that everybody deletes in the order of the list: one
  request is ahead of all others and never finds its next load test gone. With any
  other order (the mutant) each can be stopped by what the other has deleted.
  It does not say that a load test is left in the end: the new one of
  the request that was ahead may be listed by a later request, deleted by it, and
  that request may be stopped by what a third one has deleted. It takes five
  overlapping requests to end with no load test of the file although none was
  refused and no call failed. No document promises otherwise.
* `BothSyncedMeansCreated`, `BothImplementLifecycle`: two controllers that create
  the same objects and write the same status do not make either believe that
  everything exists too early, and the phases move as with one.
* `AcceptedIsRunnable`: the proxy takes zero pods, negative ones and any type; what
  `TransformLoadTestSpec` lets pass nevertheless has a backend, at least one pod
  where one is divided by or indexed, and a whole image, before the schema is
  asked; what is stored has at least one pod whatever its type.
* `ImageIsWhole`: no name of one image with the tag of another.
* `AcceptedIsReadable`: data sent as CSV can be unpacked and read when it is split.
* `SharesAreFair`: the workers of JMeter get consecutive lines, no line twice. With
  at least as many lines as workers all get equally many, and only the remainder of
  the division is lost. With fewer lines the size of a chunk is zero and the shares
  are not equal: worker 0 gets none, the next ones one line each while there are
  any. The tests of the repository expect the same.
* `SegmentsMeet`: the segments of the k6 jobs adjoin from 0 to 1, spelled as in the
  sequence.
* `UndisturbedIsComplete`: a directory nobody works on is a whole report, however many
  requests extracted it at once, unless an extraction was given up, overlapped with
  the ticker or met another version.
* `ServedNeverShrinks`: an extraction takes nothing away from a report that is
  already served. It rests on `OpenFile` without `O_TRUNC`.
* `StaleReportGoes`: once the report is replaced for the last time, blocks of the
  older one do not stay for ever. Only the ticker sees to it.

Each property of a passing run has a mutant in `PROJECT.json`: a small bug in
one definition (`..._Suffix`, next to it) that makes TLC find it violated.

### 3.2 Fairness

Weak fairness of the worker (a goroutine in a loop, `wait.Until`), of watch
delivery and of the resync (client-go), of the delayed add (a timer), of the
garbage collector, and of the clock (`LoadTestAges`, `CompletionAges`). Nothing
is assumed of jobs, pods and users: a job may hang for ever, a pod may stay
pending. Faults are finite in number, so no fairness of the API server's
success is needed beyond `MaxFaults`. `ReportStore` assumes weak fairness of the
ticker and of each request's next step (goroutines run, and a call of the bucket
ends); new requests, uploads and failures may or may not come. `Proxy`, `Rolling`
and `Submission` have no liveness property.

### 3.3 Findings

1. `JMeterJobLost`. `Sync` looks for the service and creates the master job
   after it. A restart between the two, or a failing Create of the job, leaves
   a load test whose job is never created.
2. `JMeterFinished`. `SyncStatus` asks the informer's cache for the namespace
   that the same sync has created. When the cache lags, the load test is
   `finished` before it has begun. (Later readings correct the phase, so a
   client sees it leave `finished`.)
3. `ProxyLimit`. The limit counts stored phases `running` and `creating`. A
   new `LoadTest` has a blank stored phase until the controller's first
   update, and a `starting` one is not counted: with a limit of one, two
   requests *one after the other* both get in, and both load tests run.

The models show more that no run is kept for. Each can be reproduced as described:

* With as many unhealthy JMeter workers as waits fit in a sync, the context ends
  before `SyncStatus` in every sync: no phase, no clean-up (`JMeter.cfg` with N =
  2 and `WaitsPerSync` = 2, `UnhealthyIsErrored`). The result of the waits is
  dropped, so that, with fewer of them, the master job is created although workers do
  not run (`resources.go:537` says otherwise).
* A failed Job has no `completionTime`; Fake and JMeter call it `finished`, and
  only `errored` load tests are deleted by age: it stays for ever (`FakeLive.cfg`
  with `CleanedUp`).
* Data the API server refuses (`Rejected`) makes `Sync` fail for ever; the phase
  stays as it was, usually blank, where `types.go:109` promises `errored`. The same
  happens to a protoset sent to JMeter (`Submission`, `pc = "failed"`).
* `host:port/image:tag`, `host:port/image` and references with more slashes are
  well formed and not in `getImage`'s table: the default image runs instead.
* While an archive is extracted, other requests are served what is there so far;
  after an interrupted extraction they are until the ticker's next turn.

`FakeMoves` and `JMeterMoves` also record that `finished` may be left again:
between two retries of a pod a Job is neither active nor terminal and its
counters look like an end.

## 4. Proofs

TLAPS checks these theorems for all values of the constants that satisfy the
named assumptions next to their declarations (five backends, a positive number
of pods, any sets of rejected objects, requests and files, any number of faults).

* `Controller_proofs!PodsAreComplete`: `Spec => []PodsFindTheirData`, for all five
  backends. The property is not inductive: it says nothing of the next Create.
  `DataInv` adds that the part of the plan before the position of a sync has no
  gaps but pods of JMeter (`NoGaps`; a failing Watch on the claim skips one), that every
  sync starts with the first object (`StartsAnew`), and that nothing is collected while
  the load test exists (`NamespaceKept`). That this is enough is a fact about the
  plans, `Backends_proofs!NeedsComeFirst`: in each of them, for every number of pods
  and choice of options, what an object needs comes before it (`Ordered`), and a claim
  right before its pod (`Paired`), so that the skip of two positions leaves out a pod,
  which nothing needs (`NeedsOf`). It is proved part by part: `OrderedConcat` says when a
  part may be appended to what is in order, `WorkersInOrder` does the arithmetic of
  JMeter's repeated test data, claim and pod.
* `Controller_proofs!TypeCorrect`: `Spec => []TypeOK`. `TypeOK` is not
  inductive: `waits` is only bounded because waiting starts with time left, and
  `JMeterWaitPvc` skips a position because a claim is always followed by a pod.
  The inductive invariant is `TypeInv == TypeOK /\ Waiting`. One lemma per group of
  actions (`InformersType`, `EnvironmentType`, `CallsType`, `CreatesType`,
  `SyncStatusType`, `EndsType`); `FirstExists` (a non-empty list has a first
  item, by well-foundedness of < on Nat) and `K6JobStatusType` are what the K6
  reading needs.
* `Finished_proofs!FinishedIsRight`, `Finished_proofs!SyncedIsComplete`:
  `FinishedMeansJobsDone` and `SyncedMeansCreated` hold for `ByJobs`, the backends
  that decide by their jobs alone (Ghz, K6, Locust). Both come from one
  invariant, `IInv`, because each needs the other: a Finished is right only if all
  jobs were there to be read (`CreatedSoFar`: creations in plan order, and the
  guard's object is the last of them, `GuardIsLast`), and what was created stays
  only while the load test exists (`NamespaceKept`). Finished travels, so
  `NobodySaysFinished` covers every copy: stored, in the lister, on its way there,
  and in the worker. `WorkerSeen` carries what Locust read of the worker job over
  to the call that reads the master's; `SuccessIsFinal` says that a job which
  only shows success has completed. All objects are claimed only while the load
  test exists, and no step brings a deleted one back. Fake and JMeter are
  excluded: their jobs replace failed pods (run `JMeterFinished`, and Fake's phase
  function is the same).
* `Proxy_proofs!OnlyRacesDuplicate`: `Spec => []DuplicatesAreRaces`. The inductive
  invariant adds that what a request has found is gone as far as the request
  has got (`DeletedSoFar`), and still gone when it has created its own, which it
  does last (`CreatedLast`). `ProxyTypeCorrect` comes from the same invariant.
* `Proxy_proofs!OverwriteIsDecided`: `Spec => []SomeOverwriterWins`. The property
  is not inductive: it speaks of requests that have given up, and what saves the
  next one from giving up is where the others *are* in their lists. `WinInv` adds
  that whoever gives up has met a deleted load test (`GaveUp`), that what is listed
  exists until it is deleted (`FoundIsListed`), and `Led`: for each file of
  which something listed has been deleted there is a request that has not given up
  and whose remaining names all come after every name deleted (`Leads`). A
  deletion by the leader moves it on; one by another request either stays behind
  the leader or makes that request the new one (`DeletionWins`); a request that gives up
  was not the leader, since its next name was deleted (`LosersLose`).

* `Lifecycle_proofs`, for all five backends: `LifecycleIsImplemented` (the
  refinement `ImplementsLifecycle`), `ErroredIsFinal` (`ErroredSticks`),
  `RunningIsComplete` (`RunningHasAllWorkers`) and, for all but JMeter,
  `CleanUpIsRight` (`CleanUpIsJustified`). The first two are about steps: the only
  step that stores another phase is `UpdateStatus`, and `StoredMoves` says that it
  is a permitted move from the phase that *is stored*, not only from the one that
  was read. That takes the conflict check (`FreshIsStored`: the copy that
  carries the stored version has the stored phase; `LastVersion`: so has the lister
  when nothing is on its way) and `PhaseMoves`, which follows the phase of the
  sync's copy through `SyncStatus`. What a move rests on has been seen by an
  earlier call, perhaps of an earlier process, so the invariant `LInv` keeps the
  evidence: no copy of the load test (`Phases`: stored, in the lister, on its way,
  in the worker) says running, finished or errored before that phase is `Earned` (all
  worker pods exist; all jobs succeeded; some job failed, or for JMeter the
  namespace has reached the cache), `ReadSoFar` does the same for a sync
  between two readings, and `Grows` is the reason why both last: while the load test
  exists its objects, failures, successes and completions are not taken back.
  `LastVersion` is only needed to take a copy, so it stands beside `LInv` (`FullInv`).
  JMeter is left out of `CleanUpIsRight`: it marks a load test errored for an
  unhealthy pod and deletes it for that, with no job failed.
* `Submission_proofs`, for every form, any number of pods and of lines: the six
  invariants of `Submission` (`TypeCorrect`, `StoredIsRunnable`,
  `StoredImageIsWhole`, `StoredIsReadable`, `SplitIsFair`, `SegmentsAdjoin`). The
  invariant says of a form at field f that the fields before f have been accepted
  and the later ones are untouched, and of the split that line *k* is dealt to
  chunk *k* div the size of a chunk (lines counted from 0; to chunk *k* + 1
  if there are fewer lines than workers), which needs the non-linear facts in `Shares`,
  `OneMoreLine` and `AllDealt`.
* `ReportStore_proofs`, for any number of requests, files, versions and blocks:
  `TypeCorrect` (`TypeOK`), `QuietIsComplete` (`UndisturbedIsComplete`) and
  `ServedStays` (`ServedNeverShrinks`). The invariant has two parts. `Base` always
  holds: blocks are at their places in their files (`InPlace`: a Write never moves
  one), and what a request remembers fits its step (`Sound`). `Orderly`
  holds until something disturbs the directory: whoever extracts, extracts the
  only version there is (`OnlyOf`), and finds in the files at least what it has
  extracted so far (`Extracted`) although others write the same files at the same
  time; when the last one is done, nothing but its version is there and all of it
  is. The lemmas about `Calm` steps show that whatever `Disturbs` does not name
  keeps this. `ServedStays` needs `Base` alone: a Write at its own place
  of a block of the same version changes nothing, and a file is opened, not emptied.

* `RollingUpdate_proofs`, for two controllers at once: `BothTypesCorrect`
  (`BothTypeOK`, all backends), `BothSyncedComplete` (`BothSyncedMeansCreated`, for
  Ghz, K6 and Locust) and `BothLifecycleImplemented` (`BothImplementLifecycle`, for
  all backends but JMeter). Each controller keeps `LInv` although the other one works
  between any two of its calls. What a controller needs of the other one is at
  the end of `Lifecycle_proofs`, stated once and used in both directions: that it is
  `Progress` (nobody brings the load test back, and while it exists nobody takes away
  an object, a namespace or what a job has shown), that its writes are only seen as
  later versions (`Sees`: the copy at hand is then no longer fresh), and that the
  phase it stored is earned by what exists in the API server (`Common`).
  `StepsProgress`, `CommonHolds` and `StoredMoves` say that a controller offers this,
  `OtherLives` and `OtherVersion` that it is enough. The old controller takes a last
  copy, from a lister that is then gone, or ends; `LastStepsLive` is about those two
  steps, after which it keeps `LInv` without `LastVersion`. `BothInv`, the inductive
  invariant, also holds in every state of the run `Rolling`. The first section only
  shows that `Old` of `RollingUpdate` and the instance `O` of the proofs have the same
  actions. JMeter is left out of the last one: its evidence that an errored load
  test had a namespace is the namespace lister, which the model takes away from
  the old controller.

Only model-checked: all liveness (fairness is out of the prover's reach). No
theorem: `FinishedMeansJobsDone` and `SyncedMeansCreated` for Fake and JMeter, where the
first does not hold for JMeter (run `JMeterFinished`) and neither does the second
(run `JMeterJobLost`).

## 5. Not modelled, and the plan

Not modelled: the options of `List` (pages, filter by phase and tags) and the
choice of a pod for `GetLogs`, which only read; log streaming, metrics and
middleware; the generated clientset; charts; container specifications.

Next, in this order:

1. `WorkQueue`: the queue with dirty and processing sets and several keys, and
   `Controller`'s `dirty`/`retry` shown to implement it.
2. An abstract admission that `Proxy` implements as long as requests do not
   overlap; DELETE and clean-up by name against names drawn again.
3. A namespace deleted behind the controller's back.
4. JMeter in `BothLifecycleImplemented`: the old controller keeps its namespace lister.
