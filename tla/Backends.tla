------------------------------ MODULE Backends ------------------------------
(***************************************************************************)
(* What the Sync method of each backend creates in the namespace of one    *)
(* load test: the Kubernetes objects in the order of the Create calls, the *)
(* objects whose presence makes Sync skip all of them, and the objects     *)
(* that the pods it starts refer to.                                       *)
(***************************************************************************)
EXTENDS LoadTestPhases, Sequences, FiniteSets

CONSTANTS
  Backend,        \* Spec.Type: the backend that runs this load test
  N,              \* Spec.DistributedPods
  HasTestData,    \* Spec.TestData is not empty
  HasEnvVars,     \* Spec.EnvVars is not nil
  HasCustomData   \* EnvVars has JMETER_WORKER_REMOTE_CUSTOM_DATA_ENABLED

ASSUME BackendAssumption == Backend \in {"Fake", "Ghz", "K6", "Locust", "JMeter"}
ASSUME SizeAssumption    == N \in Nat \ {0}
ASSUME SpecAssumption    == {HasTestData, HasEnvVars, HasCustomData} \subseteq BOOLEAN

\* An object is <<kind, index>>.
Kind == {"configmap", "testdata", "secret", "pvc", "pod", "service", "job"}
Object == Kind \X Nat

ConfigMap == <<"configmap", 0>>
TestData  == <<"testdata", 0>>
Secret    == <<"secret", 0>>
Service   == <<"service", 0>>
Pvc       == <<"pvc", 0>>
Job(i)    == <<"job", i>>
Pod(i)    == <<"pod", i>>

\* Locust has two jobs; the others number theirs from 0.
MasterJob == Job(0)
WorkerJob == Job(1)

OnlyIf(wanted, object) == IF wanted THEN <<object>> ELSE <<>>

FakePlan == <<Job(0)>>

GhzPlan == <<ConfigMap>> \o OnlyIf(HasTestData, TestData) \o <<Job(0)>>

K6Plan == <<ConfigMap>> \o OnlyIf(HasTestData, TestData)
            \o OnlyIf(HasEnvVars, Secret) \o [k \in 1..N |-> Job(k - 1)]

\* Mutant: the service is created after the jobs.
LocustPlan_ServiceLast == <<ConfigMap>> \o OnlyIf(HasEnvVars, Secret)
                            \o <<MasterJob, WorkerJob, Service>>

LocustPlan == <<ConfigMap>> \o OnlyIf(HasEnvVars, Secret)
                \o <<MasterJob, Service, WorkerJob>>

\* CreatePodsWithTestdata: for every worker its test data, the claim all
\* workers share when custom data is enabled, and its pod.
JMeterWorkers ==
  IF HasCustomData
  THEN [k \in 1..(3 * N) |-> IF k % 3 = 1 THEN <<"testdata", k \div 3>>
                              ELSE IF k % 3 = 2 THEN Pvc ELSE Pod(k \div 3 - 1)]
  ELSE [k \in 1..(2 * N) |-> IF k % 2 = 1 THEN <<"testdata", k \div 2>>
                                          ELSE Pod(k \div 2 - 1)]

JMeterPlan == <<ConfigMap, Secret>> \o JMeterWorkers \o <<Service, Job(0)>>

Plan == [Fake   |-> FakePlan,   Ghz    |-> GhzPlan, K6 |-> K6Plan,
         Locust |-> LocustPlan, JMeter |-> JMeterPlan][Backend]

Objects == {Plan[k] : k \in DOMAIN Plan}
Jobs    == {o \in Objects : o[1] = "job"}
Pods    == {o \in Objects : o[1] = "pod"}

\* Objects with an owner reference to the LoadTest.  The others live as
\* long as their namespace.
Owned == Objects \cap [Fake   |-> Jobs,
                      Ghz    |-> Jobs,
                      K6     |-> Jobs \cup {Secret},
                      Locust |-> Objects,
                      JMeter |-> Jobs \cup Pods \cup {Pvc}][Backend]

\* Mutants: the guard looks for an object that is not the last one created.
Guard_ConfigMap == {ConfigMap}
Guard_FirstJob  == {Job(0)}

\* Sync creates nothing when it finds one of these.  K6 asks for a job
\* called "loadtest-job", a name none of its jobs has.
Guard == [Fake   |-> {Job(0)},
          Ghz    |-> {Job(0)},
          K6     |-> {},
          Locust |-> {WorkerJob},
          JMeter |-> {Service}][Backend]

\* Jobs of Ghz, K6 and Locust have a BackoffLimit of 0: the first failed
\* pod is the end.  JMeter sets 1 and Fake leaves the default of 6.
RetriesPods == Backend \in {"Fake", "JMeter"}

\* Ghz jobs, and the worker job of Locust, run N pods in parallel.
PodsOf(job) ==
  IF Backend = "Ghz" \/ (Backend = "Locust" /\ job = WorkerJob) THEN N ELSE 1

(***************************************************************************)
(* What the containers of a job or worker pod mount, read their            *)
(* environment from or connect to.                                         *)
(***************************************************************************)
SetIf(wanted, object) == IF wanted THEN {object} ELSE {}

GhzNeeds == {ConfigMap} \cup SetIf(HasTestData, TestData)

K6Needs == {ConfigMap} \cup SetIf(HasTestData, TestData) \cup SetIf(HasEnvVars, Secret)

LocustMasterNeeds == {ConfigMap} \cup SetIf(HasEnvVars, Secret)

\* The workers look the master up by the name of its service.
LocustWorkerNeeds == {ConfigMap, Service} \cup SetIf(HasEnvVars, Secret)

\* The volume with the test data is optional: a pod starts without it, too.
JMeterWorkerNeeds(i) == {<<"testdata", i>>, Secret} \cup SetIf(HasCustomData, Pvc)

\* The workers are found through the service.
JMeterMasterNeeds == {ConfigMap, Service}

JobNeeds(j) == [Fake   |-> {},
                Ghz    |-> GhzNeeds,
                K6     |-> K6Needs,
                Locust |-> IF j = WorkerJob THEN LocustWorkerNeeds ELSE LocustMasterNeeds,
                JMeter |-> JMeterMasterNeeds][Backend]

Needs(o) == IF o[1] = "pod" THEN JMeterWorkerNeeds(o[2])
            ELSE IF o[1] = "job" THEN JobNeeds(o)
            ELSE {}
=============================================================================
