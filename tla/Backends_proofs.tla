-------------------------- MODULE Backends_proofs --------------------------
(***************************************************************************)
(* Facts about the creation plans, for every backend, number of pods and   *)
(* choice of options.                                                      *)
(***************************************************************************)
EXTENDS Backends, SequenceTheorems, NaturalsInduction, TLAPS

\* Concatenation at the last position.
LEMMA LastOfConcat ==
  ASSUME NEW S, NEW s \in Seq(S), NEW t \in Seq(S), Len(t) > 0
  PROVE  /\ s \o t \in Seq(S)
         /\ Len(s \o t) = Len(s) + Len(t)
         /\ Len(s \o t) > 0
         /\ (s \o t)[Len(s \o t)] = t[Len(t)]
  <1>1. Len(s) \in Nat /\ Len(t) \in Nat
    BY LenProperties
  <1>. QED  BY <1>1, ConcatProperties

\* Short tuples are sequences.
LEMMA Tuples ==
  ASSUME NEW S, NEW a \in S, NEW b \in S, NEW c \in S
  PROVE  /\ <<a>> \in Seq(S) /\ Len(<<a>>) = 1 /\ <<a>>[1] = a
         /\ <<a, b>> \in Seq(S) /\ Len(<<a, b>>) = 2 /\ <<a, b>>[2] = b
         /\ <<a, b, c>> \in Seq(S) /\ Len(<<a, b, c>>) = 3 /\ <<a, b, c>>[3] = c
  OBVIOUS

\* An optional object is a plan.
LEMMA OnlyIfIsAPlan ==
  ASSUME NEW o \in Object, NEW wanted \in BOOLEAN
  PROVE  OnlyIf(wanted, o) \in Seq(Object)
  BY DEF OnlyIf

\* Every object is in the set of objects.
LEMMA ObjectTypes ==
  /\ {ConfigMap, TestData, Secret, Service, Pvc, MasterJob, WorkerJob} \subseteq Object
  /\ \A i \in Nat : Job(i) \in Object /\ Pod(i) \in Object /\ <<"testdata", i>> \in Object
  BY DEF ConfigMap, TestData, Secret, Service, Pvc, MasterJob, WorkerJob, Job, Pod,
         Object, Kind

\* The worker part of the JMeter plan is a plan.
LEMMA JMeterWorkersType == JMeterWorkers \in Seq(Object)
  <1>1. CASE HasCustomData
    <2>1. \A k \in 1..(3 * N) :
             (IF k % 3 = 1 THEN <<"testdata", k \div 3>>
              ELSE IF k % 3 = 2 THEN Pvc ELSE Pod(k \div 3 - 1)) \in Object
      <3>. SUFFICES ASSUME NEW k \in 1..(3 * N)
           PROVE (IF k % 3 = 1 THEN <<"testdata", k \div 3>>
              ELSE IF k % 3 = 2 THEN Pvc ELSE Pod(k \div 3 - 1)) \in Object
        OBVIOUS
      <3>1. k \in Nat /\ k >= 1
        BY SizeAssumption
      <3>2. k % 3 \in {0, 1, 2} /\ k \div 3 \in Nat /\ (k % 3 = 0 => k \div 3 - 1 \in Nat)
        BY <3>1
      <3>. QED  BY <3>2, ObjectTypes
    <2>. QED  BY <1>1, <2>1, SizeAssumption, IsASeq DEF JMeterWorkers
  <1>2. CASE ~HasCustomData
    <2>1. \A k \in 1..(2 * N) :
             (IF k % 2 = 1 THEN <<"testdata", k \div 2>> ELSE Pod(k \div 2 - 1)) \in Object
      <3>. SUFFICES ASSUME NEW k \in 1..(2 * N)
           PROVE (IF k % 2 = 1 THEN <<"testdata", k \div 2>> ELSE Pod(k \div 2 - 1)) \in Object
        OBVIOUS
      <3>1. k \in Nat /\ k >= 1
        BY SizeAssumption
      <3>2. k \div 2 \in Nat /\ (k % 2 # 1 => k \div 2 - 1 \in Nat)
        BY <3>1
      <3>. QED  BY <3>2, ObjectTypes
    <2>. QED  BY <1>2, <2>1, SizeAssumption, IsASeq DEF JMeterWorkers
  <1>. QED  BY <1>1, <1>2

\* The jobs of K6 are a plan that ends with a job.
LEMMA K6JobsType ==
  LET jobs == [k \in 1..N |-> Job(k - 1)] IN
  jobs \in Seq(Object) /\ Len(jobs) = N /\ jobs[N] = Job(N - 1)
  <1>1. \A k \in 1..N : Job(k - 1) \in Object
    <2>1. \A k \in 1..N : k - 1 \in Nat
      BY SizeAssumption
    <2>. QED  BY <2>1, ObjectTypes
  <1>2. [k \in 1..N |-> Job(k - 1)] \in Seq(Object)
    BY <1>1, SizeAssumption, IsASeq
  <1>. QED  BY <1>2, SizeAssumption, LenProperties

\* Whatever the backend and the options, the plan is a finite, non-empty
\* sequence of objects whose last Create is that of a job.
LEMMA PlanEndsWithAJob ==
  /\ Plan \in Seq(Object)
  /\ Len(Plan) \in Nat \ {0}
  /\ Plan[Len(Plan)][1] = "job"
  <1>0. /\ \A i \in Nat : Job(i) \in Object /\ Job(i)[1] = "job"
        /\ {ConfigMap, TestData, Secret, Service, MasterJob, WorkerJob} \subseteq Object
        /\ OnlyIf(HasTestData, TestData) \in Seq(Object)
        /\ OnlyIf(HasEnvVars, Secret) \in Seq(Object)
    BY ObjectTypes, OnlyIfIsAPlan, SpecAssumption DEF Job
  <1>9. ASSUME NEW s \in Seq(Object), NEW t \in Seq(Object), Len(t) > 0,
               t[Len(t)][1] = "job", Plan = s \o t
        PROVE  /\ Plan \in Seq(Object)
               /\ Len(Plan) \in Nat \ {0}
               /\ Plan[Len(Plan)][1] = "job"
    BY <1>9, LastOfConcat, LenProperties
  <1>1. CASE Backend = "Fake"
    <2>1. Plan = <<Job(0)>>
      BY <1>1 DEF Plan, FakePlan
    <2>. QED  BY <2>1, <1>0, Tuples
  <1>2. CASE Backend = "Ghz"
    <2>1. Plan = <<ConfigMap>> \o OnlyIf(HasTestData, TestData) \o <<Job(0)>>
      BY <1>2 DEF Plan, GhzPlan
    <2>2. <<ConfigMap>> \o OnlyIf(HasTestData, TestData) \in Seq(Object)
      BY <1>0, Tuples, ConcatProperties
    <2>3. <<Job(0)>> \in Seq(Object) /\ Len(<<Job(0)>>) = 1 /\ <<Job(0)>>[1] = Job(0)
      BY <1>0, Tuples
    <2>. QED  BY <2>1, <2>2, <2>3, <1>0, <1>9
  <1>3. CASE Backend = "K6"
    <2> DEFINE jobs == [k \in 1..N |-> Job(k - 1)]
               first == <<ConfigMap>> \o OnlyIf(HasTestData, TestData)
                          \o OnlyIf(HasEnvVars, Secret)
    <2>1. Plan = first \o jobs
      BY <1>3 DEF Plan, K6Plan
    <2>2. <<ConfigMap>> \o OnlyIf(HasTestData, TestData) \in Seq(Object)
      BY <1>0, Tuples, ConcatProperties
    <2>3. first \in Seq(Object)
      BY <2>2, <1>0, ConcatProperties
    <2>4. jobs \in Seq(Object) /\ Len(jobs) = N /\ jobs[N] = Job(N - 1)
      BY K6JobsType
    <2>5. N \in Nat /\ N > 0 /\ N - 1 \in Nat
      BY SizeAssumption
    <2> HIDE DEF jobs, first
    <2>. QED  BY <2>1, <2>3, <2>4, <2>5, <1>0, <1>9
  <1>4. CASE Backend = "Locust"
    <2> DEFINE last == <<MasterJob, Service, WorkerJob>>
               first == <<ConfigMap>> \o OnlyIf(HasEnvVars, Secret)
    <2>1. Plan = first \o last
      BY <1>4 DEF Plan, LocustPlan
    <2>2. first \in Seq(Object)
      BY <1>0, Tuples, ConcatProperties
    <2>3. last \in Seq(Object) /\ Len(last) = 3 /\ last[3] = WorkerJob
      BY <1>0, Tuples
    <2>4. WorkerJob[1] = "job"
      BY DEF WorkerJob, Job
    <2> HIDE DEF first, last
    <2>5. Len(last) > 0 /\ last[Len(last)][1] = "job"
      BY <2>3, <2>4
    <2>. QED  BY <2>1, <2>2, <2>3, <2>5, <1>9
  <1>5. CASE Backend = "JMeter"
    <2> DEFINE last == <<Service, Job(0)>>
               first == <<ConfigMap, Secret>> \o JMeterWorkers
    <2>1. Plan = first \o last
      BY <1>5 DEF Plan, JMeterPlan
    <2>2. first \in Seq(Object)
      BY <1>0, Tuples, JMeterWorkersType, ConcatProperties
    <2>3. last \in Seq(Object) /\ Len(last) = 2 /\ last[2] = Job(0)
      BY <1>0, Tuples
    <2>4. Job(0)[1] = "job"
      BY <1>0
    <2> HIDE DEF first, last
    <2>5. Len(last) > 0 /\ last[Len(last)][1] = "job"
      BY <2>3, <2>4
    <2>. QED  BY <2>1, <2>2, <2>3, <2>5, <1>9
  <1>. QED  BY <1>1, <1>2, <1>3, <1>4, <1>5, BackendAssumption
-----------------------------------------------------------------------------
(***************************************************************************)
(* The order of the plans: the objects a pod's containers refer to are     *)
(* created before the pod.                                                 *)
(***************************************************************************)
Elements(s) == {s[k] : k \in DOMAIN s}

\* A pair has two elements, and a concatenation those of its parts.
LEMMA PairElements ==
  ASSUME NEW a, NEW b
  PROVE  Elements(<<a, b>>) = {a, b}
  <1>1. DOMAIN <<a, b>> = {1, 2} /\ <<a, b>>[1] = a /\ <<a, b>>[2] = b
    OBVIOUS
  <1>. QED  BY <1>1 DEF Elements

LEMMA ConcatElements ==
  ASSUME NEW S, NEW s \in Seq(S), NEW t \in Seq(S)
  PROVE  Elements(s \o t) = Elements(s) \cup Elements(t)
  <1>1. /\ s \o t \in Seq(S) /\ Len(s) \in Nat /\ Len(t) \in Nat
        /\ DOMAIN s = 1..Len(s) /\ DOMAIN t = 1..Len(t)
        /\ DOMAIN (s \o t) = 1..(Len(s) + Len(t))
        /\ \A k \in 1..Len(s) : (s \o t)[k] = s[k]
        /\ \A k \in (Len(s) + 1)..(Len(s) + Len(t)) : (s \o t)[k] = t[k - Len(s)]
    BY ConcatProperties, LenProperties
  <1>2. ASSUME NEW k \in DOMAIN (s \o t)
        PROVE  (s \o t)[k] \in Elements(s) \cup Elements(t)
    <2> USE DEF Elements
    <2>1. CASE k \in 1..Len(s)
      BY <1>1, <2>1
    <2>2. CASE k \in (Len(s) + 1)..(Len(s) + Len(t))
      <3>1. k - Len(s) \in 1..Len(t)
        BY <1>1, <2>2
      <3>. QED  BY <1>1, <2>2, <3>1
    <2>. QED  BY <1>1, <2>1, <2>2
  <1>3. ASSUME NEW k \in DOMAIN s
        PROVE  s[k] \in Elements(s \o t)
    <2> USE DEF Elements
    <2>1. k \in 1..(Len(s) + Len(t)) /\ k \in 1..Len(s)
      BY <1>1
    <2>. QED  BY <1>1, <2>1
  <1>4. ASSUME NEW k \in DOMAIN t
        PROVE  t[k] \in Elements(s \o t)
    <2> USE DEF Elements
    <2>1. /\ k + Len(s) \in (Len(s) + 1)..(Len(s) + Len(t))
          /\ k + Len(s) \in 1..(Len(s) + Len(t)) /\ (k + Len(s)) - Len(s) = k
      BY <1>1
    <2>2. (s \o t)[k + Len(s)] = t[k]
      BY <1>1, <2>1
    <2>. QED  BY <1>1, <2>1, <2>2
  <1>. QED  BY <1>2, <1>3, <1>4 DEF Elements

\* The elements of the short sequences the plans are built from.
LEMMA ShortElements ==
  /\ \A a : Elements(<<a>>) = {a}
  /\ \A wanted, o : Elements(OnlyIf(wanted, o)) = SetIf(wanted, o)
  <1>1. ASSUME NEW a PROVE Elements(<<a>>) = {a}
    <2>1. DOMAIN <<a>> = {1} /\ <<a>>[1] = a
      OBVIOUS
    <2>. QED  BY <2>1 DEF Elements
  <1>2. Elements(<<>>) = {}
    <2>1. DOMAIN <<>> = {}
      OBVIOUS
    <2>. QED  BY <2>1 DEF Elements
  <1>. QED  BY <1>1, <1>2 DEF OnlyIf, SetIf

\* What an object needs comes before it in the sequence.
Ordered(s) == \A k \in DOMAIN s : Needs(s[k]) \subseteq {s[j] : j \in 1..(k - 1)}

\* A claim is followed by the pod that mounts it.
Paired(s) == \A k \in DOMAIN s : s[k] = Pvc => k + 1 \in DOMAIN s /\ s[k + 1][1] = "pod"

\* A part may be appended when what its objects need comes before them in
\* the part, or anywhere in what is there already.
LEMMA OrderedConcat ==
  ASSUME NEW S, NEW s \in Seq(S), NEW t \in Seq(S), Ordered(s), Paired(s), Paired(t),
         \A k \in DOMAIN t :
            Needs(t[k]) \subseteq Elements(s) \cup {t[j] : j \in 1..(k - 1)}
  PROVE  Ordered(s \o t) /\ Paired(s \o t)
  <1> DEFINE m == Len(s)
             n == Len(t)
             u == s \o t
  <1>1. /\ m \in Nat /\ n \in Nat
        /\ DOMAIN s = 1..m /\ DOMAIN t = 1..n /\ DOMAIN u = 1..(m + n)
        /\ \A k \in 1..m : u[k] = s[k]
        /\ \A k \in (m + 1)..(m + n) : u[k] = t[k - m]
    BY ConcatProperties, LenProperties
  <1> HIDE DEF m, n, u
  <1>2. ASSUME NEW k \in 1..m
        PROVE  /\ Needs(u[k]) \subseteq {u[j] : j \in 1..(k - 1)}
               /\ u[k] = Pvc => k + 1 \in DOMAIN u /\ u[k + 1][1] = "pod"
    <2>1. \A j \in 1..(k - 1) : j \in 1..m /\ u[j] = s[j]
      BY <1>1
    <2>2. Needs(s[k]) \subseteq {s[j] : j \in 1..(k - 1)}
      BY <1>1 DEF Ordered
    <2>3. Needs(u[k]) \subseteq {u[j] : j \in 1..(k - 1)}
      BY <1>1, <2>1, <2>2
    <2>4. ASSUME u[k] = Pvc PROVE k + 1 \in DOMAIN u /\ u[k + 1][1] = "pod"
      <3>1. k + 1 \in 1..m /\ s[k + 1][1] = "pod"
        BY <1>1, <2>4 DEF Paired
      <3>2. k + 1 \in 1..(m + n)
        BY <1>1, <3>1
      <3>. QED  BY <1>1, <3>1, <3>2
    <2>. QED  BY <2>3, <2>4
  <1>3. ASSUME NEW k \in (m + 1)..(m + n)
        PROVE  /\ Needs(u[k]) \subseteq {u[j] : j \in 1..(k - 1)}
               /\ u[k] = Pvc => k + 1 \in DOMAIN u /\ u[k + 1][1] = "pod"
    <2>1. k - m \in 1..n /\ u[k] = t[k - m] /\ k \in Nat
      BY <1>1
    <2>2. Needs(t[k - m]) \subseteq Elements(s) \cup {t[j] : j \in 1..((k - m) - 1)}
      BY <1>1, <2>1
    <2>3. Elements(s) \subseteq {u[j] : j \in 1..(k - 1)}
      <3>1. \A j \in 1..m : j \in 1..(k - 1) /\ u[j] = s[j]
        BY <1>1, <2>1
      <3>. QED  BY <1>1, <3>1 DEF Elements
    <2>4. {t[j] : j \in 1..((k - m) - 1)} \subseteq {u[j] : j \in 1..(k - 1)}
      <3>1. \A j \in 1..((k - m) - 1) :
               /\ j + m \in 1..(k - 1) /\ j + m \in (m + 1)..(m + n) /\ (j + m) - m = j
        BY <1>1, <2>1
      <3>2. \A j \in 1..((k - m) - 1) : j + m \in 1..(k - 1) /\ u[j + m] = t[j]
        BY <1>1, <3>1
      <3>. QED  BY <3>2
    <2>5. ASSUME u[k] = Pvc PROVE k + 1 \in DOMAIN u /\ u[k + 1][1] = "pod"
      <3>1. (k - m) + 1 \in 1..n /\ t[(k - m) + 1][1] = "pod"
        BY <1>1, <2>1, <2>5 DEF Paired
      <3>2. k + 1 \in (m + 1)..(m + n) /\ k + 1 \in 1..(m + n) /\ (k + 1) - m = (k - m) + 1
        BY <1>1, <2>1, <3>1
      <3>. QED  BY <1>1, <3>1, <3>2
    <2>. QED  BY <2>1, <2>2, <2>3, <2>4, <2>5
  <1>4. \A k \in DOMAIN u : k \in 1..m \/ k \in (m + 1)..(m + n)
    BY <1>1
  <1>5. Ordered(u) /\ Paired(u)
    BY <1>2, <1>3, <1>4 DEF Ordered, Paired
  <1>. QED  BY <1>5 DEF u

\* Only pods and jobs have needs, and nothing needs a pod.
LEMMA NeedsOf ==
  /\ \A o : o[1] \notin {"pod", "job"} => Needs(o) = {}
  /\ \A i : Needs(Pod(i)) = JMeterWorkerNeeds(i) /\ Needs(Job(i)) = JobNeeds(Job(i))
  /\ \A o, n : n \in Needs(o) => n[1] # "pod"
  <1>1. \A o : o[1] \notin {"pod", "job"} => Needs(o) = {}
    BY DEF Needs
  <1>2. \A i : Needs(Pod(i)) = JMeterWorkerNeeds(i) /\ Needs(Job(i)) = JobNeeds(Job(i))
    BY DEF Needs, Pod, Job
  <1>3. /\ ConfigMap[1] # "pod" /\ TestData[1] # "pod" /\ Secret[1] # "pod"
        /\ Service[1] # "pod" /\ Pvc[1] # "pod" /\ \A i : <<"testdata", i>>[1] # "pod"
    BY DEF ConfigMap, TestData, Secret, Service, Pvc
  <1>4. \A j, n : n \in JobNeeds(j) => n[1] # "pod"
    <2>1. \A n : n \in GhzNeeds \cup K6Needs \cup LocustWorkerNeeds \cup LocustMasterNeeds
                        \cup JMeterMasterNeeds => n[1] # "pod"
      BY <1>3 DEF GhzNeeds, K6Needs, LocustWorkerNeeds, LocustMasterNeeds, JMeterMasterNeeds, SetIf
    <2>2. \A j : JobNeeds(j) \subseteq GhzNeeds \cup K6Needs \cup LocustWorkerNeeds
                                         \cup LocustMasterNeeds \cup JMeterMasterNeeds
      BY BackendAssumption DEF JobNeeds
    <2>. QED  BY <2>1, <2>2
  <1>5. \A i, n : n \in JMeterWorkerNeeds(i) => n[1] # "pod"
    BY <1>3 DEF JMeterWorkerNeeds, SetIf
  <1>. QED  BY <1>1, <1>2, <1>4, <1>5 DEF Needs

\* A sequence of objects that need nothing, with no claim, is in order.
LEMMA NoNeeds ==
  ASSUME NEW s, \A o \in Elements(s) : o[1] \notin {"pod", "job", "pvc"}
  PROVE  Ordered(s) /\ Paired(s)
  <1>1. \A k \in DOMAIN s : Needs(s[k]) = {} /\ s[k] # Pvc
    BY NeedsOf DEF Elements, Pvc
  <1>. QED  BY <1>1 DEF Ordered, Paired

\* A sequence without claims has none to pair.
LEMMA NoClaims ==
  ASSUME NEW s, \A k \in DOMAIN s : s[k][1] # "pvc"
  PROVE  Paired(s)
  BY DEF Paired, Pvc

\* The worker part of the JMeter plan: a pod follows its test data, and the
\* claim if there is one.
LEMMA WorkersInOrder ==
  /\ Paired(JMeterWorkers)
  /\ \A k \in DOMAIN JMeterWorkers :
       Needs(JMeterWorkers[k]) \subseteq {Secret} \cup {JMeterWorkers[j] : j \in 1..(k - 1)}
  <1> DEFINE w == JMeterWorkers
  <1>0. N \in Nat /\ N > 0
    BY SizeAssumption
  <1>k. /\ Pvc[1] = "pvc" /\ \A i : Pod(i)[1] = "pod" /\ <<"testdata", i>>[1] = "testdata"
    BY DEF Pvc, Pod
  <1>1. CASE HasCustomData
    <2>1. /\ DOMAIN w = 1..(3 * N)
          /\ \A k \in 1..(3 * N) :
                w[k] = IF k % 3 = 1 THEN <<"testdata", k \div 3>>
                       ELSE IF k % 3 = 2 THEN Pvc ELSE Pod(k \div 3 - 1)
      BY <1>1 DEF JMeterWorkers
    <2> HIDE DEF w
    <2>2. \A k \in 1..(3 * N) : k % 3 \in {0, 1, 2}
      BY <1>0
    <2>3. \A k \in 1..(3 * N) : k % 3 = 2 => k + 1 \in 1..(3 * N) /\ (k + 1) % 3 = 0
      BY <1>0
    <2>4. \A k \in 1..(3 * N) : k % 3 = 0 =>
             /\ k - 1 \in 1..(3 * N) /\ k - 1 \in 1..(k - 1) /\ (k - 1) % 3 = 2
             /\ k - 2 \in 1..(3 * N) /\ k - 2 \in 1..(k - 1) /\ (k - 2) % 3 = 1
             /\ (k - 2) \div 3 = k \div 3 - 1
      BY <1>0
    <2>5. ASSUME NEW k \in 1..(3 * N), w[k] = Pvc
          PROVE  k + 1 \in 1..(3 * N) /\ w[k + 1][1] = "pod"
      <3>1. k % 3 = 2
        BY <1>k, <2>1, <2>2, <2>5
      <3>2. k + 1 \in 1..(3 * N) /\ (k + 1) % 3 = 0
        BY <2>3, <3>1
      <3>3. w[k + 1] = Pod((k + 1) \div 3 - 1)
        BY <2>1, <3>2
      <3>. QED  BY <1>k, <3>2, <3>3
    <2>6. ASSUME NEW k \in 1..(3 * N)
          PROVE  Needs(w[k]) \subseteq {Secret} \cup {w[j] : j \in 1..(k - 1)}
      <3>1. CASE k % 3 # 0
        <4>1. w[k][1] \notin {"pod", "job"}
          BY <1>k, <2>1, <2>2, <3>1
        <4>. QED  BY <4>1, NeedsOf
      <3>2. CASE k % 3 = 0
        <4>1. w[k] = Pod(k \div 3 - 1)
          BY <2>1, <3>2
        <4>2. w[k - 1] = Pvc /\ w[k - 2] = <<"testdata", k \div 3 - 1>>
          BY <2>1, <2>4, <3>2
        <4>3. Needs(w[k]) \subseteq {<<"testdata", k \div 3 - 1>>, Secret, Pvc}
          BY <4>1, NeedsOf DEF JMeterWorkerNeeds, SetIf
        <4>. QED  BY <2>4, <3>2, <4>2, <4>3
      <3>. QED  BY <3>1, <3>2
    <2>. QED  BY <2>1, <2>5, <2>6 DEF Paired, w
  <1>2. CASE ~HasCustomData
    <2>1. /\ DOMAIN w = 1..(2 * N)
          /\ \A k \in 1..(2 * N) :
                w[k] = IF k % 2 = 1 THEN <<"testdata", k \div 2>> ELSE Pod(k \div 2 - 1)
      BY <1>2 DEF JMeterWorkers
    <2> HIDE DEF w
    <2>2. \A k \in 1..(2 * N) : w[k] # Pvc
      BY <1>k, <2>1
    <2>3. \A k \in 1..(2 * N) : k % 2 # 1 =>
             /\ k - 1 \in 1..(2 * N) /\ k - 1 \in 1..(k - 1) /\ (k - 1) % 2 = 1
             /\ (k - 1) \div 2 = k \div 2 - 1
      BY <1>0
    <2>4. ASSUME NEW k \in 1..(2 * N)
          PROVE  Needs(w[k]) \subseteq {Secret} \cup {w[j] : j \in 1..(k - 1)}
      <3>1. CASE k % 2 = 1
        <4>1. w[k][1] \notin {"pod", "job"}
          BY <1>k, <2>1, <3>1
        <4>. QED  BY <4>1, NeedsOf
      <3>2. CASE k % 2 # 1
        <4>1. w[k] = Pod(k \div 2 - 1)
          BY <2>1, <3>2
        <4>2. w[k - 1] = <<"testdata", k \div 2 - 1>>
          BY <2>1, <2>3, <3>2
        <4>3. Needs(w[k]) \subseteq {<<"testdata", k \div 2 - 1>>, Secret}
          BY <1>2, <4>1, NeedsOf DEF JMeterWorkerNeeds, SetIf
        <4>. QED  BY <2>3, <3>2, <4>2, <4>3
      <3>. QED  BY <3>1, <3>2
    <2>. QED  BY <2>1, <2>2, <2>4 DEF Paired, w
  <1>. QED  BY <1>1, <1>2

\* Whatever the backend and the options, Sync creates what a job or worker
\* pod refers to before that job or pod, and a claim right before its pod.
LEMMA NeedsComeFirst == Ordered(Plan) /\ Paired(Plan)
  <1>1. /\ \A i \in Nat : Job(i) \in Object /\ Job(i)[1] = "job"
        /\ {ConfigMap, TestData, Secret, Service, MasterJob, WorkerJob} \subseteq Object
        /\ \A o \in {ConfigMap, TestData, Secret, Service} : o[1] \notin {"pod", "job", "pvc"}
    <2>1. \A i \in Nat : Job(i)[1] = "job"
      BY DEF Job
    <2>2. \A o \in {ConfigMap, TestData, Secret, Service} : o[1] \notin {"pod", "job", "pvc"}
      BY DEF ConfigMap, TestData, Secret, Service
    <2>. QED  BY <2>1, <2>2, ObjectTypes
  <1>2. /\ <<ConfigMap>> \in Seq(Object)
        /\ OnlyIf(HasTestData, TestData) \in Seq(Object)
        /\ OnlyIf(HasEnvVars, Secret) \in Seq(Object)
    BY <1>1, Tuples, OnlyIfIsAPlan, SpecAssumption
  <1>3. ASSUME NEW s \in Seq(Object), NEW t \in Seq(Object),
               Elements(s) \subseteq {ConfigMap, TestData, Secret, Service},
               \A k \in DOMAIN t : t[k][1] = "job" /\ Needs(t[k]) \subseteq Elements(s)
        PROVE  Ordered(s \o t) /\ Paired(s \o t)
    <2>1. Ordered(s) /\ Paired(s)
      BY <1>1, <1>3, NoNeeds
    <2>2. Paired(t)
      BY <1>3, NoClaims
    <2>. QED  BY <1>3, <2>1, <2>2, OrderedConcat
  <1>4. CASE Backend = "Fake"
    <2>1. Plan = <<Job(0)>> /\ DOMAIN <<Job(0)>> = {1} /\ <<Job(0)>>[1] = Job(0)
      BY <1>4 DEF Plan, FakePlan
    <2>2. Needs(Job(0)) = {}
      BY <1>4, NeedsOf DEF JobNeeds
    <2>. QED  BY <1>1, <2>1, <2>2, NoClaims DEF Ordered
  <1>5. CASE Backend = "Ghz"
    <2> DEFINE s == <<ConfigMap>> \o OnlyIf(HasTestData, TestData)
               t == <<Job(0)>>
    <2>1. Plan = s \o t
      BY <1>5 DEF Plan, GhzPlan
    <2>2. s \in Seq(Object) /\ Elements(s) = GhzNeeds
      <3>1. /\ s \in Seq(Object)
            /\ Elements(s) = Elements(<<ConfigMap>>) \cup Elements(OnlyIf(HasTestData, TestData))
        BY <1>2, ConcatProperties, ConcatElements
      <3>. QED  BY <3>1, ShortElements DEF GhzNeeds
    <2>3. t \in Seq(Object) /\ \A k \in DOMAIN t : t[k] = Job(0)
      BY <1>1, Tuples
    <2>4. Needs(Job(0)) = GhzNeeds
      BY <1>5, NeedsOf DEF JobNeeds
    <2>5. GhzNeeds \subseteq {ConfigMap, TestData, Secret, Service}
      BY DEF GhzNeeds, SetIf
    <2> HIDE DEF s, t
    <2>. QED  BY <1>1, <1>3, <2>1, <2>2, <2>3, <2>4, <2>5
  <1>6. CASE Backend = "K6"
    <2> DEFINE e == <<ConfigMap>> \o OnlyIf(HasTestData, TestData)
               s == e \o OnlyIf(HasEnvVars, Secret)
               t == [k \in 1..N |-> Job(k - 1)]
    <2>1. Plan = s \o t
      BY <1>6 DEF Plan, K6Plan
    <2>2. e \in Seq(Object) /\ Elements(e) = {ConfigMap} \cup SetIf(HasTestData, TestData)
      <3>1. /\ e \in Seq(Object)
            /\ Elements(e) = Elements(<<ConfigMap>>) \cup Elements(OnlyIf(HasTestData, TestData))
        BY <1>2, ConcatProperties, ConcatElements
      <3>. QED  BY <3>1, ShortElements
    <2>3. s \in Seq(Object) /\ Elements(s) = K6Needs
      <3> HIDE DEF e
      <3>1. /\ s \in Seq(Object)
            /\ Elements(s) = Elements(e) \cup Elements(OnlyIf(HasEnvVars, Secret))
        BY <1>2, <2>2, ConcatProperties, ConcatElements
      <3>. QED  BY <2>2, <3>1, ShortElements DEF K6Needs
    <2>4. t \in Seq(Object) /\ \A k \in DOMAIN t : k - 1 \in Nat /\ t[k] = Job(k - 1)
      BY K6JobsType, SizeAssumption
    <2>5. \A i \in Nat : Needs(Job(i)) = K6Needs
      BY <1>6, NeedsOf DEF JobNeeds
    <2>6. K6Needs \subseteq {ConfigMap, TestData, Secret, Service}
      BY DEF K6Needs, SetIf
    <2> HIDE DEF e, s, t
    <2>. QED  BY <1>1, <1>3, <2>1, <2>3, <2>4, <2>5, <2>6
  <1>7. CASE Backend = "Locust"
    <2> DEFINE s == <<ConfigMap>> \o OnlyIf(HasEnvVars, Secret)
               t == <<MasterJob, Service, WorkerJob>>
    <2>1. Plan = s \o t
      BY <1>7 DEF Plan, LocustPlan
    <2>2. s \in Seq(Object) /\ Elements(s) = LocustMasterNeeds
      <3>1. /\ s \in Seq(Object)
            /\ Elements(s) = Elements(<<ConfigMap>>) \cup Elements(OnlyIf(HasEnvVars, Secret))
        BY <1>2, ConcatProperties, ConcatElements
      <3>. QED  BY <3>1, ShortElements DEF LocustMasterNeeds
    <2>3. /\ t \in Seq(Object) /\ DOMAIN t = 1..3
          /\ t[1] = MasterJob /\ t[2] = Service /\ t[3] = WorkerJob
      BY <1>1, Tuples
    <2>4. Needs(MasterJob) = LocustMasterNeeds /\ Needs(WorkerJob) = LocustWorkerNeeds
      BY <1>7, NeedsOf DEF JobNeeds, MasterJob, WorkerJob, Job
    <2>5. Needs(Service) = {} /\ LocustWorkerNeeds = LocustMasterNeeds \cup {Service}
      BY <1>1, NeedsOf DEF LocustWorkerNeeds, LocustMasterNeeds
    <2>6. LocustMasterNeeds \subseteq {ConfigMap, TestData, Secret, Service}
      BY DEF LocustMasterNeeds, SetIf
    <2>7. MasterJob[1] = "job" /\ WorkerJob[1] = "job" /\ Service[1] = "service"
      BY DEF MasterJob, WorkerJob, Service, Job
    <2> HIDE DEF s, t
    <2>8. Ordered(s) /\ Paired(s)
      BY <1>1, <2>2, <2>6, NoNeeds
    <2>9. Paired(t)
      BY <2>3, <2>7, NoClaims
    <2>10. \A k \in DOMAIN t :
              Needs(t[k]) \subseteq Elements(s) \cup {t[j] : j \in 1..(k - 1)}
      BY <2>2, <2>3, <2>4, <2>5
    <2>. QED  BY <2>1, <2>2, <2>3, <2>8, <2>9, <2>10, OrderedConcat
  <1>8. CASE Backend = "JMeter"
    <2> DEFINE s == <<ConfigMap, Secret>>
               w == JMeterWorkers
               t == <<Service, Job(0)>>
               e == s \o w
    <2>1. Plan = e \o t
      BY <1>8 DEF Plan, JMeterPlan
    <2>2. s \in Seq(Object) /\ Elements(s) = {ConfigMap, Secret}
      BY <1>1, Tuples, PairElements
    <2>3. /\ t \in Seq(Object) /\ DOMAIN t = 1..2 /\ t[1] = Service /\ t[2] = Job(0)
      BY <1>1, Tuples
    <2>4. Needs(Job(0)) = {ConfigMap, Service} /\ Needs(Service) = {}
      BY <1>1, <1>8, NeedsOf DEF JobNeeds, JMeterMasterNeeds
    <2>5. w \in Seq(Object)
      BY JMeterWorkersType
    <2> HIDE DEF s, t
    <2>6. Ordered(s) /\ Paired(s)
      BY <1>1, <2>2, NoNeeds
    <2>7. /\ Paired(w)
          /\ \A k \in DOMAIN w : Needs(w[k]) \subseteq Elements(s) \cup {w[j] : j \in 1..(k - 1)}
      BY <2>2, WorkersInOrder
    <2> HIDE DEF w
    <2>8. /\ e \in Seq(Object) /\ Elements(e) = Elements(s) \cup Elements(w)
          /\ Ordered(e) /\ Paired(e)
      BY <2>2, <2>5, <2>6, <2>7, ConcatProperties, ConcatElements, OrderedConcat
    <2> HIDE DEF e
    <2>9. Paired(t)
      BY <1>1, <2>3, NoClaims DEF Service
    <2>10. \A k \in DOMAIN t :
              Needs(t[k]) \subseteq Elements(e) \cup {t[j] : j \in 1..(k - 1)}
      BY <2>2, <2>3, <2>4, <2>8
    <2>. QED  BY <2>1, <2>3, <2>8, <2>9, <2>10, OrderedConcat
  <1>. QED  BY <1>4, <1>5, <1>6, <1>7, <1>8, BackendAssumption
=============================================================================
