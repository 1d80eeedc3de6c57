------------------------- MODULE Submission_proofs -------------------------
(***************************************************************************)
(* What holds of every form that becomes a load test, for any number of    *)
(* pods and of lines of test data.                                         *)
(***************************************************************************)
EXTENDS Submission, SequenceTheorems, TLAPS

\* What an image reference may have become before TransformLoadTestSpec.
ImageSent == {NoImage, [image |-> "requested", tag |-> "requested"],
              [image |-> "requested", tag |-> "empty"]}

\* Before TransformLoadTestSpec: parts of images are what the form said, and
\* nothing is packed.
Unfinished ==
  pc \in FormSteps =>
    spec.master \in ImageSent /\ spec.worker \in ImageSent /\ ~spec.data.packed

\* The number of pods is bounded, and test data called csv is CSV.
Validated ==
  /\ spec.pods <= MaxPods
  /\ spec.data.format # "protoset" => spec.data.csv

\* After it: there are pods to deal lines to, images are whole, and the test
\* data is packed for the backend that unpacks it.
Completed ==
  pc \in Accepted =>
    /\ AcceptedIsRunnable /\ ImageIsWhole
    /\ spec.data.packed = (spec.data.format # "none" /\ spec.type = "JMeter")

\* The lines worker i has got while chunk is being filled.
Dealt(i) ==
  IF LinesInChunk > 0
  THEN [k \in 1..(IF i < chunk THEN LinesInChunk ELSE IF i = chunk THEN line ELSE 0)
          |-> i * LinesInChunk + k]
  ELSE IF i \in 1..chunk THEN <<i>> ELSE <<>>

\* The loop of splitTestData.  With fewer lines than workers its first turn
\* leaves worker 0 without any.
Dealing ==
  /\ chunk \in 0..(spec.pods - 1) /\ line \in Nat
  /\ chunks = [i \in 0..(spec.pods - 1) |-> Dealt(i)]
  /\ IF LinesInChunk > 0
     THEN line <= LinesInChunk /\ read = chunk * LinesInChunk + line
     ELSE line = (IF chunk = 0 THEN 0 ELSE 1) /\ read = chunk

Split ==
  /\ pc = "split" => spec.type = "JMeter" /\ Dealing /\ read <= spec.data.lines
  /\ pc \notin {"split", "done"} => chunk = 0 /\ line = 0 /\ read = 0
  /\ SharesAreFair

\* Only what the proxy does not look into is refused, by JMeter's Sync.
Refused == pc = "failed" => spec.data.format = "protoset"

Inv == TypeOK /\ Unfinished /\ Validated /\ Completed /\ Split /\ Refused
-----------------------------------------------------------------------------

\* A spec as the form fills it in, field by field.
Sent == {s \in LoadTestSpec : /\ s.pods <= MaxPods
                              /\ s.data.format # "protoset" => s.data.csv
                              /\ s.master \in ImageSent /\ s.worker \in ImageSent
                              /\ ~s.data.packed}

LEMMA ImagesAreDetails == ImageSent \subseteq ImageDetails /\ DefaultImage \in ImageDetails
  BY DEF ImageSent, ImageDetails, NoImage, DefaultImage, Part

LEMMA EmptyIsSent == EmptySpec \in Sent
  <1>1. NoData \in Data
    BY MaxLinesAssumption DEF NoData, Data
  <1>2. NoImage \in ImageSent /\ NoImage \in ImageDetails
    BY ImagesAreDetails DEF ImageSent
  <1>3. EmptySpec \in LoadTestSpec
    BY <1>1, <1>2 DEF EmptySpec, LoadTestSpec
  <1>. QED  BY <1>2, <1>3, MaxPodsAssumption DEF EmptySpec, Sent, NoData

\* getImage never leaves a tag without its name.
LEMMA ImagesAreSent == Images \subseteq ImageSent
  BY DEF Images, GetImage, ImageSent

LEMMA InvInit == Init => Inv
  <1> SUFFICES ASSUME Init PROVE Inv
    OBVIOUS
  <1>1. spec \in Sent /\ pc = "overwrite" /\ chunk = 0 /\ line = 0 /\ read = 0
    BY EmptyIsSent DEF Init
  <1>2. TypeOK
    BY <1>1, MaxPodsAssumption, MaxLinesAssumption
    DEF Init, TypeOK, FormSteps, Sent
  <1>. QED  BY <1>1, <1>2 DEF Inv, Unfinished, Validated, Completed, Split, Refused,
                              SharesAreFair, SyncSteps, Accepted, Sent

\* What the form has filled in so far.
LEMMA FormIsSent == Inv /\ pc \in FormSteps => spec \in Sent
  BY DEF Inv, TypeOK, Unfinished, Validated, Sent

\* A field has been read: the next one is due, or the form is refused.
LEMMA FieldKeeps ==
  ASSUME Inv, NEW field \in FormSteps \cup {"create"},
         NEW nextField \in FormSteps \cup {"refused"},
         NEW s \in Sent, Accept(field, nextField, s)
  PROVE  Inv'
  <1>1. pc' = nextField /\ nextField \notin Accepted /\ pc \notin {"split", "done"}
    BY DEF Accept, FormSteps, SyncSteps, Accepted
  <1>2. TypeOK'
    BY <1>1 DEF Inv, TypeOK, Accept, splitVars, Sent, SyncSteps, Accepted
  <1>3. Unfinished' /\ Validated'
    BY <1>1 DEF Accept, Unfinished, Validated, Sent
  <1>4. Completed' /\ Split' /\ Refused'
    BY <1>1 DEF Inv, Accept, splitVars, Completed, Split, Refused, SharesAreFair,
                SyncSteps, Accepted
  <1>. QED  BY <1>2, <1>3, <1>4 DEF Inv

LEMMA RefusalKeeps ==
  ASSUME Inv, NEW field \in FormSteps \cup {"create"}, Refuse(field)
  PROVE  Inv'
  BY EmptyIsSent, FieldKeeps DEF Refuse

LEMMA CheckKeeps ==
  ASSUME Inv, NEW field \in FormSteps, NEW nextField \in FormSteps,
         Checked(field, nextField)
  PROVE  Inv'
  <1>1. pc = field
    BY DEF Checked, Refuse, Accept
  <1>. QED  BY <1>1, FormIsSent, RefusalKeeps, FieldKeeps DEF Checked

\* The proxy reads a field.
LEMMA FormKeeps ==
  ASSUME Inv,
         \/ GetOverwrite \/ GetLoadTestType \/ GetDistributedPods \/ GetTags \/ GetTestFile
         \/ GetTestData \/ GetEnvVars \/ GetTargetURL \/ GetDuration \/ GetImages
  PROVE  Inv'
  <1> USE DEF FormSteps
  <1>0. ASSUME pc \in FormSteps PROVE spec \in Sent
    BY <1>0, FormIsSent
  <1>1. CASE GetOverwrite \/ GetTags \/ GetTestFile \/ GetEnvVars \/ GetTargetURL \/ GetDuration
    BY <1>1, CheckKeeps
    DEF GetOverwrite, GetTags, GetTestFile, GetEnvVars, GetTargetURL, GetDuration
  <1>2. CASE GetLoadTestType
    <2>1. ASSUME NEW t \in Registered \cup {"other"},
                 Accept("type", "pods", [spec EXCEPT !.type = t])
          PROVE  Inv'
      <3>1. [spec EXCEPT !.type = t] \in Sent
        BY <1>0, <2>1 DEF Accept, Sent, LoadTestSpec
      <3>. QED  BY <2>1, <3>1, FieldKeeps
    <2>. QED  BY <1>2, <2>1, RefusalKeeps DEF GetLoadTestType
  <1>3. CASE GetDistributedPods
    <2>1. ASSUME NEW n \in -1..MaxPods, Accept("pods", "tags", [spec EXCEPT !.pods = n])
          PROVE  Inv'
      <3>1. [spec EXCEPT !.pods = n] \in Sent
        BY <1>0, <2>1, MaxPodsAssumption DEF Accept, Sent, LoadTestSpec
      <3>. QED  BY <2>1, <3>1, FieldKeeps
    <2>. QED  BY <1>3, <2>1, RefusalKeeps DEF GetDistributedPods
  <1>4. CASE GetTestData
    <2>1. CASE Accept("testData", "envVars", spec)
      BY <1>0, <2>1, FieldKeeps DEF Accept
    <2>2. ASSUME NEW f \in File, DataAccepted(f),
                 Accept("testData", "envVars", [spec EXCEPT !.data = AsData(f)])
          PROVE  Inv'
      <3>1. AsData(f) \in Data /\ ~AsData(f).packed
            /\ (AsData(f).format # "protoset" => AsData(f).csv)
        BY <2>2 DEF DataAccepted, File, AsData, Data
      <3>2. [spec EXCEPT !.data = AsData(f)] \in Sent
        BY <1>0, <2>2, <3>1 DEF Accept, Sent, LoadTestSpec
      <3>. QED  BY <2>2, <3>2, FieldKeeps
    <2>3. CASE Refuse("testData")
      BY <2>3, RefusalKeeps
    <2>. QED  BY <1>4, <2>1, <2>2, <2>3 DEF GetTestData
  <1>5. CASE GetImages
    <2>1. CASE Accept("images", "transform", spec)
      BY <1>0, <2>1, FieldKeeps DEF Accept
    <2>2. ASSUME NEW m \in Images, NEW w \in Images,
                 Accept("images", "transform", [spec EXCEPT !.master = m, !.worker = w])
          PROVE  Inv'
      <3>1. [spec EXCEPT !.master = m, !.worker = w] \in Sent
        BY <1>0, <2>2, ImagesAreSent, ImagesAreDetails DEF Accept, Sent, LoadTestSpec
      <3>. QED  BY <2>2, <3>1, FieldKeeps
    <2>3. CASE Refuse("images")
      BY <2>3, RefusalKeeps
    <2>. QED  BY <1>5, <2>1, <2>2, <2>3 DEF GetImages
  <1>. QED  BY <1>1, <1>2, <1>3, <1>4, <1>5

\* The backend completes what the form left out, and leaves no image in parts.
LEMMA Completes ==
  ASSUME NEW s \in Sent, s.type \in Registered, MinOnePod(s)
  PROVE  LET c == Transformed(s) IN
         /\ c \in LoadTestSpec /\ c.type = s.type /\ c.pods = s.pods
         /\ c.data.format = s.data.format /\ c.data.csv = s.data.csv
         /\ c.data.lines = s.data.lines
         /\ c.data.packed = (s.data.format # "none" /\ s.type = "JMeter")
         /\ \A role \in Roles(s.type) :
              /\ c[role].image # "empty" /\ c[role].tag # "empty"
              /\ c[role].image = c[role].tag
  <1>1. \A d \in ImageSent :
          /\ OrDefault(d) \in ImageDetails
          /\ OrDefault(d).image # "empty" /\ OrDefault(d).tag # "empty"
          /\ OrDefault(d).image = OrDefault(d).tag
    BY ImagesAreDetails DEF ImageSent, OrDefault, DefaultImage, NoImage
  <1> DEFINE m == IF s.type = "Fake" THEN DefaultImage ELSE OrDefault(s.master)
             w == IF s.type = "Fake" THEN NoImage
                  ELSE IF "worker" \in Roles(s.type) THEN OrDefault(s.worker) ELSE s.worker
             p == s.data.format # "none" /\ Packs(s.type)
             c == Transformed(s)
  <1>2. s \in LoadTestSpec /\ s.master \in ImageSent /\ s.worker \in ImageSent
    BY DEF Sent
  <1>3. m \in ImageDetails /\ w \in ImageDetails
    BY <1>1, <1>2, ImagesAreDetails DEF ImageSent
  <1>4. m.image = m.tag /\ m.image # "empty" /\ m.tag # "empty"
    BY <1>1, <1>2 DEF DefaultImage
  <1>5. "worker" \in Roles(s.type) => w.image = w.tag /\ w.image # "empty" /\ w.tag # "empty"
    BY <1>1, <1>2 DEF Roles
  <1>6. c = [s EXCEPT !.master = m, !.worker = w, !.data.packed = p]
    BY DEF Transformed
  <1>7. p \in BOOLEAN /\ p = (s.data.format # "none" /\ s.type = "JMeter")
    BY DEF Packs
  <1> HIDE DEF m, w, p, c
  <1>8. c \in LoadTestSpec /\ c.type = s.type /\ c.pods = s.pods /\ c.master = m /\ c.worker = w
    BY <1>2, <1>3, <1>6, <1>7 DEF LoadTestSpec, Data
  <1>9. c.data = [s.data EXCEPT !.packed = p]
    BY <1>2, <1>6 DEF LoadTestSpec
  <1>10. /\ c.data.format = s.data.format /\ c.data.csv = s.data.csv
         /\ c.data.lines = s.data.lines /\ c.data.packed = p
    BY <1>2, <1>9 DEF LoadTestSpec, Data
  <1>11. \A role \in Roles(s.type) :
           role \in {"master", "worker"} /\ (role = "worker" => "worker" \in Roles(s.type))
    BY DEF Roles
  <1>12. \A role \in Roles(s.type) :
              /\ c[role].image # "empty" /\ c[role].tag # "empty"
              /\ c[role].image = c[role].tag
    BY <1>4, <1>5, <1>8, <1>11
  <1>. QED  BY <1>7, <1>8, <1>10, <1>12 DEF c

\* GetBackend and TransformLoadTestSpec.
LEMMA TransformKeeps == Inv /\ TransformLoadTestSpec => Inv'
  <1> SUFFICES ASSUME Inv, TransformLoadTestSpec PROVE Inv'
    OBVIOUS
  <1>1. CASE ~(spec.type \in Registered /\ MinOnePod(spec))
    BY <1>1, RefusalKeeps DEF TransformLoadTestSpec, FormSteps
  <1>2. CASE spec.type \in Registered /\ MinOnePod(spec)
    <2>1. pc = "transform" /\ pc' = "create" /\ spec' = Transformed(spec)
          /\ UNCHANGED <<customAllowed, chunk, line, read, chunks>>
      BY <1>2 DEF TransformLoadTestSpec, Accept, splitVars
    <2>2. spec \in Sent
      BY <2>1, FormIsSent DEF FormSteps
    <2>3. /\ spec' \in LoadTestSpec /\ spec'.type = spec.type /\ spec'.pods = spec.pods
          /\ spec'.data.format = spec.data.format /\ spec'.data.csv = spec.data.csv
          /\ spec'.data.packed = (spec.data.format # "none" /\ spec.type = "JMeter")
          /\ \A role \in Roles(spec.type) :
               /\ spec'[role].image # "empty" /\ spec'[role].tag # "empty"
               /\ spec'[role].image = spec'[role].tag
      BY <1>2, <2>1, <2>2, Completes
    <2>4. TypeOK'
      BY <2>1, <2>3 DEF Inv, TypeOK, SyncSteps, Accepted
    <2>5. Unfinished' /\ Validated'
      BY <2>1, <2>2, <2>3 DEF Unfinished, Validated, FormSteps, Sent
    <2>6. Completed'
      <3>1. spec.type # "Fake" => spec.pods >= 1
        BY <1>2, <2>2 DEF MinOnePod, Sent, LoadTestSpec
      <3>. QED  BY <1>2, <2>1, <2>3, <3>1
                DEF Completed, AcceptedIsRunnable, ImageIsWhole, SyncSteps, Accepted
    <2>7. Split' /\ Refused'
      BY <2>1 DEF Inv, Split, Refused, SharesAreFair
    <2>. QED  BY <2>4, <2>5, <2>6, <2>7 DEF Inv
  <1>. QED  BY <1>1, <1>2

\* The API server stores the spec as it is, or the request fails.
LEMMA CreateKeeps == Inv /\ CreateLoadTest => Inv'
  <1> SUFFICES ASSUME Inv, CreateLoadTest PROVE Inv'
    OBVIOUS
  <1>1. CASE ~SchemaAllows(spec)
    BY <1>1, RefusalKeeps DEF CreateLoadTest
  <1>2. CASE SchemaAllows(spec)
    <2>1. pc = "create" /\ pc' = "stored" /\ spec.pods >= 1
          /\ UNCHANGED <<customAllowed, spec, chunk, line, read, chunks>>
      BY <1>2 DEF CreateLoadTest, SchemaAllows, Accept, splitVars
    <2>2. TypeOK' /\ Unfinished' /\ Validated'
      BY <2>1 DEF Inv, TypeOK, Unfinished, Validated, FormSteps, SyncSteps, Accepted
    <2>3. Completed'
      BY <2>1 DEF Inv, Completed, AcceptedIsRunnable, ImageIsWhole, SyncSteps, Accepted
    <2>4. Split' /\ Refused'
      BY <2>1 DEF Inv, Split, Refused, SharesAreFair
    <2>. QED  BY <2>2, <2>3, <2>4 DEF Inv
  <1>. QED  BY <1>1, <1>2

-----------------------------------------------------------------------------

\* Lines are dealt out in whole shares; fewer are left over than there are
\* workers.
LEMMA Shares ==
  ASSUME NEW n \in Nat, NEW p \in Nat, p >= 1
  PROVE  n \div p \in Nat /\ p * (n \div p) <= n /\ n < p * (n \div p) + p
  OBVIOUS

\* A worker's share ends before that of any later one.
LEMMA SharesAreInOrder ==
  ASSUME NEW q \in Nat, NEW i \in Nat, NEW j \in Nat, i < j
  PROVE  i * q + q <= j * q
  <1> DEFINE d == j - i - 1
  <1>1. d \in Nat /\ j = i + 1 + d
    OBVIOUS
  <1> HIDE DEF d
  <1>2. j * q = i * q + q + d * q
    BY <1>1
  <1>3. d * q \in Nat
    BY <1>1
  <1>. QED  BY <1>2, <1>3

\* A share grows by the line that follows its last one.
LEMMA OneMoreLine ==
  ASSUME NEW b \in Nat, NEW m \in Nat
  PROVE  Append([k \in 1..m |-> b + k], b + m + 1) = [k \in 1..(m + 1) |-> b + k]
  <1> DEFINE s == [k \in 1..m |-> b + k]
             t == [k \in 1..(m + 1) |-> b + k]
  <1>1. s \in Seq(Nat) /\ Len(s) = m
    OBVIOUS
  <1>2. t \in Seq(Nat) /\ Len(t) = m + 1
    OBVIOUS
  <1>3. /\ Append(s, b + m + 1) \in Seq(Nat) /\ Len(Append(s, b + m + 1)) = m + 1
        /\ \A k \in 1..m : Append(s, b + m + 1)[k] = s[k]
        /\ Append(s, b + m + 1)[m + 1] = b + m + 1
    BY <1>1
  <1>4. \A k \in 1..(m + 1) : Append(s, b + m + 1)[k] = t[k]
    BY <1>3
  <1>. QED  BY <1>2, <1>3, <1>4, SeqEqual

\* While lines are dealt out: how many lines and workers there are.
LEMMA Numbers ==
  ASSUME Inv, pc = "split"
  PROVE  /\ spec \in LoadTestSpec /\ spec.type = "JMeter"
         /\ spec.data.lines \in 0..MaxLines /\ spec.data.lines \in Nat
         /\ spec.pods \in 1..MaxPods /\ spec.pods \in Nat
         /\ chunk \in 0..(spec.pods - 1) /\ chunk \in Nat
         /\ line \in Nat /\ read \in 0..spec.data.lines
         /\ LinesInChunk \in Nat
         /\ spec.pods * LinesInChunk <= spec.data.lines
         /\ spec.data.lines < spec.pods * LinesInChunk + spec.pods
  <1>1. /\ spec \in LoadTestSpec /\ spec.type = "JMeter"
        /\ spec.data.lines \in 0..MaxLines /\ spec.pods \in Int
    BY DEF Inv, TypeOK, Split, LoadTestSpec, Data
  <1>2. spec.pods \in 1..MaxPods /\ chunk \in 0..(spec.pods - 1) /\ line \in Nat
        /\ read \in 0..spec.data.lines
    BY <1>1, MaxPodsAssumption
    DEF Inv, TypeOK, Completed, AcceptedIsRunnable, Validated, Split, Dealing,
        SyncSteps, Accepted
  <1>3. spec.data.lines \in Nat /\ spec.pods \in Nat /\ spec.pods >= 1
    BY <1>1, <1>2, MaxLinesAssumption, MaxPodsAssumption
  <1>4. /\ LinesInChunk \in Nat
        /\ spec.pods * LinesInChunk <= spec.data.lines
        /\ spec.data.lines < spec.pods * LinesInChunk + spec.pods
    BY <1>3, Shares DEF LinesInChunk
  <1>. QED  BY <1>1, <1>2, <1>3, <1>4

\* NewTestdataConfigMap: a CSV file is unpacked and its lines are counted.
LEMMA CountKeeps == Inv /\ CountLines => Inv'
  <1> SUFFICES ASSUME Inv, CountLines PROVE Inv'
    OBVIOUS
  <1>1. /\ pc = "stored" /\ spec.type = "JMeter" /\ chunk = 0 /\ line = 0 /\ read = 0
        /\ UNCHANGED <<customAllowed, spec, chunk, line, read>>
    BY DEF CountLines, Inv, Split
  <1>2. spec \in LoadTestSpec /\ spec.pods \in Nat /\ spec.pods >= 1
        /\ spec.data.lines \in Nat
    BY <1>1, MaxPodsAssumption, MaxLinesAssumption
    DEF Inv, TypeOK, LoadTestSpec, Data, Completed, AcceptedIsRunnable, Validated,
        SyncSteps, Accepted
  <1>3. Unfinished' /\ Validated' /\ (pc' \in SyncSteps => Completed')
    BY <1>1 DEF Inv, CountLines, Unfinished, Validated, Completed, AcceptedIsRunnable,
                ImageIsWhole, SyncSteps, Accepted, FormSteps
  <1>4. CASE Readable(spec.data)
    <2>1. pc' = "split" /\ chunks' = [i \in 0..(spec.pods - 1) |-> <<>>]
      BY <1>4 DEF CountLines
    <2>2. TypeOK'
      <3>1. chunks' \in [0..(spec.pods - 1) -> Seq(1..spec.data.lines)]
        BY <2>1
      <3>. QED  BY <1>1, <1>2, <2>1, <3>1 DEF Inv, TypeOK, SyncSteps, Accepted
    <2>3. Split'
      <3>1. \A i \in 0..(spec.pods - 1) : Dealt(i)' = <<>>
        BY <1>1 DEF Dealt, LinesInChunk
      <3>2. LinesInChunk \in Nat
        BY <1>2, Shares DEF LinesInChunk
      <3>3. Dealing'
        BY <1>1, <1>2, <2>1, <3>1, <3>2 DEF Dealing, LinesInChunk
      <3>. QED  BY <1>1, <1>2, <2>1, <3>3 DEF Split, SharesAreFair
    <2>. QED  BY <1>3, <2>1, <2>2, <2>3 DEF Inv, Refused, SyncSteps, Accepted
  <1>5. CASE ~Readable(spec.data)
    <2>1. pc' = "failed" /\ chunks' = chunks
      BY <1>5 DEF CountLines
    <2>2. spec.data.format = "protoset"
      BY <1>1, <1>5, <1>2
      DEF Inv, Readable, Completed, Validated, SyncSteps, Accepted, LoadTestSpec, Data
    <2>3. TypeOK'
      BY <1>1, <2>1 DEF Inv, TypeOK, SyncSteps, Accepted
    <2>4. Split' /\ Refused'
      BY <1>1, <2>1, <2>2 DEF Split, SharesAreFair, Refused
    <2>. QED  BY <1>3, <2>1, <2>3, <2>4 DEF Inv, SyncSteps, Accepted
  <1>. QED  BY <1>4, <1>5

\* All lines that fit have been dealt out.
LEMMA AllDealt ==
  ASSUME Inv, pc = "split",
         \/ read = spec.data.lines
         \/ LinesInChunk > 0 /\ line = LinesInChunk /\ chunk = spec.pods - 1
  PROVE  chunks = [i \in 0..(spec.pods - 1) |-> Share(i)]
  <1> DEFINE q == LinesInChunk
             n == spec.data.lines
             p == spec.pods
  <1>1. /\ p \in Nat /\ p >= 1 /\ n \in Nat /\ q \in Nat /\ chunk \in 0..(p - 1)
        /\ chunk \in Nat /\ line \in Nat /\ p * q <= n /\ n < p * q + p
    BY Numbers
  <1>2. /\ chunks = [i \in 0..(p - 1) |-> Dealt(i)]
        /\ IF q > 0 THEN line <= q /\ read = chunk * q + line
           ELSE line = (IF chunk = 0 THEN 0 ELSE 1) /\ read = chunk
    BY DEF Inv, Split, Dealing
  <1>3. CASE q > 0
    <2>1. chunk = p - 1 /\ line = q
      <3>1. CASE read = n
        <4>1. ~(chunk < p - 1)
          <5> SUFFICES ASSUME chunk < p - 1 PROVE FALSE
            OBVIOUS
          <5>1. chunk * q + q <= (p - 1) * q
            BY <1>1, SharesAreInOrder
          <5>2. (p - 1) * q = p * q - q /\ chunk * q \in Nat /\ p * q \in Nat
            BY <1>1
          <5> HIDE DEF q, n, p
          <5>. QED  BY <1>1, <1>2, <1>3, <3>1, <5>1, <5>2
        <4>2. (p - 1) * q = p * q - q /\ p * q \in Nat
          BY <1>1
        <4> HIDE DEF q, n, p
        <4>. QED  BY <1>1, <1>2, <1>3, <3>1, <4>1, <4>2
      <3>. QED  BY <1>3, <3>1
    <2>2. \A i \in 0..(p - 1) : Dealt(i) = Share(i)
      BY <1>1, <1>3, <2>1 DEF Dealt, Share
    <2>. QED  BY <1>2, <2>2
  <1>4. CASE q = 0
    <2>1. \A i \in 0..(p - 1) : Dealt(i) = Share(i)
      BY <1>2, <1>4 DEF Dealt, Share
    <2>. QED  BY <1>2, <2>1
  <1>. QED  BY <1>1, <1>3, <1>4

\* The split is over.
LEMMA EndOfSplit ==
  ASSUME Inv, pc = "split", pc' = "done", UNCHANGED <<customAllowed, spec, splitVars>>,
         \/ read = spec.data.lines
         \/ LinesInChunk > 0 /\ line = LinesInChunk /\ chunk = spec.pods - 1
  PROVE  Inv'
  <1>1. chunks = [i \in 0..(spec.pods - 1) |-> Share(i)]
    BY AllDealt
  <1>2. SharesAreFair'
    BY <1>1 DEF SharesAreFair, Share, LinesInChunk, splitVars
  <1>3. TypeOK'
    BY DEF Inv, TypeOK, splitVars, SyncSteps, Accepted
  <1>4. (Unfinished /\ Validated /\ Completed)'
    BY DEF Inv, Unfinished, Validated, Completed, AcceptedIsRunnable, ImageIsWhole,
           FormSteps, SyncSteps, Accepted
  <1>. QED  BY <1>2, <1>3, <1>4 DEF Inv, Split, Refused

\* A line goes to chunk c, the one being filled or the next one.
LEMMA LineKeeps ==
  ASSUME Inv, pc = "split", read < spec.data.lines,
         NEW c, c = IF Full THEN chunk + 1 ELSE chunk, c < spec.pods,
         chunks' = [chunks EXCEPT ![c] = Append(@, read + 1)],
         chunk' = c, line' = (IF Full THEN 0 ELSE line) + 1, read' = read + 1,
         UNCHANGED <<pc, customAllowed, spec>>
  PROVE  Inv'
  <1> DEFINE q == LinesInChunk
             n == spec.data.lines
             p == spec.pods
  <1>1. /\ p \in 1..MaxPods /\ p \in Nat /\ n \in Nat /\ n \in 0..MaxLines /\ q \in Nat
        /\ chunk \in 0..(p - 1) /\ chunk \in Nat /\ line \in Nat /\ read \in 0..n
        /\ c \in 0..(p - 1) /\ c \in Nat
    BY Numbers
  <1>2. /\ chunks = [i \in 0..(p - 1) |-> Dealt(i)]
        /\ IF q > 0 THEN line <= q /\ read = chunk * q + line
           ELSE line = (IF chunk = 0 THEN 0 ELSE 1) /\ read = chunk
    BY DEF Inv, Split, Dealing
  <1>3. /\ q' = q /\ read' \in 1..n /\ read' \in Nat
    BY <1>1 DEF LinesInChunk
  <1>4. IF q > 0 THEN line' \in 1..q /\ read' = c * q + line' /\ c * q \in Nat
        ELSE line' = 1 /\ read' = c /\ c >= 1
    <2>1. CASE q > 0 /\ Full
      <3>1. line = q /\ c = chunk + 1 /\ line' = 1 /\ read = chunk * q + line
        BY <1>1, <1>2, <2>1 DEF Full
      <3> DEFINE b == chunk * q
      <3> HIDE DEF q
      <3>2. c * q = b + q /\ b \in Nat
        BY <1>1, <3>1
      <3> HIDE DEF b
      <3>3. read = b + line
        BY <3>1 DEF b
      <3>. QED  BY <1>1, <2>1, <3>1, <3>2, <3>3
    <2>2. CASE q > 0 /\ ~Full
      <3>1. line < q /\ c = chunk /\ line' = line + 1 /\ read = c * q + line
        BY <1>1, <1>2, <2>2 DEF Full
      <3> HIDE DEF q
      <3>2. c * q \in Nat
        BY <1>1
      <3>. QED  BY <1>1, <2>2, <3>1, <3>2
    <2>3. CASE q = 0
      BY <1>1, <1>2, <2>3 DEF Full
    <2>. QED  BY <1>1, <2>1, <2>2, <2>3
  <1>5. Append(Dealt(c), read + 1) = Dealt(c)'
    <2>1. CASE q > 0
      <3>1. Dealt(c) = [k \in 1..(line' - 1) |-> c * q + k]
        BY <1>1, <1>2, <2>1 DEF Dealt, Full
      <3>2. Dealt(c)' = [k \in 1..line' |-> c * q + k]
        BY <1>1, <1>3, <2>1 DEF Dealt
      <3>3. read + 1 = c * q + (line' - 1) + 1 /\ line' - 1 \in Nat /\ c * q \in Nat
            /\ (line' - 1) + 1 = line'
        BY <1>1, <1>4, <2>1
      <3> DEFINE b == c * q
                 m == line' - 1
      <3>4. b \in Nat /\ m \in Nat
        BY <3>3
      <3> HIDE DEF b, m
      <3>5. Append([k \in 1..m |-> b + k], b + m + 1) = [k \in 1..(m + 1) |-> b + k]
        BY <3>4, OneMoreLine
      <3>. QED  BY <3>1, <3>2, <3>3, <3>5 DEF b, m
    <2>2. CASE q = 0
      <3>1. Dealt(c) = <<>> /\ Dealt(c)' = <<c>> /\ read + 1 = c
        BY <1>1, <1>2, <1>3, <1>4, <2>2 DEF Dealt, Full
      <3>2. Append(<<>>, c) = <<c>>
        OBVIOUS
      <3>. QED  BY <3>1, <3>2
    <2>. QED  BY <1>1, <2>1, <2>2
  <1>6. \A i \in 0..(p - 1) : i # c => Dealt(i)' = Dealt(i)
    BY <1>1, <1>2, <1>3 DEF Dealt, Full
  <1>7. chunks' = [i \in 0..(p - 1) |-> Dealt(i)']
    BY <1>1, <1>2, <1>5, <1>6
  <1>8. Dealing'
    <2>1. chunk' \in 0..(spec'.pods - 1) /\ line' \in Nat
      BY <1>1, <1>4
    <2>2. chunks' = [i \in 0..(spec'.pods - 1) |-> Dealt(i)']
      BY <1>7
    <2>3. IF LinesInChunk' > 0
          THEN line' <= LinesInChunk' /\ read' = chunk' * LinesInChunk' + line'
          ELSE line' = (IF chunk' = 0 THEN 0 ELSE 1) /\ read' = chunk'
      <3>1. CASE q > 0
        BY <1>1, <1>3, <1>4, <3>1
      <3>2. CASE q = 0
        BY <1>1, <1>3, <1>4, <3>2
      <3>. QED  BY <1>1, <3>1, <3>2
    <2>. QED  BY <2>1, <2>2, <2>3 DEF Dealing
  <1>9. TypeOK'
    <2>1. chunks' \in [0..(p - 1) -> Seq(1..n)]
      <3>1. chunks \in [0..(p - 1) -> Seq(1..n)]
        BY DEF Inv, TypeOK
      <3>2. Append(chunks[c], read + 1) \in Seq(1..n)
        BY <1>1, <1>3, <3>1, AppendProperties
      <3>. QED  BY <3>1, <3>2
    <2>2. line' <= read' /\ read' <= n /\ c < p
      BY <1>1, <1>3, <1>4
    <2>3. chunk' \in 0..MaxPods /\ line' \in 0..MaxLines /\ read' \in 0..MaxLines
      BY <1>1, <1>3, <1>4, <2>2, MaxPodsAssumption, MaxLinesAssumption
    <2>. QED  BY <2>1, <2>2, <2>3 DEF Inv, TypeOK
  <1>10. (Unfinished /\ Validated /\ Completed)'
    BY DEF Inv, Unfinished, Validated, Completed, AcceptedIsRunnable, ImageIsWhole,
           FormSteps, SyncSteps, Accepted
  <1>11. Split' /\ Refused'
    BY <1>1, <1>3, <1>8 DEF Inv, Split, Refused, SharesAreFair
  <1>. QED  BY <1>9, <1>10, <1>11 DEF Inv

\* splitTestData reads a line, or drops it when all chunks are full.
LEMMA SplitKeeps == Inv /\ SplitLine => Inv'
  <1> SUFFICES ASSUME Inv, SplitLine PROVE Inv'
    OBVIOUS
  <1> DEFINE c == IF Full THEN chunk + 1 ELSE chunk
  <1>1. pc = "split" /\ read < spec.data.lines /\ UNCHANGED <<customAllowed, spec>>
    BY DEF SplitLine
  <1>2. CASE OutOfChunks(c)
    <2>1. pc' = "done" /\ UNCHANGED splitVars
      BY <1>2 DEF SplitLine
    <2>2. LinesInChunk > 0 /\ line = LinesInChunk /\ chunk = spec.pods - 1
      <3>1. LinesInChunk = 0 => line = (IF chunk = 0 THEN 0 ELSE 1) /\ read = chunk
            /\ spec.data.lines < spec.pods
        BY <1>1, Numbers DEF Inv, Split, Dealing
      <3>2. LinesInChunk > 0 => line <= LinesInChunk
        BY <1>1, Numbers DEF Inv, Split, Dealing
      <3>. QED  BY <1>1, <1>2, <3>1, <3>2, Numbers DEF Full, OutOfChunks
    <2>. QED  BY <1>1, <2>1, <2>2, EndOfSplit
  <1>3. CASE ~OutOfChunks(c)
    <2>1. /\ chunks' = [chunks EXCEPT ![c] = Append(@, read + 1)]
          /\ chunk' = c /\ line' = (IF Full THEN 0 ELSE line) + 1 /\ read' = read + 1
          /\ UNCHANGED pc
      BY <1>3 DEF SplitLine
    <2>2. c < spec.pods
      BY <1>1, <1>3, Numbers DEF OutOfChunks
    <2> HIDE DEF c
    <2>3. c = IF Full THEN chunk + 1 ELSE chunk
      BY DEF c
    <2>. QED  BY <1>1, <2>1, <2>2, <2>3, LineKeeps
  <1>. QED  BY <1>2, <1>3

LEMMA InvNext == Inv /\ [Next]_vars => Inv'
  <1> SUFFICES ASSUME Inv, [Next]_vars PROVE Inv'
    OBVIOUS
  <1>1. CASE MountData
    <2>1. pc = "stored" /\ spec.type # "JMeter" /\ pc' = "done"
          /\ UNCHANGED <<customAllowed, spec, chunk, line, read, chunks>>
      BY <1>1 DEF MountData, splitVars
    <2>. QED  BY <2>1 DEF Inv, TypeOK, Unfinished, Validated, Completed, AcceptedIsRunnable,
                          ImageIsWhole, Split, SharesAreFair, Refused,
                          FormSteps, SyncSteps, Accepted
  <1>2. CASE SplitEnds
    BY <1>2, EndOfSplit DEF SplitEnds
  <1>3. CASE UNCHANGED vars
    BY <1>3 DEF vars, splitVars, Inv, TypeOK, Unfinished, Validated, Completed,
                AcceptedIsRunnable, ImageIsWhole, Split, Dealing, Dealt, Share, LinesInChunk,
                SharesAreFair, Refused
  <1>. QED  BY <1>1, <1>2, <1>3, FormKeeps, TransformKeeps, CreateKeeps, CountKeeps,
            SplitKeeps DEF Next

LEMMA InvCorrect == Spec => []Inv
  <1>. QED  BY InvInit, InvNext, PTL DEF Spec

\* Every value of a form being read or dealt out is of its type, and the
\* loop of splitTestData stays within its chunks and its data.
THEOREM TypeCorrect == Spec => []TypeOK
  <1>1. Inv => TypeOK
    BY DEF Inv
  <1>. QED  BY <1>1, InvCorrect, PTL

\* What the controller relies on holds of every spec that TransformLoadTestSpec
\* takes, whatever the form was: whichever fields it had, and in whichever
\* state they were.  A stored one has a pod whatever its type.
THEOREM StoredIsRunnable == Spec => []AcceptedIsRunnable
  <1>1. Inv => AcceptedIsRunnable
    BY DEF Inv, Completed, AcceptedIsRunnable, Accepted
  <1>. QED  BY <1>1, InvCorrect, PTL

\* The image a pod is given never mixes a requested name with the default tag.
THEOREM StoredImageIsWhole == Spec => []ImageIsWhole
  <1>1. Inv => ImageIsWhole
    BY DEF Inv, Completed, ImageIsWhole
  <1>. QED  BY <1>1, InvCorrect, PTL

\* What the proxy has stored as CSV the controller can read, and the pods
\* that get the whole of it get it as it was sent.
THEOREM StoredIsReadable == Spec => []AcceptedIsReadable
  <1>1. ASSUME Inv, pc = "done", spec.type \in {"Ghz", "K6"}
        PROVE  ~spec.data.packed
    BY <1>1 DEF Inv, TypeOK, Completed, SyncSteps, Accepted, LoadTestSpec, Data
  <1>2. Inv => AcceptedIsReadable
    BY <1>1 DEF Inv, Refused, AcceptedIsReadable
  <1>. QED  BY <1>2, InvCorrect, PTL

\* splitTestData deals out consecutive and disjoint shares for every number of
\* lines and of workers: equal ones, but for a remainder that is dropped, when
\* there are at least as many lines as workers, and otherwise one line each to
\* as many workers as there are lines, beginning with the second one.
THEOREM SplitIsFair == Spec => []SharesAreFair
  <1>1. Inv => SharesAreFair
    BY DEF Inv, Split
  <1>. QED  BY <1>1, InvCorrect, PTL

\* The bounds of k6's --execution-segment-sequence, by position.
LEMMA SequenceBounds ==
  ASSUME NEW t \in Nat, t > 1, NEW k \in 1..(t + 1)
  PROVE  SequenceArgs(t)[k] = IF k = 1 THEN Zero ELSE IF k = t + 1 THEN One ELSE <<k - 1, t>>
  <1> DEFINE mid == [i \in 1..(t - 1) |-> <<i, t>>]
             S   == Nat \X Nat
  <1>1. mid \in Seq(S) /\ Len(mid) = t - 1
    OBVIOUS
  <1>2. <<Zero>> \in Seq(S) /\ Len(<<Zero>>) = 1 /\ <<Zero>>[1] = Zero
        /\ <<One>> \in Seq(S) /\ Len(<<One>>) = 1 /\ <<One>>[1] = One
    BY DEF Zero, One
  <1> DEFINE front == <<Zero>> \o mid
  <1>3. /\ front \in Seq(S) /\ Len(front) = t
        /\ front[1] = Zero /\ \A j \in 2..t : front[j] = mid[j - 1]
    BY <1>1, <1>2, ConcatProperties
  <1> HIDE DEF S
  <1>4. \A j \in 2..t : mid[j - 1] = <<j - 1, t>>
    OBVIOUS
  <1> HIDE DEF mid, front
  <1>5. /\ Len(front \o <<One>>) = t + 1
        /\ \A j \in 1..t : (front \o <<One>>)[j] = front[j]
        /\ (front \o <<One>>)[t + 1] = One
    BY <1>2, <1>3, ConcatProperties
  <1>6. SequenceArgs(t) = front \o <<One>>
    BY DEF SequenceArgs, front, mid
  <1>7. CASE k = 1
    BY <1>3, <1>5, <1>6, <1>7
  <1>8. CASE k = t + 1
    BY <1>5, <1>6, <1>8
  <1>9. CASE k \in 2..t
    <2>1. (front \o <<One>>)[k] = mid[k - 1]
      BY <1>3, <1>5, <1>9
    <2>2. mid[k - 1] = <<k - 1, t>> /\ k # 1 /\ k # t + 1
      BY <1>4, <1>9
    <2>. QED  BY <1>6, <2>1, <2>2
  <1>. QED  BY <1>7, <1>8, <1>9

\* The segments of k6's jobs adjoin and are spelled as in the sequence, for
\* every number of jobs.
THEOREM SegmentsAdjoin == Spec => []SegmentsMeet
  <1>1. ASSUME NEW t \in Nat, t > 1, NEW i \in 0..(t - 1)
        PROVE  SegmentArgs(i, t) = <<SequenceArgs(t)[i + 1], SequenceArgs(t)[i + 2]>>
    BY <1>1, SequenceBounds DEF SegmentArgs
  <1>2. TypeOK => spec.pods \in Int
    BY DEF TypeOK, LoadTestSpec
  <1>3. TypeOK => SegmentsMeet
    BY <1>1, <1>2 DEF SegmentsMeet
  <1>. QED  BY <1>3, TypeCorrect, PTL
=============================================================================
