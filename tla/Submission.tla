----------------------------- MODULE Submission -----------------------------
(***************************************************************************)
(* One POST /load-test form on its way to the worker pods: the proxy reads *)
(* it field by field, the backend of its type validates and completes the  *)
(* spec, the LoadTest is stored, and the controller deals its test data    *)
(* out to the workers.  Two programs each do half of the validation that   *)
(* the other half of the way relies on.                                    *)
(*                                                                         *)
(* A field is read when its turn comes, so its value is chosen there.  Of  *)
(* overwrite, tags, the files' content, the target URL and the duration    *)
(* only acceptance matters here.  Lines of test data are numbered from 1.  *)
(***************************************************************************)
EXTENDS Integers, Sequences, FiniteSets

CONSTANTS
  MaxPods,    \* largest distributedPods
  MaxLines    \* largest number of lines in the test data

ASSUME MaxPodsAssumption  == MaxPods \in Nat
ASSUME MaxLinesAssumption == MaxLines \in Nat

VARIABLES
  pc,             \* the field or step that is due
  customAllowed,  \* --allowed-custom-images
  spec,           \* the LoadTestSpec so far
  chunk,          \* splitTestData: the chunk being filled
  line,           \* lines put into it
  read,           \* lines read so far
  chunks          \* the lines of each chunk

splitVars == <<chunk, line, read, chunks>>
vars == <<pc, customAllowed, spec, splitVars>>

\* The backends that register themselves.
Registered == {"Fake", "Ghz", "K6", "Locust", "JMeter"}

\* ImageDetails: each part is empty, what the form asked for, or the
\* backend's default.
Part == {"empty", "requested", "default"}
ImageDetails == [image: Part, tag: Part]
NoImage      == [image |-> "empty", tag |-> "empty"]
DefaultImage == [image |-> "default", tag |-> "default"]

\* Test data as stored: the format it was sent in, whether it reads as CSV
\* and with how many lines, and whether it is gzipped.
Data   == [format: {"none", "csv", "protoset"}, csv: BOOLEAN, lines: 0..MaxLines,
           packed: BOOLEAN]
NoData == [format |-> "none", csv |-> TRUE, lines |-> 0, packed |-> FALSE]

LoadTestSpec == [type: Registered \cup {"other"}, pods: Int, data: Data,
                 master: ImageDetails, worker: ImageDetails]

EmptySpec == [type |-> "other", pods |-> 0, data |-> NoData,
              master |-> NoImage, worker |-> NoImage]

FormSteps == {"overwrite", "type", "pods", "tags", "testFile", "testData", "envVars",
              "targetURL", "duration", "images", "transform"}
SyncSteps == {"stored", "split", "done", "failed"}

\* The steps after TransformLoadTestSpec has taken the spec.
Accepted == {"create"} \cup SyncSteps

TypeOK ==
  /\ pc \in FormSteps \cup Accepted \cup {"refused"}
  /\ customAllowed \in BOOLEAN
  /\ spec \in LoadTestSpec
  /\ chunk \in 0..MaxPods /\ line \in 0..MaxLines /\ read \in 0..MaxLines
  /\ pc = "split" => /\ chunk < spec.pods /\ line <= read /\ read <= spec.data.lines
                     /\ chunks \in [0..(spec.pods - 1) -> Seq(1..spec.data.lines)]

Init ==
  /\ pc = "overwrite" /\ customAllowed \in BOOLEAN
  /\ spec = EmptySpec
  /\ chunk = 0 /\ line = 0 /\ read = 0 /\ chunks = <<>>
-----------------------------------------------------------------------------
(***************************************************************************)
(* The proxy: fromHTTPRequestToLoadTestSpec.                               *)
(***************************************************************************)

Accept(field, nextField, s) ==
  /\ pc = field /\ pc' = nextField /\ spec' = s
  /\ UNCHANGED <<customAllowed, splitVars>>

Refuse(field) == Accept(field, "refused", EmptySpec)

\* A field of which only acceptance matters.
Checked(field, nextField) == Accept(field, nextField, spec) \/ Refuse(field)

\* Absent, or what ParseBool understands.
GetOverwrite == Checked("overwrite", "type")

\* Any name of a type will do; an empty one is refused.
GetLoadTestType ==
  \/ \E t \in Registered \cup {"other"} : Accept("type", "pods", [spec EXCEPT !.type = t])
  \/ Refuse("type")

\* Any integer of 32 bits, zero and negative ones included.
GetDistributedPods ==
  \/ \E n \in -1..MaxPods : Accept("pods", "tags", [spec EXCEPT !.pods = n])
  \/ Refuse("pods")

\* Labels and values must not be empty, values not longer than 63.
GetTags == Checked("tags", "testFile")

\* Required, not empty, of a known format.
GetTestFile == Checked("testFile", "testData")

File == [format: {"csv", "protoset", "other"}, empty: BOOLEAN, csv: BOOLEAN,
         lines: 0..MaxLines]

\* Mutant: the lines of a CSV file are not checked.
DataAccepted_Unchecked(f) == ~f.empty /\ f.format # "other"

\* Only files called csv are checked to be CSV.
DataAccepted(f) == ~f.empty /\ f.format # "other" /\ (f.format = "csv" => f.csv)

AsData(f) == [format |-> f.format, csv |-> f.csv, lines |-> f.lines, packed |-> FALSE]

GetTestData ==
  \/ Accept("testData", "envVars", spec)
  \/ \E f \in File :
       IF DataAccepted(f) THEN Accept("testData", "envVars", [spec EXCEPT !.data = AsData(f)])
       ELSE Refuse("testData")

\* Absent, or a CSV file with two columns.
GetEnvVars == Checked("envVars", "targetURL")

\* Absent, or a URL with scheme and host.
GetTargetURL == Checked("targetURL", "duration")

GetDuration == Checked("duration", "images")

(***************************************************************************)
(* An image reference [host[:port]/][path/]name[:tag], by its separators.  *)
(***************************************************************************)
Reference == {r \in [port: BOOLEAN, slashes: 0..3, tag: BOOLEAN] : r.port => r.slashes > 0}

Separators(r) ==
  (IF r.port THEN <<":">> ELSE <<>>) \o [k \in 1..r.slashes |-> "/"]
    \o (IF r.tag THEN <<":">> ELSE <<>>)

\* dockerImageRegexp: a colon somewhere.
WellFormed(r) == r.port \/ r.tag

\* The separators for which getImage cuts off a tag, and those for which it
\* takes the whole as the name.  Any other reference becomes no image.
WithTag    == {<<":">>, <<"/", ":">>, <<"/", "/", ":">>, <<":", "/", "/", ":">>}
WithoutTag == {<<>>, <<"/">>, <<":", "/", "/">>}

GetImage(r) ==
  LET s == Separators(r) IN
  IF s \in WithTag THEN [image |-> "requested", tag |-> "requested"]
  ELSE IF s \in WithoutTag THEN [image |-> "requested", tag |-> "empty"]
  ELSE NoImage

\* What one of the fields masterImage and workerImage may become.
Images == {NoImage} \cup {GetImage(r) : r \in {s \in Reference : WellFormed(s)}}

GetImages ==
  \/ /\ customAllowed
     /\ \/ \E m \in Images, w \in Images :
             Accept("images", "transform", [spec EXCEPT !.master = m, !.worker = w])
        \/ Refuse("images")
  \/ ~customAllowed /\ Accept("images", "transform", spec)
-----------------------------------------------------------------------------
(***************************************************************************)
(* GetBackend, and TransformLoadTestSpec of the backend.                   *)
(***************************************************************************)

\* Mutant: the number of pods may be zero.
MinOnePod_Zero(s) == s.type # "Fake" => s.pods >= 0

\* Every backend but Fake requires at least one pod.
MinOnePod(s) == s.type # "Fake" => s.pods > 0

\* Mutant: each missing part gets its own default.
OrDefault_ByPart(d) ==
  [image |-> IF d.image = "empty" THEN "default" ELSE d.image,
   tag   |-> IF d.tag = "empty" THEN "default" ELSE d.tag]

\* If one part is missing, both become the default.
OrDefault(d) == IF d.image = "empty" \/ d.tag = "empty" THEN DefaultImage ELSE d

\* generateBase64: JMeter alone gzips its test data.
Packs(type) == type = "JMeter"

\* The roles whose image the backend uses.
Roles(type) == IF type \in {"Locust", "JMeter"} THEN {"master", "worker"} ELSE {"master"}

Transformed(s) ==
  [s EXCEPT !.master = IF s.type = "Fake" THEN DefaultImage ELSE OrDefault(s.master),
            !.worker = IF s.type = "Fake" THEN NoImage
                       ELSE IF "worker" \in Roles(s.type) THEN OrDefault(s.worker)
                       ELSE s.worker,
            !.data.packed = s.data.format # "none" /\ Packs(s.type)]

\* GetBackend knows the type, and its backend takes the spec.
TransformLoadTestSpec ==
  IF spec.type \in Registered /\ MinOnePod(spec)
  THEN Accept("transform", "create", Transformed(spec))
  ELSE Refuse("transform")

\* The schema of the CRD, for every backend: at least one pod.
SchemaAllows(s) == s.type \in Registered /\ s.pods >= 1

\* The API server stores the LoadTest.  What else may make Create refuse or
\* fail before it gets here is module Proxy.
CreateLoadTest ==
  IF SchemaAllows(spec) THEN Accept("create", "stored", spec) ELSE Refuse("create")
-----------------------------------------------------------------------------
(***************************************************************************)
(* The controller: what Sync makes of the test data.                       *)
(***************************************************************************)

\* Ghz and K6 mount the test data in every pod; Fake and Locust ignore it.
MountData ==
  /\ pc = "stored" /\ spec.type # "JMeter" /\ pc' = "done"
  /\ UNCHANGED <<customAllowed, spec, splitVars>>

\* NewTestdataConfigMap unpacks the data, and splitTestData counts its lines.
Readable(d) == d.format # "none" => d.packed /\ d.csv

CountLines ==
  /\ pc = "stored" /\ spec.type = "JMeter"
  /\ IF Readable(spec.data)
     THEN pc' = "split" /\ chunks' = [i \in 0..(spec.pods - 1) |-> <<>>]
     ELSE pc' = "failed" /\ UNCHANGED chunks
  /\ UNCHANGED <<customAllowed, spec, chunk, line, read>>

\* Mutant: rounded up.
LinesInChunk_Up == (spec.data.lines + spec.pods - 1) \div spec.pods

LinesInChunk == spec.data.lines \div spec.pods

\* The chunk is full: the next line goes to the next one.
Full == line >= LinesInChunk

\* Mutant: one chunk too many.
OutOfChunks_Late(c) == c > spec.pods

OutOfChunks(c) == c >= spec.pods

\* The next record is read.  When all chunks are full it is dropped, and so
\* are the rest.
SplitLine ==
  /\ pc = "split" /\ read < spec.data.lines
  /\ LET c == IF Full THEN chunk + 1 ELSE chunk IN
     IF OutOfChunks(c)
     THEN pc' = "done" /\ UNCHANGED splitVars
     ELSE /\ chunks' = [chunks EXCEPT ![c] = Append(@, read + 1)]
          /\ chunk' = c /\ line' = (IF Full THEN 0 ELSE line) + 1 /\ read' = read + 1
          /\ UNCHANGED pc
  /\ UNCHANGED <<customAllowed, spec>>

\* The end of the data.
SplitEnds ==
  /\ pc = "split" /\ read = spec.data.lines /\ pc' = "done"
  /\ UNCHANGED <<customAllowed, spec, splitVars>>

Next ==
  \/ GetOverwrite \/ GetLoadTestType \/ GetDistributedPods \/ GetTags \/ GetTestFile
  \/ GetTestData \/ GetEnvVars \/ GetTargetURL \/ GetDuration \/ GetImages
  \/ TransformLoadTestSpec \/ CreateLoadTest
  \/ MountData \/ CountLines \/ SplitLine \/ SplitEnds

Spec == Init /\ [][Next]_vars
-----------------------------------------------------------------------------
(***************************************************************************)
(* K6: the segment of the load each job runs, and the sequence all of them *)
(* are given.  A bound is a fraction <<numerator, denominator>>.           *)
(***************************************************************************)
Zero == <<0, 1>>
One  == <<1, 1>>

\* Mutant: the last segment is not closed with 1.
SegmentArgs_NoOne(index, total) ==
  <<IF index = 0 THEN Zero ELSE <<index, total>>, <<index + 1, total>>>>

SegmentArgs(index, total) ==
  <<IF index = 0 THEN Zero ELSE <<index, total>>,
    IF index + 1 = total THEN One ELSE <<index + 1, total>>>>

SequenceArgs(total) == <<Zero>> \o [i \in 1..(total - 1) |-> <<i, total>>] \o <<One>>
-----------------------------------------------------------------------------
(***************************************************************************)
(* Properties.                                                             *)
(***************************************************************************)

\* backend.go: TransformLoadTestSpec "should validate and transform".  What
\* the controller relies on holds of every spec it lets pass, whichever path
\* the fields took, and does not depend on the schema the cluster happens to
\* have: a backend exists, splitTestData does not divide by zero and
\* SyncStatus of K6 finds a job, and no pod gets an image without a name or
\* tag.  Fake, which leaves the number of pods to the schema, has one when
\* the spec is stored.
AcceptedIsRunnable ==
  /\ pc \in Accepted =>
       /\ spec.type \in Registered
       /\ spec.type # "Fake" => spec.pods >= 1
       /\ \A role \in Roles(spec.type) : spec[role].image # "empty" /\ spec[role].tag # "empty"
  /\ pc \in SyncSteps => spec.pods >= 1

\* An image is the requested one or the default one, never the name of one
\* with the tag of the other.
ImageIsWhole ==
  pc \in Accepted => \A role \in Roles(spec.type) : spec[role].image = spec[role].tag

\* "Kangal will split the test data equally": what was sent as CSV is never
\* refused by the controller, only a protoset may be, which the proxy takes
\* for JMeter too; and what Ghz and K6 mount is not packed.
AcceptedIsReadable ==
  /\ pc = "failed" => spec.data.format = "protoset"
  /\ pc = "done" /\ spec.type \in {"Ghz", "K6"} => ~spec.data.packed

\* What worker i should get: as many consecutive lines as the others.  When
\* there are fewer lines than workers, the first worker gets none, the next
\* ones one line each while there are any, and the rest none.
Share(i) ==
  IF LinesInChunk > 0
  THEN [k \in 1..LinesInChunk |-> i * LinesInChunk + k]
  ELSE IF i \in 1..spec.data.lines THEN <<i>> ELSE <<>>

\* "every pod will have a unique piece of your test data file": consecutive
\* shares, no line twice.  With at least as many lines as workers the shares
\* are equal and only the remainder of the division is lost.  With fewer
\* they cannot be equal, and nothing is lost.
SharesAreFair ==
  pc = "done" /\ spec.type = "JMeter" =>
    chunks = [i \in 0..(spec.pods - 1) |-> Share(i)]

\* The jobs of K6 run adjoining segments from 0 to 1, and the bounds they
\* are given are spelled as in the sequence, where k6 looks them up.
SegmentsMeet ==
  pc = "done" /\ spec.type = "K6" /\ spec.pods > 1 =>
    \A i \in 0..(spec.pods - 1) :
      SegmentArgs(i, spec.pods)
        = <<SequenceArgs(spec.pods)[i + 1], SequenceArgs(spec.pods)[i + 2]>>
=============================================================================
