------------------------- MODULE ReportStore_proofs -------------------------
(***************************************************************************)
(* Why a directory that nobody disturbed is a whole report, and why a      *)
(* report that is served never shrinks, for any number of requests, files, *)
(* versions and blocks.                                                    *)
(***************************************************************************)
EXTENDS ReportStore, SequenceTheorems, TLAPS

\* What is read was there: an archive has a version, a descriptor is at a
\* block of it or at none, and only while a request extracts.
Sound(q) ==
  /\ q.pc \notin {"idle", "bucket"} => q.version > 0
  /\ IF q.pc = "extract"
     THEN q.file > 0 /\ q.block <= Size[q.version] /\ (q.linked => q.block > 0)
     ELSE q.block = 0 /\ ~q.linked

\* A file is holes and blocks at their places.
InPlace(blocks) == \A i \in DOMAIN blocks : blocks[i] = Hole \/ blocks[i][2] = i

FilesAreFiles ==
  /\ files \in [DOMAIN files -> Seq(Block)]
  /\ \A f \in DOMAIN files : InPlace(files[f])

Base ==
  /\ TypeOK /\ FilesAreFiles
  /\ object.kind # "none" => object.version > 0
  /\ \A r \in Requests : Sound(req[r])
  /\ sweeping => dir

\* All blocks there are come from version v.
OnlyOf(v) == \A f \in DOMAIN files : \A i \in DOMAIN files[f] : files[f][i][1] = v

\* What a request has extracted so far is there.
Extracted(q) ==
  /\ \A f \in 1..(q.file - 1) : f \in DOMAIN files /\ Len(files[f]) >= Size[q.version]
  /\ q.block > 0 => q.linked /\ Len(files[q.file]) >= q.block - 1

\* As long as nothing has happened that may leave the directory partial.
Orderly ==
  /\ \A r \in Requests : Extracting(r) =>
       dir /\ ~sweeping /\ OnlyOf(req[r].version) /\ Extracted(req[r])
  /\ sweeping => DOMAIN files \subseteq doomed
  /\ dir /\ ~sweeping =>
       (\E r \in Requests : Extracting(r)) \/ (\E v \in 1..MaxVersion : IsReport(v))

RInv == Base /\ (~disturbed => Orderly)
-----------------------------------------------------------------------------
(***************************************************************************)
(* Types, and what every step keeps.                                       *)
(***************************************************************************)

LEMMA RInvInit == Init => RInv
  <1>. SUFFICES ASSUME Init PROVE RInv
    OBVIOUS
  <1>1. /\ loadTest = TRUE /\ uploading = 0 /\ object = [kind |-> "none", version |-> 0]
        /\ dir = FALSE /\ files = <<>> /\ req = [r \in Requests |-> Idle]
        /\ sweeping = FALSE /\ doomed = {} /\ disturbed = FALSE
    BY DEF Init
  <1>2. DOMAIN files = {} /\ files = [f \in {} |-> files[f]]
    BY <1>1
  <1>3. Idle \in Request /\ Sound(Idle) /\ ~Idle.linked /\ Idle.pc = "idle"
    BY NFilesAssumption, MaxVersionAssumption DEF Idle, Request, Version, Sound
  <1>4. TypeOK
    <2>1. req \in [Requests -> Request]
      BY <1>1, <1>3
    <2>2. object \in [kind: Kind, version: Version] /\ object.version + uploading <= MaxVersion
      BY <1>1, MaxVersionAssumption DEF Kind, Version
    <2>3. \A r \in Requests : req[r].linked => req[r].file \in DOMAIN files
      BY <1>1, <1>3
    <2>4. uploading \in 0..MaxVersion
      BY <1>1, MaxVersionAssumption
    <2>. QED  BY <1>1, <1>2, <2>1, <2>2, <2>3, <2>4 DEF TypeOK
  <1>5. FilesAreFiles
    BY <1>2 DEF FilesAreFiles
  <1>. QED  BY <1>1, <1>2, <1>3, <1>4, <1>5 DEF RInv, Base, Orderly, Extracting

\* A request takes a step, which takes nothing away from the directory.
LEMMA RequestKeeps ==
  ASSUME Base, NEW r \in Requests, NEW q, q \in Request, Sound(q),
         req' = [req EXCEPT ![r] = q], UNCHANGED <<bucketVars, sweeping, doomed>>,
         dir => dir', DOMAIN files' \subseteq (IF dir' THEN Files ELSE {}),
         DOMAIN files \subseteq DOMAIN files', FilesAreFiles',
         q.linked => q.file \in DOMAIN files',
         dir' \in BOOLEAN, disturbed' \in BOOLEAN
  PROVE  Base'
  <1>1. req' \in [Requests -> Request]
    BY DEF Base, TypeOK
  <1>2. \A s \in Requests : Sound(req'[s]) /\ (req'[s].linked => req'[s].file \in DOMAIN files')
    BY DEF Base, TypeOK
  <1>3. \A s \in Requests : Sound(req[s])'
    BY <1>2 DEF Sound
  <1>4. \A f \in DOMAIN files' : files'[f] \in Seq(Block)
    BY DEF FilesAreFiles
  <1>5. TypeOK'
    BY <1>1, <1>2, <1>4 DEF Base, TypeOK, bucketVars, Request
  <1>. QED  BY <1>3, <1>5 DEF Base, bucketVars

\* w is blocks with a block at b, and holes between their end and b.
WithBlock(w, blocks, b, block) ==
  \A i \in DOMAIN w : \/ i = b /\ w[i] = block
                      \/ i \in DOMAIN blocks /\ w[i] = blocks[i]
                      \/ w[i] = Hole /\ i \in Len(blocks)+1..b-1

\* A Write at a descriptor's offset lengthens a file or replaces a block.
LEMMA Written ==
  ASSUME NEW blocks \in Seq(Block), NEW b \in Nat \ {0}, NEW block \in Block,
         NEW w, w = WriteAt(blocks, b, block)
  PROVE  /\ w \in Seq(Block) /\ Len(w) >= b /\ Len(w) >= Len(blocks)
         /\ WithBlock(w, blocks, b, block)
  <1> DEFINE n == IF b > Len(blocks) THEN b ELSE Len(blocks)
  <1>1. Len(blocks) \in Nat /\ DOMAIN blocks = 1..Len(blocks)
        /\ \A i \in 1..Len(blocks) : blocks[i] \in Block
    BY LenProperties, ElementOfSeq
  <1>2. Hole \in Block
    BY DEF Block
  <1>3. w = [i \in 1..n |-> IF i = b THEN block ELSE IF i <= Len(blocks) THEN blocks[i] ELSE Hole]
    BY DEF WriteAt
  <1>4. n \in Nat /\ n >= b /\ n >= Len(blocks)
    BY <1>1
  <1>5. \A i \in 1..n : w[i] \in Block
    BY <1>1, <1>2, <1>3
  <1>6. w \in [1..n -> Block]
    BY <1>3, <1>5
  <1>7. w \in Seq(Block) /\ Len(w) = n /\ DOMAIN w = 1..n
    BY <1>3, <1>4, <1>5, <1>6, IsASeq, LenProperties
  <1>8. \A i \in 1..n : \/ i = b /\ w[i] = block
                        \/ i \in DOMAIN blocks /\ w[i] = blocks[i]
                        \/ w[i] = Hole /\ i \in Len(blocks)+1..b-1
    BY <1>1, <1>3
  <1>. QED  BY <1>4, <1>7, <1>8 DEF WithBlock

LEMMA RecordType == Record => disturbed' \in BOOLEAN
  <1> DEFINE h == (dir' \/ \E r \in Requests : Extracting(r)') /\ (disturbed \/ Disturbs)
  <1>1. h \in BOOLEAN
    OBVIOUS
  <1> HIDE DEF h
  <1>2. Record => disturbed' = h
    BY DEF Record, h
  <1>. QED  BY <1>1, <1>2

\* Uploads touch neither the directory nor the requests.
LEMMA UploadsKeepBase ==
  ASSUME Base, PersistStarts \/ PersistPut \/ LoadTestGoes
  PROVE  Base'
  <1>1. UNCHANGED <<dir, files, req, sweeping, doomed>> /\ disturbed' \in BOOLEAN
    BY RecordType DEF PersistStarts, PersistPut, LoadTestGoes, Unshown
  <1>2. /\ uploading \in 0..MaxVersion /\ object \in [kind: Kind, version: Version]
        /\ object.version + uploading <= MaxVersion /\ loadTest \in BOOLEAN
        /\ object.kind # "none" => object.version > 0
    BY DEF Base, TypeOK
  <1>3. /\ uploading' \in 0..MaxVersion /\ object' \in [kind: Kind, version: Version]
        /\ object'.version + uploading' <= MaxVersion /\ loadTest' \in BOOLEAN
        /\ object'.kind # "none" => object'.version > 0
    <2>0. CASE LoadTestGoes
      BY <1>2, <2>0 DEF LoadTestGoes
    <2>1. CASE PersistStarts
      <3>1. UNCHANGED <<loadTest, object>> /\ uploading' = uploading + 1
            /\ object.version + uploading < MaxVersion
        BY <2>1 DEF PersistStarts
      <3>2. object.version \in Nat /\ uploading \in Nat
        BY <1>2, MaxVersionAssumption DEF Version
      <3>3. uploading' \in 0..MaxVersion /\ object.version + uploading' <= MaxVersion
        BY <3>1, <3>2, MaxVersionAssumption
      <3>. QED  BY <1>2, <3>1, <3>3
    <2>2. CASE PersistPut /\ UNCHANGED object
      BY <1>2, <2>2, MaxVersionAssumption DEF PersistPut, Version
    <2>3. CASE PersistPut /\ ~UNCHANGED object
      <3>1. PICK k \in {"page", "tar"} : object' = [kind |-> k, version |-> object.version + 1]
        BY <2>3 DEF PersistPut
      <3>. QED  BY <1>2, <2>3, <3>1, MaxVersionAssumption DEF PersistPut, Kind, Version
    <2>. QED  BY <2>0, <2>1, <2>2, <2>3
  <1>4. FilesAreFiles'
    BY <1>1 DEF Base, FilesAreFiles, InPlace
  <1>5. TypeOK'
    BY <1>1, <1>3 DEF Base, TypeOK
  <1>6. \A r \in Requests : Sound(req[r])'
    BY <1>1 DEF Base, Sound
  <1>. QED  BY <1>1, <1>3, <1>4, <1>5, <1>6 DEF Base

\* The steps of a request that do not write to the directory.
LEMMA ReadsKeepBase ==
  ASSUME Base, NEW r \in Requests,
         \/ Show(r) \/ ServeFromBucket(r) \/ CheckLocal(r) \/ GetArchive(r) \/ MakeDir(r)
         \/ ReadFails(r) \/ Serve(r) \/ (OpenFile(r) /\ ~dir)
  PROVE  Base'
  <1>1. /\ req[r] \in Request /\ Sound(req[r]) /\ object \in [kind: Kind, version: Version]
        /\ req[r].linked => req[r].file \in DOMAIN files
        /\ object.kind # "none" => object.version > 0
        /\ dir \in BOOLEAN /\ DOMAIN files \subseteq (IF dir THEN Files ELSE {})
    BY DEF Base, TypeOK
  <1>2. FilesAreFiles /\ disturbed' \in BOOLEAN /\ UNCHANGED files
    BY RecordType DEF Base, Show, ServeFromBucket, CheckLocal, GetArchive, MakeDir, ReadFails,
       Serve, OpenFile, CanCreate
  <1>3. FilesAreFiles'
    BY <1>2 DEF FilesAreFiles, InPlace
  <1>4. Idle \in Request /\ Sound(Idle) /\ ~Idle.linked
    BY NFilesAssumption, MaxVersionAssumption DEF Idle, Request, Version, Sound
  <1>5. \E q \in Request : /\ Sound(q) /\ (q.linked => q.file \in DOMAIN files)
                           /\ req' = [req EXCEPT ![r] = q]
                           /\ UNCHANGED <<bucketVars, sweeping, doomed>>
                           /\ dir' = dir \/ dir' = TRUE
    <2>1. CASE Show(r)
      <3> DEFINE q == [Idle EXCEPT !.pc = IF object.kind = "tar" THEN "check" ELSE "bucket",
                                   !.version = object.version]
      <3>1. /\ q.pc = (IF object.kind = "tar" THEN "check" ELSE "bucket")
            /\ q.version = object.version /\ q.block = 0 /\ q.linked = FALSE
        BY DEF Idle
      <3>2. q \in Request
        <4>1. Idle \in Request /\ object.version \in Version
          BY <1>1, <1>4
        <4>. QED  BY <4>1 DEF Request
      <3>3. Sound(q)
        BY <1>1, <3>1 DEF Sound
      <3> HIDE DEF q
      <3>4. req' = [req EXCEPT ![r] = q] /\ UNCHANGED <<bucketVars, sweeping, doomed, dir>>
        BY <2>1 DEF Show, Step, q
      <3>. QED  BY <3>1, <3>2, <3>3, <3>4
    <2>2. CASE ServeFromBucket(r) \/ ReadFails(r) \/ Serve(r) \/ (OpenFile(r) /\ ~dir)
      BY <1>4, <2>2 DEF ServeFromBucket, ReadFails, Serve, OpenFile, CanCreate, Step
    <2>3. CASE CheckLocal(r)
      <3> DEFINE q == [req[r] EXCEPT !.pc = IF dir THEN "serve" ELSE "get"]
      <3>1. req[r].pc = "check"
        BY <2>3 DEF CheckLocal, Step
      <3>2. q \in Request /\ Sound(q) /\ ~q.linked
        BY <1>1, <3>1 DEF Request, Sound
      <3>. QED  BY <2>3, <3>2 DEF CheckLocal, Step
    <2>4. CASE GetArchive(r)
      <3> DEFINE q == [req[r] EXCEPT !.pc = "mkdir"]
      <3>1. req[r].pc = "get"
        BY <2>4 DEF GetArchive, Step
      <3>2. q \in Request /\ Sound(q) /\ ~q.linked
        BY <1>1, <3>1 DEF Request, Sound
      <3>. QED  BY <1>4, <2>4, <3>2 DEF GetArchive, Step
    <2>5. CASE MakeDir(r)
      <3> DEFINE q == [req[r] EXCEPT !.pc = "extract", !.file = 1]
      <3>1. req[r].pc = "mkdir"
        BY <2>5 DEF MakeDir, Step
      <3>2. Size[req[r].version] \in Nat
        BY <1>1, <3>1, SizeAssumption DEF Sound, Request, Version
      <3>3. q \in Request /\ Sound(q) /\ ~q.linked
        <4>1. 1 \in 0..NFiles
          BY NFilesAssumption
        <4>2. req[r].block = 0 /\ ~req[r].linked /\ req[r].version > 0
          BY <1>1, <3>1 DEF Sound
        <4>3. /\ q.pc = "extract" /\ q.file = 1 /\ q.block = req[r].block
              /\ q.version = req[r].version /\ q.linked = req[r].linked
          BY <1>1 DEF Request
        <4>4. q \in Request
          BY <1>1, <4>1 DEF Request
        <4>. QED  BY <3>2, <4>2, <4>3, <4>4 DEF Sound
      <3>. QED  BY <2>5, <3>3 DEF MakeDir, Step
    <2>. QED  BY <2>1, <2>2, <2>3, <2>4, <2>5
  <1>6. PICK q \in Request : /\ Sound(q) /\ (q.linked => q.file \in DOMAIN files)
                             /\ req' = [req EXCEPT ![r] = q]
                             /\ UNCHANGED <<bucketVars, sweeping, doomed>>
                             /\ dir' = dir \/ dir' = TRUE
    BY <1>5
  <1>7. DOMAIN files' = DOMAIN files /\ dir' \in BOOLEAN /\ (dir => dir')
        /\ DOMAIN files' \subseteq (IF dir' THEN Files ELSE {})
    <2>1. CASE dir' = dir
      BY <1>1, <1>2, <2>1
    <2>2. CASE dir' = TRUE
      BY <1>1, <1>2, <2>2
    <2>. QED  BY <1>6, <2>1, <2>2
  <1>. QED  BY <1>2, <1>3, <1>6, <1>7, RequestKeeps

\* OpenFile creates an empty file, or leaves one that is there as it is.
LEMMA OpenFileOpens ==
  ASSUME Base, NEW r \in Requests, OpenFile(r), dir
  PROVE  LET f == req[r].file
             q == [req[r] EXCEPT !.block = 1, !.linked = TRUE] IN
         /\ req[r].pc = "extract" /\ req[r].block = 0 /\ f \in Files
         /\ DOMAIN files' = DOMAIN files \cup {f}
         /\ \A g \in DOMAIN files : files'[g] = files[g]
         /\ f \notin DOMAIN files => files'[f] = <<>>
         /\ q \in Request /\ Sound(q)
         /\ req' = [req EXCEPT ![r] = q]
         /\ UNCHANGED <<bucketVars, sweeping, doomed, dir>>
         /\ FilesAreFiles'
  <1> DEFINE f == req[r].file
             q == [req[r] EXCEPT !.block = 1, !.linked = TRUE]
  <1>1. /\ req[r].pc = "extract" /\ req[r].block = 0 /\ req' = [req EXCEPT ![r] = q]
        /\ UNCHANGED <<bucketVars, sweeping, doomed, dir>>
        /\ files' = [g \in DOMAIN files \cup {f} |->
                       IF g # f THEN files[g]
                       ELSE IF f \in DOMAIN files THEN files[f] ELSE <<>>]
    BY DEF OpenFile, Step, CanCreate, Opened
  <1>2. req[r] \in Request /\ Sound(req[r])
    BY DEF Base, TypeOK
  <1>3. f \in Files
    BY <1>1, <1>2, NFilesAssumption DEF Sound, Request, Files
  <1>4. q \in Request /\ Sound(q)
    <2>1. req[r].version \in 1..MaxVersion /\ f > 0
      BY <1>1, <1>2, MaxVersionAssumption DEF Sound, Request, Version
    <2>2. Size[req[r].version] >= 1
      BY <2>1, SizeAssumption
    <2>3. /\ q.pc = "extract" /\ q.file = f /\ q.block = 1 /\ q.version = req[r].version
      BY <1>1, <1>2 DEF Request
    <2>4. q \in Request
      BY <1>2 DEF Request
    <2>. QED  BY <2>1, <2>2, <2>3, <2>4 DEF Sound
  <1>5. DOMAIN files' = DOMAIN files \cup {f} /\ (\A g \in DOMAIN files : files'[g] = files[g])
        /\ (f \notin DOMAIN files => files'[f] = <<>>)
    BY <1>1
  <1>6. FilesAreFiles'
    <2>1. <<>> \in Seq(Block) /\ InPlace(<<>>)
      BY EmptySeq DEF InPlace
    <2>2. \A g \in DOMAIN files' : files'[g] \in Seq(Block) /\ InPlace(files'[g])
      BY <1>5, <2>1 DEF Base, FilesAreFiles
    <2>3. files' = [g \in DOMAIN files' |-> files'[g]]
      BY <1>1
    <2>. QED  BY <2>2, <2>3 DEF FilesAreFiles, InPlace
  <1>. QED  BY <1>1, <1>3, <1>4, <1>5, <1>6

\* CopyBlock writes the block at its place, and goes on to the next one, to
\* the next file, or to serving.
LEMMA CopyBlockCopies ==
  ASSUME Base, NEW r \in Requests, CopyBlock(r)
  PROVE  LET q == req[r]
             q1 == req'[r] IN
         /\ q.pc = "extract" /\ q.block \in 1..Size[q.version] /\ q.file \in Files
         /\ q.version \in 1..MaxVersion
         /\ q1 \in Request /\ Sound(q1) /\ req' = [req EXCEPT ![r] = q1]
         /\ q1.version = q.version
         /\ \/ /\ q.block < Size[q.version]
               /\ q1.pc = "extract" /\ q1.block = q.block + 1 /\ q1.file = q.file
               /\ q1.linked = q.linked
            \/ /\ q.block = Size[q.version] /\ q.file < NFiles
               /\ q1.pc = "extract" /\ q1.block = 0 /\ q1.file = q.file + 1 /\ ~q1.linked
            \/ /\ q.block = Size[q.version] /\ q.file = NFiles
               /\ q1.pc = "serve" /\ ~q1.linked
         /\ UNCHANGED <<bucketVars, sweeping, doomed, dir>>
         /\ DOMAIN files' = DOMAIN files
         /\ IF q.linked
            THEN /\ q.file \in DOMAIN files
                 /\ files'[q.file] = WriteAt(files[q.file], q.block, <<q.version, q.block>>)
                 /\ \A g \in DOMAIN files : g # q.file => files'[g] = files[g]
            ELSE files' = files
         /\ FilesAreFiles'
  <1> DEFINE q == req[r]
             size == Size[q.version]
             more == [q EXCEPT !.block = @ + 1]
             other == [q EXCEPT !.file = @ + 1, !.block = 0, !.linked = FALSE]
             done == [q EXCEPT !.pc = "serve", !.block = 0, !.linked = FALSE]
             w == WriteAt(files[q.file], q.block, <<q.version, q.block>>)
  <1>1. /\ q.pc = "extract" /\ q.block > 0
        /\ req' = [req EXCEPT ![r] = IF q.block # size THEN more
                                     ELSE IF q.file < NFiles THEN other ELSE done]
        /\ UNCHANGED <<bucketVars, sweeping, doomed, dir>>
        /\ files' = IF q.linked THEN [files EXCEPT ![q.file] = w] ELSE files
    BY DEF CopyBlock, Step
  <1>2. q \in Request /\ Sound(q) /\ (q.linked => q.file \in DOMAIN files) /\ FilesAreFiles
    BY DEF Base, TypeOK
  <1>3. /\ q.version \in 1..MaxVersion /\ size \in Nat \ {0} /\ q.block \in 1..size
        /\ q.file \in Files
    <2>1. q.version \in 1..MaxVersion
      BY <1>1, <1>2, MaxVersionAssumption DEF Sound, Request, Version
    <2>2. size \in Nat \ {0}
      BY <2>1, SizeAssumption
    <2>3. q.block \in Nat /\ q.block <= size
      BY <1>1, <1>2 DEF Sound, Request
    <2>4. q.file \in Files
      BY <1>1, <1>2, NFilesAssumption DEF Sound, Request, Files
    <2>. QED  BY <1>1, <2>1, <2>2, <2>3, <2>4
  <1>4. req'[r] = (IF q.block # size THEN more ELSE IF q.file < NFiles THEN other ELSE done)
    BY <1>1 DEF Base, TypeOK
  <1>5. /\ more.pc = "extract" /\ more.block = q.block + 1 /\ more.file = q.file
        /\ more.linked = q.linked /\ more.version = q.version /\ more \in Request
    BY <1>1, <1>2 DEF Request
  <1>6. /\ other.pc = "extract" /\ other.block = 0 /\ other.file = q.file + 1
        /\ other.linked = FALSE /\ other.version = q.version
    BY <1>1, <1>2 DEF Request
  <1>7. done.pc = "serve" /\ done.linked = FALSE /\ done.version = q.version
        /\ done.block = 0 /\ done \in Request
    BY <1>1, <1>2 DEF Request
  <1>8. q.file < NFiles => other \in Request
    <2>. SUFFICES ASSUME q.file < NFiles PROVE other \in Request
      OBVIOUS
    <2>1. q.file + 1 \in 0..NFiles
      BY <1>3, NFilesAssumption DEF Files
    <2>2. q \in Request
      BY <1>2
    <2>. HIDE DEF q
    <2>. QED  BY <2>1, <2>2 DEF Request
  <1>9. q.block # size => Sound(more)
    BY <1>1, <1>2, <1>3, <1>5 DEF Sound, Files
  <1>10. Sound(other) /\ Sound(done)
    BY <1>3, <1>6, <1>7 DEF Sound, Files
  <1>11. /\ DOMAIN files' = DOMAIN files
         /\ IF q.linked THEN files'[q.file] = w
                             /\ \A g \in DOMAIN files : g # q.file => files'[g] = files[g]
            ELSE files' = files
    BY <1>1, <1>2 DEF FilesAreFiles
  <1>12. FilesAreFiles'
    <2>1. CASE ~q.linked
      BY <1>2, <1>11, <2>1 DEF FilesAreFiles, InPlace
    <2>2. CASE q.linked
      <3> DEFINE block == <<q.version, q.block>>
      <3>1. block \in Block /\ block[2] = q.block
        BY <1>3, MaxVersionAssumption DEF Block, Version
      <3>2. files[q.file] \in Seq(Block) /\ InPlace(files[q.file]) /\ q.block \in Nat \ {0}
        BY <1>2, <1>3, <2>2 DEF FilesAreFiles
      <3> HIDE DEF block
      <3>3. WriteAt(files[q.file], q.block, block) = w
        BY DEF block
      <3> HIDE DEF w, q
      <3>4. w \in Seq(Block) /\ WithBlock(w, files[q.file], q.block, block)
        BY <3>1, <3>2, <3>3, Written
      <3>5. InPlace(w)
        BY <3>1, <3>2, <3>4 DEF InPlace, WithBlock
      <3>6. \A g \in DOMAIN files' : files'[g] \in Seq(Block) /\ InPlace(files'[g])
        BY <1>2, <1>11, <2>2, <3>4, <3>5 DEF FilesAreFiles
      <3>7. files' = [g \in DOMAIN files' |-> files'[g]]
        BY <1>1, <1>2, <2>2 DEF FilesAreFiles
      <3>. QED  BY <3>6, <3>7 DEF FilesAreFiles, InPlace
    <2>. QED  BY <2>1, <2>2
  <1> HIDE DEF more, other, done, w, size
  <1>13. req' = [req EXCEPT ![r] = req'[r]]
    BY <1>1, <1>4
  <1>14. req'[r] \in Request /\ Sound(req'[r]) /\ req'[r].version = q.version
    BY <1>4, <1>5, <1>6, <1>7, <1>8, <1>9, <1>10
  <1>15. \/ /\ q.block < size
            /\ req'[r].pc = "extract" /\ req'[r].block = q.block + 1 /\ req'[r].file = q.file
            /\ req'[r].linked = q.linked
         \/ /\ q.block = size /\ q.file < NFiles
            /\ req'[r].pc = "extract" /\ req'[r].block = 0 /\ req'[r].file = q.file + 1
            /\ ~req'[r].linked
         \/ /\ q.block = size /\ q.file = NFiles
            /\ req'[r].pc = "serve" /\ ~req'[r].linked
    BY <1>3, <1>4, <1>5, <1>6, <1>7, NFilesAssumption DEF Files
  <1>. QED  BY <1>1, <1>2, <1>3, <1>11, <1>12, <1>13, <1>14, <1>15 DEF size, w

LEMMA WritesKeepBase ==
  ASSUME Base, NEW r \in Requests, (OpenFile(r) /\ dir) \/ CopyBlock(r)
  PROVE  Base'
  <1>1. disturbed' \in BOOLEAN
    BY RecordType DEF OpenFile, CopyBlock
  <1>2. dir \in BOOLEAN /\ DOMAIN files \subseteq (IF dir THEN Files ELSE {})
    BY DEF Base, TypeOK
  <1>3. CASE OpenFile(r) /\ dir
    <2> DEFINE q == [req[r] EXCEPT !.block = 1, !.linked = TRUE]
    <2>1. /\ req[r].file \in Files /\ DOMAIN files' = DOMAIN files \cup {req[r].file}
          /\ q \in Request /\ Sound(q) /\ req' = [req EXCEPT ![r] = q]
          /\ UNCHANGED <<bucketVars, sweeping, doomed, dir>> /\ FilesAreFiles'
      BY <1>3, OpenFileOpens
    <2>2. q.file = req[r].file
      BY DEF Base, TypeOK, Request
    <2> HIDE DEF q
    <2>. QED  BY <1>1, <1>2, <1>3, <2>1, <2>2, RequestKeeps
  <1>4. CASE CopyBlock(r)
    <2> DEFINE q == req[r]
               q1 == req'[r]
    <2>1. /\ q1 \in Request /\ Sound(q1) /\ req' = [req EXCEPT ![r] = q1]
          /\ UNCHANGED <<bucketVars, sweeping, doomed, dir>>
          /\ DOMAIN files' = DOMAIN files /\ FilesAreFiles'
          /\ q1.linked => q.linked /\ q1.file = q.file
      BY <1>4, CopyBlockCopies
    <2>2. q.linked => q.file \in DOMAIN files
      BY DEF Base, TypeOK
    <2> HIDE DEF q, q1
    <2>. QED  BY <1>1, <1>2, <2>1, <2>2, RequestKeeps
  <1>. QED  BY <1>3, <1>4

LEMMA SweepKeepsBase == Base /\ Sweep => Base'
  <1>. SUFFICES ASSUME Base, Sweep PROVE Base'
    OBVIOUS
  <1>1. disturbed' \in BOOLEAN
    BY RecordType DEF Sweep, SweepStarts, SweepUnlinks, SweepEnds
  <1>2. UNCHANGED bucketVars
    BY DEF Sweep, SweepStarts, SweepUnlinks, SweepEnds
  <1>3. CASE SweepStarts
    <2>1. /\ dir /\ sweeping' = TRUE /\ doomed' = DOMAIN files /\ UNCHANGED <<dir, files, req>>
      BY <1>3 DEF SweepStarts, SweepList
    <2>2. FilesAreFiles' /\ \A r \in Requests : Sound(req[r])'
      BY <2>1 DEF Base, FilesAreFiles, InPlace, Sound
    <2>3. TypeOK'
      BY <1>1, <1>2, <2>1 DEF Base, TypeOK, bucketVars
    <2>. QED  BY <1>2, <2>1, <2>2, <2>3 DEF Base, bucketVars
  <1>4. ASSUME NEW f \in Files, SweepUnlinks(f) PROVE Base'
    <2>1. /\ f \in doomed /\ doomed' = doomed \ {f} /\ UNCHANGED <<dir, sweeping>>
          /\ files' = [g \in DOMAIN files \ {f} |-> files[g]]
          /\ req' = [r \in Requests |->
                       IF req[r].file = f THEN [req[r] EXCEPT !.linked = FALSE] ELSE req[r]]
      BY <1>4 DEF SweepUnlinks
    <2>2. /\ DOMAIN files' = DOMAIN files \ {f} /\ \A g \in DOMAIN files' : files'[g] = files[g]
      BY <2>1
    <2>3. FilesAreFiles'
      <3>1. \A g \in DOMAIN files' : files'[g] \in Seq(Block) /\ InPlace(files'[g])
        BY <2>2 DEF Base, FilesAreFiles
      <3>2. files' = [g \in DOMAIN files' |-> files'[g]]
        BY <2>1
      <3>. QED  BY <3>1, <3>2 DEF FilesAreFiles, InPlace
    <2>4. \A r \in Requests : /\ req'[r] \in Request /\ Sound(req'[r])
                              /\ req'[r].linked => req'[r].file \in DOMAIN files'
      <3>. SUFFICES ASSUME NEW r \in Requests
                    PROVE  /\ req'[r] \in Request /\ Sound(req'[r])
                           /\ req'[r].linked => req'[r].file \in DOMAIN files'
        OBVIOUS
      <3>1. req[r] \in Request /\ Sound(req[r]) /\ (req[r].linked => req[r].file \in DOMAIN files)
        BY DEF Base, TypeOK
      <3>2. CASE req[r].file # f
        BY <2>1, <2>2, <3>1, <3>2
      <3>3. CASE req[r].file = f
        <4> DEFINE q == [req[r] EXCEPT !.linked = FALSE]
        <4>1. q \in Request /\ q.linked = FALSE /\ q.pc = req[r].pc /\ q.file = req[r].file
              /\ q.block = req[r].block /\ q.version = req[r].version
          BY <3>1 DEF Request
        <4>2. Sound(q)
          BY <3>1, <4>1 DEF Sound
        <4>3. req'[r] = q
          BY <2>1, <3>3
        <4>. QED  BY <4>1, <4>2, <4>3
      <3>. QED  BY <3>2, <3>3
    <2>5. req' \in [Requests -> Request]
      BY <2>1, <2>4
    <2>6. \A g \in DOMAIN files' : files'[g] \in Seq(Block)
      BY <2>3 DEF FilesAreFiles
    <2>7. DOMAIN files' \subseteq (IF dir' THEN Files ELSE {})
      BY <2>1, <2>2 DEF Base, TypeOK
    <2>8. doomed' \subseteq Files /\ (doomed' # {} => sweeping') /\ sweeping' \in BOOLEAN
      BY <2>1 DEF Base, TypeOK
    <2>9. TypeOK'
      BY <1>1, <1>2, <2>1, <2>4, <2>5, <2>6, <2>7, <2>8 DEF Base, TypeOK, bucketVars
    <2>10. \A r \in Requests : Sound(req[r])'
      BY <2>4 DEF Sound
    <2>. QED  BY <1>2, <2>1, <2>3, <2>9, <2>10 DEF Base, bucketVars
  <1>5. CASE SweepEnds
    <2>1. /\ sweeping /\ doomed = {} /\ sweeping' = FALSE /\ UNCHANGED <<files, req, doomed>>
      BY <1>5 DEF SweepEnds
    <2>2. (dir' <=> DOMAIN files # {}) /\ dir' \in BOOLEAN
      BY <1>5, Zenon DEF SweepEnds
    <2>3. DOMAIN files' \subseteq (IF dir' THEN Files ELSE {})
      BY <2>1, <2>2 DEF Base, TypeOK
    <2>4. FilesAreFiles' /\ \A r \in Requests : Sound(req[r])'
      BY <2>1 DEF Base, FilesAreFiles, InPlace, Sound
    <2>5. TypeOK'
      BY <1>1, <1>2, <2>1, <2>2, <2>3 DEF Base, TypeOK, bucketVars
    <2>. QED  BY <1>2, <2>1, <2>4, <2>5 DEF Base, bucketVars
  <1>. QED  BY <1>3, <1>4, <1>5 DEF Sweep

LEMMA BaseNext == Base /\ [Next]_vars => Base'
  <1>. SUFFICES ASSUME Base, [Next]_vars PROVE Base'
    OBVIOUS
  <1>1. CASE UNCHANGED vars
    <2>1. FilesAreFiles' /\ \A r \in Requests : Sound(req[r])'
      BY <1>1 DEF Base, FilesAreFiles, InPlace, Sound, vars
    <2>2. TypeOK'
      BY <1>1 DEF Base, TypeOK, vars, bucketVars
    <2>. QED  BY <1>1, <2>1, <2>2 DEF Base, vars, bucketVars
  <1>2. CASE PersistStarts \/ PersistPut \/ LoadTestGoes
    BY <1>2, UploadsKeepBase
  <1>3. ASSUME NEW r \in Requests, Show(r) \/ Proceed(r) \/ ReadFails(r) PROVE Base'
    BY <1>3, ReadsKeepBase, WritesKeepBase DEF Proceed
  <1>4. CASE Sweep
    BY <1>4, SweepKeepsBase
  <1>. QED  BY <1>1, <1>2, <1>3, <1>4 DEF Next
-----------------------------------------------------------------------------
(***************************************************************************)
(* A step that does not disturb.                                           *)
(***************************************************************************)

Calm == Base /\ Base' /\ Orderly /\ ~Disturbs

\* What is left to show of it, the rest being what Disturbs says.
LEMMA StaysOrderly ==
  ASSUME Calm,
         \A r \in Requests : Extracting(r)' => dir' /\ Extracted(req[r])',
         sweeping' => DOMAIN files' \subseteq doomed',
         dir' /\ ~sweeping' =>
           (\E r \in Requests : Extracting(r)') \/ (\E v \in 1..MaxVersion : IsReport(v)')
  PROVE  Orderly'
  <1>1. \A r \in Requests : Extracting(r)' => ~sweeping' /\ OnlyOf(req[r].version)'
    BY DEF Calm, Disturbs, OnlyOf
  <1>. QED  BY <1>1 DEF Orderly

\* A step that only moves a request from one reading to another.
LEMMA ReadingIsCalm ==
  ASSUME Calm, NEW r \in Requests, UNCHANGED <<dir, files, sweeping, doomed>>,
         req[r].pc # "extract", req'[r].pc # "extract",
         \A s \in Requests : s # r => req'[s] = req[s]
  PROVE  Orderly'
  <1>1. \A s \in Requests : Extracting(s)' <=> Extracting(s)
    BY DEF Extracting
  <1>2. \A s \in Requests : Extracting(s)' => dir' /\ Extracted(req[s])'
    BY <1>1 DEF Calm, Orderly, Extracting, Extracted
  <1>3. \A v \in 1..MaxVersion : IsReport(v) => IsReport(v)'
    BY DEF IsReport
  <1>. QED  BY <1>1, <1>2, <1>3, StaysOrderly DEF Calm, Orderly

\* Opening a file brings no block, and takes none away.
LEMMA OpeningIsCalm ==
  ASSUME Calm, NEW r \in Requests, OpenFile(r) \/ MakeDir(r)
  PROVE  Orderly'
  <1>1. CASE OpenFile(r) /\ ~dir
    <2>1. req[r].pc = "extract"
      BY <1>1 DEF OpenFile, CanCreate, Step
    <2>. QED  BY <1>1, <2>1 DEF Calm, Orderly, Extracting
  <1>2. CASE OpenFile(r) /\ dir
    <2> DEFINE f == req[r].file
    <2>1. /\ req[r].pc = "extract" /\ DOMAIN files' = DOMAIN files \cup {f} /\ f \in Files
          /\ \A g \in DOMAIN files : files'[g] = files[g]
          /\ f \notin DOMAIN files => files'[f] = <<>>
          /\ req' = [req EXCEPT ![r] = [req[r] EXCEPT !.block = 1, !.linked = TRUE]]
          /\ UNCHANGED <<sweeping, doomed, dir>> /\ FilesAreFiles'
      BY <1>2, OpenFileOpens DEF Calm
    <2>2. req[r] \in Request /\ req \in [Requests -> Request]
      BY DEF Calm, Base, TypeOK
    <2>3. /\ req'[r].pc = "extract" /\ req'[r].block = 1 /\ req'[r].linked = TRUE
          /\ req'[r].file = f /\ req'[r].version = req[r].version
          /\ \A s \in Requests : s # r => req'[s] = req[s]
      BY <2>1, <2>2 DEF Request
    <2>4. Extracted(req[r]) /\ ~sweeping /\ \A s \in Requests : Extracting(s) => Extracted(req[s])
      BY <2>1 DEF Calm, Orderly, Extracting
    <2>5. ASSUME NEW s \in Requests, Extracting(s)' PROVE dir' /\ Extracted(req[s])'
      <3>1. CASE s # r
        <4>1. Extracted(req[s]) /\ req'[s] = req[s] /\ Sound(req[s]) /\ req[s] \in Request
              /\ req[s].pc = "extract" /\ (req[s].linked => req[s].file \in DOMAIN files)
          BY <2>3, <2>4, <2>5, <3>1 DEF Extracting, Calm, Base, TypeOK
        <4>. QED  BY <1>2, <2>1, <4>1 DEF Extracted
      <3>2. CASE s = r
        <4>1. \A g \in 1..(f - 1) : g \in DOMAIN files' /\ Len(files'[g]) >= Size[req'[r].version]
          BY <2>1, <2>3, <2>4 DEF Extracted
        <4>2. Len(files'[f]) >= req'[r].block - 1
          <5>1. files'[f] \in Seq(Block)
            BY <2>1 DEF FilesAreFiles
          <5>. QED  BY <2>3, <5>1, LenProperties
        <4>. QED  BY <1>2, <2>1, <2>3, <3>2, <4>1, <4>2 DEF Extracted
      <3>. QED  BY <3>1, <3>2
    <2>6. Extracting(r)' /\ ~sweeping'
      BY <2>1, <2>3, <2>4 DEF Extracting
    <2>. QED  BY <2>5, <2>6, StaysOrderly
  <1>3. CASE MakeDir(r)
    <2>1. /\ req[r].pc = "mkdir"
          /\ req' = [req EXCEPT ![r] = [req[r] EXCEPT !.pc = "extract", !.file = 1]]
          /\ dir' = TRUE /\ UNCHANGED <<files, sweeping, doomed>>
      BY <1>3 DEF MakeDir, Step
    <2>2. req[r] \in Request /\ req \in [Requests -> Request] /\ Sound(req[r])
      BY DEF Calm, Base, TypeOK
    <2>3. /\ req'[r].pc = "extract" /\ req'[r].block = 0 /\ req'[r].file = 1
          /\ \A s \in Requests : s # r => req'[s] = req[s]
      BY <2>1, <2>2 DEF Request, Sound
    <2>4. ASSUME NEW s \in Requests, Extracting(s)' PROVE dir' /\ Extracted(req[s])'
      <3>1. CASE s # r
        BY <2>1, <2>3, <2>4, <3>1 DEF Calm, Orderly, Extracting, Extracted
      <3>2. CASE s = r
        BY <2>1, <2>3, <3>2 DEF Extracted
      <3>. QED  BY <3>1, <3>2
    <2>5. Extracting(r)'
      BY <2>3 DEF Extracting
    <2>6. ~sweeping'
      BY <2>5 DEF Calm, Disturbs
    <2>. QED  BY <2>4, <2>5, <2>6, StaysOrderly
  <1>. QED  BY <1>1, <1>2, <1>3

\* A file of version v with a block at its end is whole.
LEMMA WholeFile ==
  ASSUME NEW v \in 1..MaxVersion, NEW blocks \in Seq(Block), InPlace(blocks),
         Len(blocks) >= Size[v], \A i \in DOMAIN blocks : blocks[i][1] = v
  PROVE  blocks = [b \in 1..Size[v] |-> <<v, b>>]
  <1>1. Size[v] \in Nat \ {0} /\ Len(blocks) \in Nat /\ DOMAIN blocks = 1..Len(blocks)
        /\ \A i \in 1..Len(blocks) : blocks[i] \in Block
    BY SizeAssumption, LenProperties, ElementOfSeq
  <1>2. \A i \in 1..Len(blocks) : blocks[i] = <<v, i>> /\ i <= Size[v]
    <2>. SUFFICES ASSUME NEW i \in 1..Len(blocks) PROVE blocks[i] = <<v, i>> /\ i <= Size[v]
      OBVIOUS
    <2>1. blocks[i] # Hole
      BY <1>1 DEF Hole
    <2>2. blocks[i][2] = i /\ blocks[i][1] = v
      BY <1>1, <2>1 DEF InPlace
    <2>3. /\ blocks[i] \in Version \X Nat
          /\ blocks[i][2] \in 1..Size[blocks[i][1]]
      BY <1>1, <2>1 DEF Block
    <2>. QED  BY <1>1, <2>2, <2>3
  <1>3. Len(blocks) = Size[v]
    BY <1>1, <1>2
  <1>. QED  BY <1>1, <1>2, <1>3, LenProperties

\* A block written in its place by a request that nobody has disturbed.
LEMMA CopyingIsCalm ==
  ASSUME Calm, NEW r \in Requests, CopyBlock(r)
  PROVE  Orderly'
  <1> DEFINE q == req[r]
             q1 == req'[r]
             f == q.file
             v == q.version
             block == <<v, q.block>>
  <1>1. /\ q.pc = "extract" /\ q.block \in 1..Size[v] /\ f \in Files /\ v \in 1..MaxVersion
        /\ q1.version = v /\ req' = [req EXCEPT ![r] = q1]
        /\ UNCHANGED <<sweeping, doomed, dir>> /\ DOMAIN files' = DOMAIN files
        /\ FilesAreFiles'
    BY CopyBlockCopies DEF Calm
  <1>2. /\ dir /\ ~sweeping /\ OnlyOf(v) /\ Extracted(q)
        /\ \A s \in Requests : Extracting(s) => Extracted(req[s])
    BY <1>1 DEF Calm, Orderly, Extracting
  <1>3. q.linked
    BY <1>1, <1>2, SizeAssumption DEF Extracted
  <1>4. /\ f \in DOMAIN files
        /\ files'[f] = WriteAt(files[f], q.block, block)
        /\ \A g \in DOMAIN files : g # f => files'[g] = files[g]
    BY <1>3, CopyBlockCopies DEF Calm
  <1>5. \/ q.block < Size[v] /\ q1.pc = "extract" /\ q1.block = q.block + 1 /\ q1.file = f
           /\ q1.linked
        \/ q.block = Size[v] /\ f < NFiles /\ q1.pc = "extract" /\ q1.block = 0 /\ q1.file = f + 1
        \/ q.block = Size[v] /\ f = NFiles /\ q1.pc = "serve"
    BY <1>3, CopyBlockCopies DEF Calm
  <1>6. /\ files[f] \in Seq(Block) /\ q.block \in Nat \ {0} /\ Size[v] \in Nat
        /\ block \in Block /\ block[1] = v /\ Len(files[f]) >= q.block - 1
    <2>1. files[f] \in Seq(Block)
      BY <1>4 DEF Calm, Base, FilesAreFiles
    <2>2. Size[v] \in Nat
      BY <1>1, SizeAssumption
    <2>3. block \in Block
      BY <1>1, <2>2, MaxVersionAssumption DEF Block, Version
    <2>4. Len(files[f]) >= q.block - 1
      BY <1>1, <1>2, <2>2 DEF Extracted
    <2>. QED  BY <1>1, <2>1, <2>2, <2>3, <2>4
  <1> HIDE DEF block
  <1>7. /\ files'[f] \in Seq(Block) /\ Len(files'[f]) >= q.block
        /\ Len(files'[f]) >= Len(files[f])
        /\ WithBlock(files'[f], files[f], q.block, block)
    <2>  DEFINE s == files[f]
                 b == q.block
                 w == files'[f]
    <2>2. s \in Seq(Block) /\ b \in Nat \ {0} /\ block \in Block /\ w = WriteAt(s, b, block)
      BY <1>4, <1>6
    <2>  HIDE DEF s, b, w
    <2>4. /\ w \in Seq(Block) /\ Len(w) >= b /\ Len(w) >= Len(s) /\ WithBlock(w, s, b, block)
      BY <1>6, <2>2, Written
    <2>. QED  BY <2>4 DEF s, b, w
  <1>8. \A g \in DOMAIN files : Len(files'[g]) >= Len(files[g])
    <2>1. \A g \in DOMAIN files : Len(files[g]) \in Nat
      BY LenProperties DEF Calm, Base, FilesAreFiles
    <2>. QED  BY <1>4, <1>7, <2>1
  <1>9. OnlyOf(v)'
    <2>1. ASSUME NEW i \in DOMAIN files'[f] PROVE files'[f][i][1] = v
      <3>1. ~(i \in Len(files[f])+1..q.block-1)
        <4>1. Len(files[f]) \in Nat
          BY <1>6, LenProperties
        <4>. QED  BY <1>6, <4>1
      <3>2. \/ files'[f][i] = block
            \/ i \in DOMAIN files[f] /\ files'[f][i] = files[f][i]
        BY <1>7, <3>1 DEF WithBlock
      <3>. QED  BY <1>2, <1>4, <1>6, <3>2 DEF OnlyOf
    <2>2. ASSUME NEW g \in DOMAIN files', NEW i \in DOMAIN files'[g] PROVE files'[g][i][1] = v
      <3>1. CASE g # f
        BY <1>1, <1>2, <1>4, <2>2, <3>1 DEF OnlyOf
      <3>2. CASE g = f
        BY <2>1, <2>2, <3>2
      <3>. QED  BY <3>1, <3>2
    <2>3. v' = v
      BY <1>1
    <2>. QED  BY <2>2, <2>3 DEF OnlyOf
  <1>10. \A s \in Requests : s # r => req'[s] = req[s]
    BY <1>1 DEF Calm, Base, TypeOK
  <1>11. \A g \in 1..(f - 1) : g \in DOMAIN files' /\ Len(files'[g]) >= Size[v]
    <2>1. \A g \in 1..(f - 1) : g \in DOMAIN files /\ Len(files[g]) >= Size[v]
      BY <1>2 DEF Extracted
    <2>. QED  BY <1>1, <1>4, <2>1 DEF Files
  <1>12. ASSUME NEW s \in Requests, Extracting(s)' PROVE dir' /\ Extracted(req[s])'
    <2>1. CASE s # r
      <3>1. Extracted(req[s]) /\ req'[s] = req[s] /\ Sound(req[s]) /\ req[s] \in Request
            /\ req[s].pc = "extract" /\ (req[s].linked => req[s].file \in DOMAIN files)
        BY <1>2, <1>10, <1>12, <2>1 DEF Extracting, Calm, Base, TypeOK
      <3>2. Size[req[s].version] \in Nat
        BY <3>1, SizeAssumption, MaxVersionAssumption DEF Sound, Request, Version
      <3>3. \A g \in DOMAIN files : Len(files[g]) \in Nat /\ Len(files'[g]) \in Nat
        BY <1>1, LenProperties DEF Calm, Base, FilesAreFiles
      <3>4. \A g \in 1..(req[s].file - 1) :
              g \in DOMAIN files' /\ Len(files'[g]) >= Size[req[s].version]
        BY <1>1, <1>8, <3>1, <3>2, <3>3 DEF Extracted
      <3>5. req[s].block > 0 =>
              req[s].linked /\ Len(files'[req[s].file]) >= req[s].block - 1
        BY <1>1, <1>8, <3>1, <3>3 DEF Extracted, Request
      <3>. QED  BY <1>1, <1>2, <3>1, <3>4, <3>5 DEF Extracted
    <2>2. CASE s = r /\ q1.block = q.block + 1 /\ q1.file = f /\ q1.linked
      <3>1. Len(files'[f]) >= q1.block - 1
        BY <1>6, <1>7, <2>2
      <3>. QED  BY <1>1, <1>2, <1>11, <2>2, <3>1 DEF Extracted
    <2>3. CASE s = r /\ q.block = Size[v] /\ q1.block = 0 /\ q1.file = f + 1
      <3>1. \A g \in 1..(q1.file - 1) : g \in DOMAIN files' /\ Len(files'[g]) >= Size[v]
        <4>1. f \in Nat
          BY <1>1, NFilesAssumption DEF Files
        <4>. QED  BY <1>1, <1>4, <1>7, <1>11, <2>3, <4>1
      <3>. QED  BY <1>1, <1>2, <2>3, <3>1 DEF Extracted
    <2>4. CASE s = r /\ q1.pc = "serve"
      BY <1>12, <2>4 DEF Extracting
    <2>. QED  BY <1>5, <2>1, <2>2, <2>3, <2>4
  <1>13. q1.pc = "extract" => Extracting(r)'
    BY DEF Extracting
  <1>14. q.block = Size[v] /\ f = NFiles => IsReport(v)'
    <2>. SUFFICES ASSUME q.block = Size[v], f = NFiles PROVE IsReport(v)'
      OBVIOUS
    <2>1. DOMAIN files' = Files
      <3>1. DOMAIN files' \subseteq Files
        BY <1>1, <1>2 DEF Calm, Base, TypeOK
      <3>2. \A g \in Files : g \in 1..(f - 1) \/ g = f
        BY NFilesAssumption DEF Files
      <3>. QED  BY <1>1, <1>4, <1>11, <3>1, <3>2
    <2>2. \A g \in Files : Len(files'[g]) >= Size[v]
      <3>1. \A g \in Files : g \in 1..(f - 1) \/ g = f
        BY NFilesAssumption DEF Files
      <3>. QED  BY <1>7, <1>11, <3>1
    <2>3. \A g \in Files : files'[g] = [b \in 1..Size[v] |-> <<v, b>>]
      <3>. SUFFICES ASSUME NEW g \in Files PROVE files'[g] = [b \in 1..Size[v] |-> <<v, b>>]
        OBVIOUS
      <3>1. files'[g] \in Seq(Block) /\ InPlace(files'[g])
        BY <1>1, <2>1 DEF FilesAreFiles, InPlace
      <3>2. \A i \in DOMAIN files'[g] : files'[g][i][1] = v
        BY <1>1, <1>9, <2>1 DEF OnlyOf
      <3>. QED  BY <1>1, <2>2, <3>1, <3>2, WholeFile
    <2>4. files' = [g \in Files |-> files'[g]]
      BY <1>1, <2>1 DEF FilesAreFiles
    <2>. QED  BY <1>1, <1>2, <2>3, <2>4 DEF IsReport
  <1>. QED  BY <1>1, <1>2, <1>5, <1>12, <1>13, <1>14, StaysOrderly

\* The ticker's turn disturbs whoever extracts; nobody else is there.
LEMMA SweepingIsCalm ==
  ASSUME Calm, Sweep
  PROVE  Orderly'
  <1>1. CASE SweepStarts
    <2>1. sweeping' = TRUE /\ doomed' = DOMAIN files /\ UNCHANGED files
      BY <1>1 DEF SweepStarts
    <2>2. \A r \in Requests : ~Extracting(r)'
      BY <2>1 DEF Calm, Disturbs
    <2>. QED  BY <2>1, <2>2, StaysOrderly
  <1>2. ASSUME NEW f \in Files, SweepUnlinks(f) PROVE Orderly'
    <2>1. /\ f \in doomed /\ doomed' = doomed \ {f} /\ UNCHANGED sweeping
          /\ files' = [g \in DOMAIN files \ {f} |-> files[g]]
      BY <1>2 DEF SweepUnlinks
    <2>2. sweeping /\ sweeping'
      BY <2>1 DEF Calm, Base, TypeOK
    <2>3. \A r \in Requests : ~Extracting(r)'
      BY <2>2 DEF Calm, Disturbs
    <2>4. DOMAIN files' \subseteq doomed'
      BY <2>1, <2>2 DEF Calm, Orderly
    <2>. QED  BY <2>2, <2>3, <2>4, StaysOrderly
  <1>3. CASE SweepEnds
    <2>1. /\ sweeping /\ doomed = {} /\ sweeping' = FALSE /\ UNCHANGED <<files, req>>
      BY <1>3 DEF SweepEnds
    <2>2. dir' <=> DOMAIN files # {}
      BY <1>3, Zenon DEF SweepEnds
    <2>3. ~dir' /\ \A r \in Requests : ~Extracting(r)'
      BY <2>1, <2>2 DEF Calm, Orderly, Extracting
    <2>. QED  BY <2>1, <2>3, StaysOrderly
  <1>. QED  BY <1>1, <1>2, <1>3 DEF Sweep

LEMMA RInvNext == RInv /\ [Next]_vars => RInv'
  <1>. SUFFICES ASSUME RInv, [Next]_vars, ~disturbed' PROVE Orderly'
    BY BaseNext DEF RInv
  <1>1. Base /\ Base'
    BY BaseNext DEF RInv
  <1>2. CASE UNCHANGED vars
    <2>1. /\ \A r \in Requests : Extracting(r)' <=> Extracting(r)
          /\ \A r \in Requests : Extracted(req[r])' <=> Extracted(req[r])
          /\ \A r \in Requests : OnlyOf(req[r].version)' <=> OnlyOf(req[r].version)
          /\ \A v \in 1..MaxVersion : IsReport(v)' <=> IsReport(v)
      BY <1>2 DEF vars, Extracting, Extracted, OnlyOf, IsReport
    <2>2. Orderly /\ UNCHANGED <<dir, sweeping, files, doomed>>
      BY <1>2 DEF RInv, vars
    <2>. QED  BY <2>1, <2>2 DEF Orderly
  <1>3. CASE Next
    <2>1. Record
      BY <1>3 DEF Next, PersistStarts, PersistPut, LoadTestGoes, Unshown, Show, Proceed,
         ServeFromBucket, CheckLocal, GetArchive, MakeDir, OpenFile, CopyBlock, ReadFails, Serve,
         Sweep, SweepStarts, SweepUnlinks, SweepEnds
    <2>2. \/ ~dir' /\ \A r \in Requests : ~Extracting(r)'
          \/ ~disturbed /\ ~Disturbs
      BY <2>1, Zenon DEF Record
    <2>3. CASE ~dir' /\ \A r \in Requests : ~Extracting(r)'
      BY <1>1, <2>3 DEF Base, Orderly
    <2>4. CASE ~disturbed /\ ~Disturbs
      <3>1. Calm
        BY <1>1, <2>4 DEF Calm, RInv
      <3>2. CASE PersistStarts \/ PersistPut \/ LoadTestGoes
        <4>1. UNCHANGED <<dir, files, req, sweeping, doomed>>
          BY <3>2 DEF PersistStarts, PersistPut, LoadTestGoes, Unshown
        <4>2. /\ \A r \in Requests : Extracting(r)' <=> Extracting(r)
              /\ \A r \in Requests : Extracted(req[r])' <=> Extracted(req[r])
              /\ \A v \in 1..MaxVersion : IsReport(v)' <=> IsReport(v)
          BY <4>1 DEF Extracting, Extracted, IsReport
        <4>. QED  BY <3>1, <4>1, <4>2, StaysOrderly DEF Calm, Orderly
      <3>3. ASSUME NEW r \in Requests,
                   \/ Show(r) \/ ServeFromBucket(r) \/ CheckLocal(r) \/ GetArchive(r)
                   \/ Serve(r) \/ ReadFails(r)
            PROVE  Orderly'
        <4>1. PICK pc, q : /\ Step(r, pc, q) /\ UNCHANGED <<dir, files>>
                           /\ \/ pc # "extract" /\ q.pc # "extract"
                              \/ pc = "extract" /\ q = Idle
          <5>1. CASE Show(r)
            <6> DEFINE next == [Idle EXCEPT !.pc = IF object.kind = "tar" THEN "check" ELSE "bucket",
                                            !.version = object.version]
            <6>1. next.pc # "extract"
              BY DEF Idle
            <6>2. Step(r, "idle", next) /\ UNCHANGED <<dir, files>>
              BY <5>1, Zenon DEF Show
            <6> HIDE DEF next
            <6>. QED  BY <6>1, <6>2
          <5>2. CASE ServeFromBucket(r) \/ Serve(r)
            BY <5>2 DEF ServeFromBucket, Serve, Idle
          <5>3. CASE CheckLocal(r)
            <6> DEFINE next == [req[r] EXCEPT !.pc = IF dir THEN "serve" ELSE "get"]
            <6>1. next.pc # "extract"
              BY <1>1 DEF Base, TypeOK, Request
            <6>2. Step(r, "check", next) /\ UNCHANGED <<dir, files>>
              BY <5>3, Zenon DEF CheckLocal
            <6> HIDE DEF next
            <6>. QED  BY <6>1, <6>2
          <5>4. CASE GetArchive(r)
            <6> DEFINE next == IF object.version = req[r].version
                               THEN [req[r] EXCEPT !.pc = "mkdir"] ELSE Idle
            <6>1. next.pc # "extract"
              BY <1>1 DEF Base, TypeOK, Request, Idle
            <6>2. Step(r, "get", next) /\ UNCHANGED <<dir, files>>
              BY <5>4, Zenon DEF GetArchive
            <6> HIDE DEF next
            <6>. QED  BY <6>1, <6>2
          <5>5. CASE ReadFails(r)
            BY <5>5 DEF ReadFails, Idle
          <5>. QED  BY <3>3, <5>1, <5>2, <5>3, <5>4, <5>5
        <4>2. /\ req[r].pc = pc /\ req'[r] = q /\ UNCHANGED <<sweeping, doomed>>
              /\ \A s \in Requests : s # r => req'[s] = req[s]
          BY <1>1, <4>1 DEF Step, Base, TypeOK
        <4>3. CASE pc = "extract" /\ q = Idle
          BY <2>4, <4>2, <4>3 DEF Disturbs, Extracting, Idle
        <4>4. CASE pc # "extract" /\ q.pc # "extract"
          BY <3>1, <4>1, <4>2, <4>4, ReadingIsCalm
        <4>. QED  BY <4>1, <4>3, <4>4
      <3>. QED  BY <1>3, <3>1, <3>2, <3>3, OpeningIsCalm, CopyingIsCalm, SweepingIsCalm
                DEF Next, Proceed
    <2>. QED  BY <2>2, <2>3, <2>4
  <1>. QED  BY <1>2, <1>3
-----------------------------------------------------------------------------
(***************************************************************************)
(* The theorems.                                                           *)
(***************************************************************************)

LEMMA RInvCorrect == Spec => []RInv
  <1>. QED  BY RInvInit, RInvNext, PTL DEF Spec

\* Descriptors, directory and ticker keep their types for any number of
\* requests, files and versions; in particular what is written is a block of
\* a version there is, to a file there is.
THEOREM TypeCorrect == Spec => []TypeOK
  <1>1. RInv => TypeOK
    BY DEF RInv, Base
  <1>. QED  BY <1>1, RInvCorrect, PTL

\* A directory that nobody fills or removes is a whole report of one version,
\* unless an extraction was given up, met the ticker or met another version:
\* for any number of requests that filled it at once.
THEOREM QuietIsComplete == Spec => []UndisturbedIsComplete
  <1>1. RInv => UndisturbedIsComplete
    BY DEF RInv, Orderly, UndisturbedIsComplete
  <1>. QED  BY <1>1, RInvCorrect, PTL

\* Requests that extract what others already serve take nothing away from it:
\* they write every block over itself.
THEOREM ServedStays == Spec => ServedNeverShrinks
  <1>1. RInv /\ [Next]_vars =>
          [\A v \in 1..MaxVersion :
             /\ IsReport(v) /\ ~sweeping
             /\ \A r \in Requests : Extracting(r) => req[r].version = v
             => IsReport(v)']_vars
    <2>. SUFFICES ASSUME Base, Next, NEW v \in 1..MaxVersion, IsReport(v), ~sweeping,
                         \A r \in Requests : Extracting(r) => req[r].version = v
                  PROVE  IsReport(v)'
      BY DEF RInv
    <2>1. dir /\ DOMAIN files = Files
          /\ \A f \in Files : files[f] = [b \in 1..Size[v] |-> <<v, b>>]
      BY DEF IsReport
    <2>2. CASE UNCHANGED files /\ dir'
      BY <2>2 DEF IsReport
    <2>3. ASSUME NEW r \in Requests, OpenFile(r) PROVE IsReport(v)'
      <3>1. /\ req[r].file \in Files /\ dir' = dir /\ DOMAIN files' = DOMAIN files \cup {req[r].file}
            /\ \A g \in DOMAIN files : files'[g] = files[g]
            /\ FilesAreFiles'
        BY <2>1, <2>3, OpenFileOpens
      <3>2. files' = files
        BY <2>1, <3>1 DEF FilesAreFiles, Base
      <3>. QED  BY <2>1, <3>1, <3>2 DEF IsReport
    <2>4. ASSUME NEW r \in Requests, CopyBlock(r) PROVE IsReport(v)'
      <3> DEFINE f == req[r].file
                 b == req[r].block
                 blocks == files[f]
                 block == <<v, b>>
      <3>1. /\ req[r].version = v /\ f \in Files /\ b \in 1..Size[v] /\ dir' = dir
            /\ DOMAIN files' = DOMAIN files /\ FilesAreFiles'
            /\ IF req[r].linked
               THEN /\ files'[f] = WriteAt(blocks, b, block)
                    /\ \A g \in DOMAIN files : g # f => files'[g] = files[g]
               ELSE files' = files
        BY <2>4, CopyBlockCopies DEF Extracting
      <3>2. Size[v] \in Nat \ {0}
        BY SizeAssumption
      <3>3. blocks = [i \in 1..Size[v] |-> <<v, i>>]
        BY <2>1, <3>1
      <3>4. Len(blocks) = Size[v]
        BY <3>2, <3>3
      <3>5. WriteAt(blocks, b, block) = [i \in 1..Size[v] |-> IF i = b THEN block ELSE blocks[i]]
        <4> HIDE DEF blocks, b, block
        <4>. QED  BY <3>1, <3>2, <3>4 DEF WriteAt
      <3>6. WriteAt(blocks, b, block) = blocks
        BY <3>3, <3>5
      <3>7. \A g \in Files : files'[g] = files[g]
        BY <2>1, <3>1, <3>6
      <3>8. files' = files
        BY <2>1, <3>1, <3>7 DEF FilesAreFiles, Base
      <3>. QED  BY <2>1, <3>1, <3>8 DEF IsReport
    <2>5. ASSUME NEW f \in Files, SweepUnlinks(f) PROVE FALSE
      BY <2>5 DEF SweepUnlinks, Base, TypeOK
    <2>6. CASE SweepEnds
      BY <2>6 DEF SweepEnds
    <2>7. SweepStarts \/ PersistStarts \/ PersistPut \/ LoadTestGoes => UNCHANGED <<files, dir>>
      BY DEF SweepStarts, PersistStarts, PersistPut, LoadTestGoes, Unshown
    <2>8. \A r \in Requests : Show(r) \/ ServeFromBucket(r) \/ CheckLocal(r) \/ GetArchive(r)
                              \/ MakeDir(r) \/ ReadFails(r) \/ Serve(r)
                                => UNCHANGED files /\ (dir' = dir \/ dir' = TRUE)
      BY DEF Show, ServeFromBucket, CheckLocal, GetArchive, MakeDir, ReadFails, Serve
    <2>. QED  BY <2>1, <2>2, <2>3, <2>4, <2>5, <2>6, <2>7, <2>8 DEF Next, Proceed, Sweep
  <1>. QED  BY <1>1, RInvCorrect, PTL DEF Spec, ServedNeverShrinks
=============================================================================
