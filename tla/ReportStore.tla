---------------------------- MODULE ReportStore ----------------------------
(***************************************************************************)
(* The report of one load test in one proxy: the object in the bucket,     *)
(* which pods replace through PersistHandler, and the directory below the  *)
(* proxy's temporary one that concurrent ShowHandler requests extract it   *)
(* to and serve it from, while a ticker removes that directory.            *)
(*                                                                         *)
(* An archive is one directory entry, "./", and the same files in every    *)
(* version; version v of each file is Size[v] blocks, where a block is     *)
(* what one Write of io.Copy puts at the descriptor's offset.  Block b of  *)
(* version v is <<v, b>>.                                                  *)
(***************************************************************************)
EXTENDS Integers, Sequences

CONSTANTS
  Requests,    \* requests to ShowHandler that may be under way at once
  NFiles,      \* files of an archive, in its order
  MaxVersion,  \* bound: how often the object is replaced
  Size         \* blocks of a file, by version

ASSUME NFilesAssumption     == NFiles \in Nat \ {0}
ASSUME MaxVersionAssumption == MaxVersion \in Nat \ {0}
ASSUME SizeAssumption       == Size \in [1..MaxVersion -> Nat \ {0}]

VARIABLES
  loadTest,   \* the LoadTest exists
  uploading,  \* PersistHandler requests between GetLoadTest and the PUT
  object,     \* the object called like the load test: its kind and version
  dir,        \* the directory exists
  files,      \* its files: their blocks, by name
  req,        \* the ShowHandler requests
  sweeping,   \* os.RemoveAll is at work
  doomed,     \* the names it has listed and not unlinked yet
  disturbed   \* history: the directory may be partial, see Disturbs

bucketVars == <<loadTest, uploading, object>>
vars == <<bucketVars, dir, files, req, sweeping, doomed, disturbed>>

Files   == 1..NFiles
Version == 0..MaxVersion
Kind    == {"none", "page", "tar"}

\* A request: its step, the version it has found, the file it writes, the
\* next block of it (0: not open), and whether that file still has its name.
Request == [pc: {"idle", "bucket", "check", "get", "mkdir", "extract", "serve"},
            version: Version, file: 0..NFiles, block: Nat, linked: BOOLEAN]
Idle    == [pc |-> "idle", version |-> 0, file |-> 0, block |-> 0, linked |-> FALSE]

Hole  == <<0, 0>>
Block == {Hole} \cup {vb \in Version \X Nat : vb[1] > 0 /\ vb[2] \in 1..Size[vb[1]]}

TypeOK ==
  /\ loadTest \in BOOLEAN /\ uploading \in 0..MaxVersion
  /\ object \in [kind: Kind, version: Version]
  /\ object.version + uploading <= MaxVersion
  /\ dir \in BOOLEAN
  /\ DOMAIN files \subseteq (IF dir THEN Files ELSE {})
  /\ \A f \in DOMAIN files : files[f] \in Seq(Block)
  /\ req \in [Requests -> Request]
  /\ \A r \in Requests : req[r].linked => req[r].file \in DOMAIN files
  /\ sweeping \in BOOLEAN /\ doomed \subseteq Files /\ (doomed # {} => sweeping)
  /\ disturbed \in BOOLEAN

Init ==
  /\ loadTest = TRUE /\ uploading = 0
  /\ object = [kind |-> "none", version |-> 0]
  /\ dir = FALSE /\ files = <<>>
  /\ req = [r \in Requests |-> Idle]
  /\ sweeping = FALSE /\ doomed = {} /\ disturbed = FALSE

Extracting(r) == req[r].pc = "extract"

\* What may leave a directory partial for good: an extraction that gives up,
\* one that the ticker overlaps, and one of another version than what is there.
Disturbs ==
  \/ \E r \in Requests : Extracting(r) /\ req'[r].pc = "idle"
  \/ \E r \in Requests : Extracting(r)' /\
       \/ sweeping'
       \/ \E f \in DOMAIN files' : \E i \in DOMAIN files'[f] :
            files'[f][i][1] # req'[r].version

\* The last conjunct of every action.
Record ==
  disturbed' = ((dir' \/ \E r \in Requests : Extracting(r)') /\ (disturbed \/ Disturbs))
-----------------------------------------------------------------------------
(***************************************************************************)
(* PersistHandler.  The bucket shows an object once its PUT is complete.   *)
(* Several pods, or a pod of a job that is retried, may PUT one after the  *)
(* other.                                                                  *)
(***************************************************************************)

Unshown == UNCHANGED <<dir, files, req, sweeping, doomed>> /\ Record

\* GetLoadTest has found it; any other answer leaves everything alone.
PersistStarts ==
  /\ loadTest /\ object.version + uploading < MaxVersion
  /\ uploading' = uploading + 1
  /\ UNCHANGED <<loadTest, object>> /\ Unshown

\* The PUT to the pre-signed URL, which takes effect or fails.
PersistPut ==
  /\ uploading > 0 /\ uploading' = uploading - 1
  /\ \/ \E k \in {"page", "tar"} : object' = [kind |-> k, version |-> object.version + 1]
     \/ UNCHANGED object
  /\ UNCHANGED loadTest /\ Unshown

\* The load test is deleted; its report stays.
LoadTestGoes == loadTest /\ loadTest' = FALSE /\ UNCHANGED <<uploading, object>> /\ Unshown
-----------------------------------------------------------------------------
(***************************************************************************)
(* ShowHandler.  At any step until it serves, a request may fail, or its   *)
(* client may go, which cancels the reading.                               *)
(***************************************************************************)

Step(r, pc, next) ==
  /\ req[r].pc = pc /\ req' = [req EXCEPT ![r] = next]
  /\ UNCHANGED <<bucketVars, sweeping, doomed>>

\* GetObject and Stat.  What is not an archive is answered from the bucket.
Show(r) ==
  /\ Step(r, "idle", [Idle EXCEPT !.pc = IF object.kind = "tar" THEN "check" ELSE "bucket",
                                  !.version = object.version])
  /\ UNCHANGED <<dir, files>> /\ Record

\* The file server of the bucket, or ServeContent.
ServeFromBucket(r) == Step(r, "bucket", Idle) /\ UNCHANGED <<dir, files>> /\ Record

\* untar: what is there is taken for a whole report.
CheckLocal(r) ==
  /\ Step(r, "check", [req[r] EXCEPT !.pc = IF dir THEN "serve" ELSE "get"])
  /\ UNCHANGED <<dir, files>> /\ Record

\* The first Read asks for the version that Stat has seen, and fails if the
\* object has been replaced.
GetArchive(r) ==
  /\ Step(r, "get", IF object.version = req[r].version
                    THEN [req[r] EXCEPT !.pc = "mkdir"] ELSE Idle)
  /\ UNCHANGED <<dir, files>> /\ Record

MakeDir(r) ==
  /\ Step(r, "mkdir", [req[r] EXCEPT !.pc = "extract", !.file = 1])
  /\ dir' = TRUE /\ UNCHANGED files /\ Record

\* Mutant: O_TRUNC.
Opened_Truncated(blocks) == <<>>

\* OpenFile with O_CREATE and O_RDWR only.
Opened(blocks) == blocks

\* Mutant: a file can be created without its directory, as in the MemMapFs
\* that the unit test extracts to.
CanCreate_InMemory == TRUE

CanCreate == dir

OpenFile(r) ==
  /\ req[r].block = 0
  /\ LET f == req[r].file IN
     IF CanCreate
     THEN /\ Step(r, "extract", [req[r] EXCEPT !.block = 1, !.linked = TRUE])
          /\ files' = [g \in DOMAIN files \cup {f} |->
                          IF g # f THEN files[g]
                          ELSE IF f \in DOMAIN files THEN Opened(files[f]) ELSE <<>>]
     ELSE Step(r, "extract", Idle) /\ UNCHANGED files
  /\ UNCHANGED dir /\ Record

\* Mutant: O_APPEND.
WriteAt_Append(blocks, b, block) == Append(blocks, block)

\* One Write at the descriptor's own offset.
WriteAt(blocks, b, block) ==
  [i \in 1..(IF b > Len(blocks) THEN b ELSE Len(blocks)) |->
     IF i = b THEN block ELSE IF i <= Len(blocks) THEN blocks[i] ELSE Hole]

\* io.Copy, and Close after the last block.  After the last file, the end of
\* the archive.
CopyBlock(r) ==
  LET q == req[r]
      last == q.block = Size[q.version] IN
  /\ q.block > 0
  /\ Step(r, "extract",
          IF ~last THEN [q EXCEPT !.block = @ + 1]
          ELSE IF q.file < NFiles
          THEN [q EXCEPT !.file = @ + 1, !.block = 0, !.linked = FALSE]
          ELSE [q EXCEPT !.pc = "serve", !.block = 0, !.linked = FALSE])
  /\ files' = IF q.linked
              THEN [files EXCEPT ![q.file] = WriteAt(@, q.block, <<q.version, q.block>>)]
              ELSE files
  /\ UNCHANGED dir /\ Record

\* A fault or the end of the client, while there is something left to read.
ReadFails(r) ==
  /\ req[r].pc \in {"get", "extract"} /\ Step(r, req[r].pc, Idle)
  /\ UNCHANGED <<dir, files>> /\ Record

\* The file server of the directory.
Serve(r) == Step(r, "serve", Idle) /\ UNCHANGED <<dir, files>> /\ Record
-----------------------------------------------------------------------------
(***************************************************************************)
(* The ticker: os.RemoveAll lists the directory, unlinks what it has       *)
(* listed, and removes the directory if it is empty then.                  *)
(***************************************************************************)

\* Mutant: os.Remove, which takes no directory that is in use.
SweepList_Remove == dir /\ ~sweeping /\ files = <<>>

SweepList == dir /\ ~sweeping

SweepStarts ==
  /\ SweepList /\ sweeping' = TRUE /\ doomed' = DOMAIN files
  /\ UNCHANGED <<bucketVars, dir, files, req>> /\ Record

SweepUnlinks(f) ==
  /\ f \in doomed /\ doomed' = doomed \ {f}
  /\ files' = [g \in DOMAIN files \ {f} |-> files[g]]
  /\ req' = [r \in Requests |->
               IF req[r].file = f THEN [req[r] EXCEPT !.linked = FALSE] ELSE req[r]]
  /\ UNCHANGED <<bucketVars, dir, sweeping>> /\ Record

SweepEnds ==
  /\ sweeping /\ doomed = {} /\ sweeping' = FALSE
  /\ dir' = (DOMAIN files # {})
  /\ UNCHANGED <<bucketVars, files, req, doomed>> /\ Record

Sweep == SweepStarts \/ (\E f \in Files : SweepUnlinks(f)) \/ SweepEnds
-----------------------------------------------------------------------------
Proceed(r) ==
  \/ ServeFromBucket(r) \/ CheckLocal(r) \/ GetArchive(r) \/ MakeDir(r)
  \/ OpenFile(r) \/ CopyBlock(r) \/ Serve(r)

Next ==
  \/ PersistStarts \/ PersistPut \/ LoadTestGoes
  \/ \E r \in Requests : Show(r) \/ Proceed(r) \/ ReadFails(r)
  \/ Sweep

\* Handlers and the ticker's goroutine are scheduled, and the bucket answers
\* or fails.
Fairness == WF_vars(Sweep) /\ \A r \in Requests : WF_vars(Proceed(r))

Spec == Init /\ [][Next]_vars /\ Fairness
-----------------------------------------------------------------------------
(***************************************************************************)
(* Properties.                                                             *)
(***************************************************************************)

IsReport(v) ==
  dir /\ files = [f \in Files |-> [b \in 1..Size[v] |-> <<v, b>>]]

\* handler.go: "means its already exists locally".  A directory that nobody
\* fills or removes is a whole report of one version, however many requests
\* have filled it at once, unless one of the things listed by Disturbs came
\* between.
UndisturbedIsComplete ==
  dir /\ ~sweeping /\ ~disturbed /\ (\A r \in Requests : ~Extracting(r)) =>
    \E v \in 1..MaxVersion : IsReport(v)

\* A request that has found no directory may extract while others already
\* serve: it never takes anything away from a report of its own version.
ServedNeverShrinks ==
  [][\A v \in 1..MaxVersion :
       /\ IsReport(v) /\ ~sweeping
       /\ \A r \in Requests : Extracting(r) => req[r].version = v
       => IsReport(v)']_vars

\* Once the report has been replaced for the last time, nothing of an older
\* one is shown for ever: the ticker is the only thing that makes it go.
StaleReportGoes ==
  <>[](\A f \in DOMAIN files : \A i \in DOMAIN files[f] :
         files[f][i][1] = object.version)
=============================================================================
