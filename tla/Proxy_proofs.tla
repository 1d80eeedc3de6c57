---------------------------- MODULE Proxy_proofs ----------------------------
(***************************************************************************)
(* What holds of concurrent Create requests for any number of them, any    *)
(* test files, any limit and any moves of the controller.                  *)
(***************************************************************************)
EXTENDS Proxy, TLAPS

\* What a request has found is gone as far as the request has got: all of it
\* once it counts, what it need not delete any more before that.
DeletedSoFar ==
  \A r \in Requests :
    /\ pc[r] \in {"idle", "list"} => found[r] = {}
    /\ \A m \in found[r] :
         pc[r] \in {"count", "create"} \/ (pc[r] = "delete" /\ m \notin left[r])
           => tests[m].life = "deleted"

\* It is still gone when the request has created its load test, which is the
\* last thing a request does.
CreatedLast ==
  \A n \in Names : \A r \in tests[n].creator :
    /\ pc[r] = "done"
    /\ \A m \in found[r] : tests[m].life = "deleted"

Inv == TypeOK /\ DeletedSoFar /\ CreatedLast

-----------------------------------------------------------------------------

\* What stands for no load test is well typed and has no creator.
LEMMA DefaultTest ==
  /\ AnyFile \in Files
  /\ \A life \in {"unused", "exists", "deleted"} : NoTest(life) \in Test
  /\ \A life : NoTest(life).creator = {} /\ NoTest(life).life = life
  <1>1. AnyFile \in Files
    BY FilesAssumption DEF AnyFile
  <1>. QED  BY <1>1 DEF NoTest, Test, Phase, Blank

LEMMA InvInit == Init => Inv
  <1> SUFFICES ASSUME Init PROVE Inv
    OBVIOUS
  <1>1. TypeOK
    <2>1. tests \in [Names -> Test]
      BY DefaultTest DEF Init
    <2>2. spec \in [Requests -> [file: Files, overwrite: BOOLEAN]]
      BY DefaultTest DEF Init
    <2>3. faults \in 0..MaxFaults
      BY FaultAssumption DEF Init
    <2>. QED  BY <2>1, <2>2, <2>3 DEF Init, TypeOK, Answers
  <1>2. DeletedSoFar /\ CreatedLast
    BY DefaultTest DEF Init, DeletedSoFar, CreatedLast
  <1>. QED  BY <1>1, <1>2 DEF Inv

\* A request that is answered without having created anything.
LEMMA AnswerKeeps ==
  ASSUME Inv, NEW r \in Requests, NEW a \in Answers, Answer(r, a),
         tests' = tests, UNCHANGED <<spec, removed>>, faults' \in 0..MaxFaults
  PROVE  Inv'
  <1>1. TypeOK'
    BY DEF Inv, TypeOK, Answer
  <1>2. DeletedSoFar' /\ CreatedLast'
    BY DEF Inv, TypeOK, DeletedSoFar, CreatedLast, Answer
  <1>. QED  BY <1>1, <1>2 DEF Inv

\* The same when a load test has been deleted with it.
LEMMA DeletionKeeps ==
  ASSUME Inv, NEW n \in Names, tests' = [tests EXCEPT ![n] = NoTest("deleted")],
         removed' \subseteq Files, faults' \in 0..MaxFaults, UNCHANGED <<spec, found>>,
         \/ UNCHANGED <<pc, left, answer>>
         \/ \E r \in Requests, a \in Answers : Answer(r, a)
  PROVE  Inv'
  <1>1. tests' \in [Names -> Test]
    BY DefaultTest DEF Inv, TypeOK
  <1>2. TypeOK'
    BY <1>1 DEF Inv, TypeOK, Answer
  <1>3. \A m \in Names : /\ tests[m].life = "deleted" => tests'[m].life = "deleted"
                         /\ tests'[m].creator \subseteq tests[m].creator
    BY DefaultTest DEF Inv, TypeOK
  <1>4. \A r \in Requests : found[r] \subseteq Names
    BY DEF Inv, TypeOK
  <1>5. \A m \in Names : tests[m].creator \subseteq Requests
    BY DEF Inv, TypeOK, Test
  <1>6. DeletedSoFar'
    <2>1. \A r \in Requests : pc'[r] \in {pc[r], "done"} /\ (pc'[r] = pc[r] => left'[r] = left[r] \/ pc'[r] = "done")
      BY DEF Inv, TypeOK, Answer
    <2>. QED  BY <1>3, <1>4, <2>1 DEF Inv, DeletedSoFar
  <1>7. CreatedLast'
    <2>1. \A r \in Requests : pc[r] = "done" => pc'[r] = "done"
      BY DEF Inv, TypeOK, Answer
    <2>. QED  BY <1>3, <1>4, <1>5, <2>1 DEF Inv, CreatedLast
  <1>. QED  BY <1>2, <1>6, <1>7 DEF Inv

\* A request goes on to its next call and touches no load test.
LEMMA GotoKeeps ==
  ASSUME Inv, NEW r \in Requests,
         NEW label \in {"list", "delete", "count", "create"}, Goto(r, label),
         pc[r] # "done", UNCHANGED <<tests, removed, faults>>,
         spec' \in [Requests -> [file: Files, overwrite: BOOLEAN]],
         NEW F \in SUBSET Names, NEW L \in SUBSET F,
         found' = [found EXCEPT ![r] = F], left' = [left EXCEPT ![r] = L],
         (label = "delete") = (L # {}),
         label = "list" => F = {},
         label \in {"count", "create"} => \A m \in F : tests[m].life = "deleted",
         label = "delete" => \A m \in F \ L : tests[m].life = "deleted"
  PROVE  Inv'
  <1>1. TypeOK'
    BY DEF Inv, TypeOK, Goto
  <1>2. DeletedSoFar'
    BY DEF Inv, TypeOK, DeletedSoFar, Goto
  <1>3. CreatedLast'
    <2>1. \A m \in Names : tests[m].creator \subseteq Requests \ {r}
      BY DEF Inv, TypeOK, Test, CreatedLast
    <2>. QED  BY <2>1 DEF Inv, TypeOK, CreatedLast, Goto
  <1>. QED  BY <1>1, <1>2, <1>3 DEF Inv

LEMMA FaultType == TypeOK /\ Fault => faults' \in 0..MaxFaults
  BY FaultAssumption DEF TypeOK, Fault

LEMMA InvNext == Inv /\ [Next]_vars => Inv'
  <1> SUFFICES ASSUME Inv, [Next]_vars PROVE Inv'
    OBVIOUS
  <1> USE DEF Inv
  <1>1. ASSUME NEW r \in Requests, Receive(r) PROVE Inv'
    <2>1. CASE Answer(r, "bad") /\ UNCHANGED spec
      BY <1>1, <2>1, AnswerKeeps DEF Receive, Answers, TypeOK
    <2>2. CASE Goto(r, "list") /\ UNCHANGED <<found, left>>
      <3>1. found[r] = {} /\ left[r] = {} /\ pc[r] = "idle"
        BY <1>1 DEF Receive, DeletedSoFar, TypeOK
      <3>2. PICK f \in Files, o \in BOOLEAN :
              spec' = [spec EXCEPT ![r] = [file |-> f, overwrite |-> o]]
        BY <1>1, <2>2 DEF Receive, Goto, Answer, TypeOK
      <3>3. found' = [found EXCEPT ![r] = {}] /\ left' = [left EXCEPT ![r] = {}]
        BY <2>2, <3>1 DEF TypeOK
      <3>4. spec' \in [Requests -> [file: Files, overwrite: BOOLEAN]]
        BY <3>2 DEF TypeOK
      <3>5. UNCHANGED <<tests, removed, faults>>
        BY <1>1 DEF Receive
      <3>. QED  BY <2>2, <3>1, <3>3, <3>4, <3>5, GotoKeeps
    <2>. QED  BY <1>1, <2>1, <2>2 DEF Receive
  <1>2. ASSUME NEW r \in Requests, ListSameFile(r) PROVE Inv'
    <2> DEFINE same == SameFile(spec[r].file)
    <2>0. found[r] = {} /\ left[r] = {} /\ pc[r] = "list" /\ same \subseteq Names
      BY <1>2 DEF ListSameFile, DeletedSoFar, TypeOK, SameFile
    <2>1. CASE Goto(r, "count") /\ UNCHANGED <<found, left>>
      <3>1. found' = [found EXCEPT ![r] = {}] /\ left' = [left EXCEPT ![r] = {}]
        BY <2>0, <2>1 DEF TypeOK
      <3>2. spec' \in [Requests -> [file: Files, overwrite: BOOLEAN]]
            /\ UNCHANGED <<tests, removed, faults>>
        BY <1>2 DEF ListSameFile, TypeOK
      <3>. QED  BY <2>0, <2>1, <3>1, <3>2, GotoKeeps
    <2>2. CASE Answer(r, "exists")
      BY <1>2, <2>2, AnswerKeeps DEF ListSameFile, Answers, TypeOK
    <2>3. CASE /\ same # {} /\ Goto(r, "delete")
               /\ found' = [found EXCEPT ![r] = same] /\ left' = [left EXCEPT ![r] = same]
      <3>1. spec' \in [Requests -> [file: Files, overwrite: BOOLEAN]]
            /\ UNCHANGED <<tests, removed, faults>>
        BY <1>2 DEF ListSameFile, TypeOK
      <3> HIDE DEF same
      <3>. QED  BY <2>0, <2>3, <3>1, GotoKeeps
    <2>. QED  BY <1>2, <2>1, <2>2, <2>3 DEF ListSameFile
  <1>3. ASSUME NEW r \in Requests, DeleteOld(r) PROVE Inv'
    <2>1. PICK n \in Due(left[r]) :
            IF Exists(n)
            THEN LET rest == Remaining(left[r], n) IN
                 /\ tests' = [tests EXCEPT ![n] = NoTest("deleted")]
                 /\ \/ /\ Goto(r, IF rest = {} THEN "count" ELSE "delete")
                       /\ left' = [left EXCEPT ![r] = rest] /\ UNCHANGED faults
                    \/ Fault /\ Answer(r, "error")
            ELSE Answer(r, "gone") /\ UNCHANGED <<tests, faults>>
      BY <1>3 DEF DeleteOld
    <2>2. n \in left[r] /\ n \in Names /\ pc[r] = "delete" /\ UNCHANGED <<spec, found, removed>>
      BY <1>3, <2>1 DEF DeleteOld, Due, TypeOK
    <2>3. CASE ~Exists(n)
      BY <2>1, <2>2, <2>3, AnswerKeeps DEF Answers, TypeOK
    <2>4. CASE Exists(n) /\ Fault /\ Answer(r, "error")
      <3>1. faults' \in 0..MaxFaults
        BY <2>4, FaultType
      <3>2. removed' \subseteq Files
        BY <2>2 DEF TypeOK
      <3>. QED  BY <2>1, <2>2, <2>4, <3>1, <3>2, DeletionKeeps DEF Answers
    <2>5. CASE Exists(n) /\ ~(Fault /\ Answer(r, "error"))
      <3> DEFINE rest == left[r] \ {n}
                 label == IF rest = {} THEN "count" ELSE "delete"
      <3>1. /\ tests' = [tests EXCEPT ![n] = NoTest("deleted")]
            /\ Goto(r, label) /\ left' = [left EXCEPT ![r] = rest] /\ UNCHANGED faults
        BY <2>1, <2>5 DEF Remaining
      <3>2. tests' \in [Names -> Test]
        BY <3>1, DefaultTest DEF TypeOK
      <3>3. TypeOK'
        BY <2>2, <3>1, <3>2 DEF TypeOK, Goto
      <3>4. \A m \in Names : /\ tests[m].life = "deleted" => tests'[m].life = "deleted"
                             /\ tests'[m].creator \subseteq tests[m].creator
        BY <3>1, DefaultTest DEF TypeOK
      <3>5. tests'[n].life = "deleted"
        BY <2>2, <3>1, DefaultTest DEF TypeOK
      <3>6. \A q \in Requests : found[q] \subseteq Names
        BY DEF TypeOK
      <3>7. pc' = [pc EXCEPT ![r] = label]
        BY <3>1 DEF Goto
      <3>8. DeletedSoFar'
        BY <2>2, <3>1, <3>4, <3>5, <3>6, <3>7 DEF DeletedSoFar, TypeOK
      <3>9. CreatedLast'
        <4>1. \A m \in Names : tests'[m].creator \subseteq Requests \ {r}
          BY <2>2, <3>4 DEF TypeOK, Test, CreatedLast
        <4>2. \A q \in Requests \ {r} : pc'[q] = pc[q]
          BY <3>7 DEF TypeOK
        <4>. QED  BY <2>2, <3>4, <3>6, <4>1, <4>2 DEF CreatedLast
      <3>. QED  BY <3>3, <3>8, <3>9
    <2>. QED  BY <2>3, <2>4, <2>5
  <1>4. ASSUME NEW r \in Requests, CountActive(r) PROVE Inv'
    <2>0. pc[r] = "count" /\ left[r] = {} /\ UNCHANGED <<tests, spec, removed, faults>>
      BY <1>4 DEF CountActive, TypeOK
    <2>1. CASE Answer(r, "limit")
      BY <2>0, <2>1, AnswerKeeps DEF Answers, TypeOK
    <2>2. CASE Goto(r, "create") /\ UNCHANGED <<found, left>>
      <3>1. /\ found' = [found EXCEPT ![r] = found[r]] /\ left' = [left EXCEPT ![r] = {}]
            /\ found[r] \subseteq Names /\ spec' \in [Requests -> [file: Files, overwrite: BOOLEAN]]
        BY <2>0, <2>2 DEF TypeOK
      <3>2. \A m \in found[r] : tests[m].life = "deleted"
        BY <2>0 DEF DeletedSoFar
      <3>3. PICK F \in SUBSET Names : F = found[r]
        BY <3>1
      <3>4. found' = [found EXCEPT ![r] = F] /\ \A m \in F : tests[m].life = "deleted"
        BY <3>1, <3>2, <3>3
      <3> HIDE DEF Inv
      <3>. QED  BY <2>0, <2>2, <3>1, <3>4, GotoKeeps
    <2>. QED  BY <1>4, <2>1, <2>2 DEF CountActive
  <1>5. ASSUME NEW r \in Requests, CreateLoadTest(r) PROVE Inv'
    <2>0. pc[r] = "create" /\ UNCHANGED <<spec, removed>>
      BY <1>5 DEF CreateLoadTest
    <2>1. CASE Answer(r, "collision") /\ UNCHANGED <<tests, faults>>
      BY <2>0, <2>1, AnswerKeeps DEF Answers, TypeOK
    <2>2. ASSUME NEW n \in Names, tests[n].life = "unused",
                 tests' = [tests EXCEPT ![n] = [life |-> "exists", file |-> spec[r].file,
                                                phase |-> Blank, creator |-> {r}]],
                 NEW a \in {"created", "error"}, Answer(r, a), faults' \in 0..MaxFaults
          PROVE  Inv'
      <3>1. [life |-> "exists", file |-> spec[r].file, phase |-> Blank, creator |-> {r}] \in Test
        BY DEF Test, TypeOK, Phase
      <3>2. tests' \in [Names -> Test]
        BY <2>2, <3>1 DEF TypeOK
      <3>3. TypeOK'
        BY <2>0, <2>2, <3>2 DEF TypeOK, Answer, Answers
      <3>4. \A m \in Names : /\ tests[m].life = "deleted" => tests'[m].life = "deleted"
                             /\ tests'[m].creator \subseteq tests[m].creator \cup {r}
        BY <2>2 DEF TypeOK
      <3>5. \A q \in Requests : found[q] \subseteq Names
        BY DEF TypeOK
      <3>6. /\ UNCHANGED found /\ pc' = [pc EXCEPT ![r] = "done"]
            /\ left' = [left EXCEPT ![r] = {}]
        BY <2>2 DEF Answer
      <3>7. \A m \in found[r] : tests[m].life = "deleted"
        BY <2>0 DEF DeletedSoFar
      <3>8. DeletedSoFar'
        BY <3>4, <3>5, <3>6 DEF DeletedSoFar, TypeOK
      <3>9. \A m \in Names : tests[m].creator \subseteq Requests
        BY DEF TypeOK, Test
      <3>10. CreatedLast'
        <4>1. \A q \in Requests : pc[q] = "done" => pc'[q] = "done"
          BY <3>6 DEF TypeOK
        <4>2. pc'[r] = "done"
          BY <3>6 DEF TypeOK
        <4>. QED  BY <3>4, <3>5, <3>6, <3>7, <3>9, <4>1, <4>2 DEF CreatedLast
      <3>. QED  BY <3>3, <3>8, <3>10
    <2>3. TypeOK => faults \in 0..MaxFaults
      BY DEF TypeOK
    <2>. QED  BY <1>5, <2>1, <2>2, <2>3, FaultType DEF CreateLoadTest
  <1>6. ASSUME NEW r \in Requests, Fails(r) PROVE Inv'
    BY <1>6, AnswerKeeps, FaultType DEF Fails, Answers
  <1>7. ASSUME NEW n \in Names, PhaseMoves(n) PROVE Inv'
    <2>1. PICK p \in Phase : tests' = [tests EXCEPT ![n].phase = p]
      BY <1>7 DEF PhaseMoves
    <2>2. tests' \in [Names -> Test]
      BY <2>1 DEF TypeOK, Test
    <2>3. \A m \in Names : tests'[m].life = tests[m].life /\ tests'[m].creator = tests[m].creator
      BY <2>1 DEF TypeOK, Test
    <2>4. UNCHANGED <<spec, pc, found, left, answer, removed, faults>>
      BY <1>7 DEF PhaseMoves
    <2>5. TypeOK'
      BY <2>2, <2>4 DEF TypeOK
    <2>6. \A q \in Requests : found[q] \subseteq Names
      BY DEF TypeOK
    <2>7. \A m \in Names : tests[m].creator \subseteq Requests
      BY DEF TypeOK, Test
    <2>. QED  BY <2>3, <2>4, <2>5, <2>6, <2>7 DEF DeletedSoFar, CreatedLast
  <1>8. ASSUME NEW n \in Names, Remove(n) PROVE Inv'
    <2>1. tests[n].file \in Files
      BY DEF TypeOK, Test
    <2>2. removed' \subseteq Files /\ faults' \in 0..MaxFaults
      BY <1>8, <2>1 DEF Remove, TypeOK
    <2>. QED  BY <1>8, <2>2, DeletionKeeps DEF Remove
  <1>9. CASE UNCHANGED vars
    BY <1>9 DEF vars, TypeOK, DeletedSoFar, CreatedLast
  <1>. QED  BY <1>1, <1>2, <1>3, <1>4, <1>5, <1>6, <1>7, <1>8, <1>9 DEF Next, Create

\* The requests keep their types, and only an answered one has anything left
\* undeleted of what it has found.
THEOREM ProxyTypeCorrect == Spec => []TypeOK
  <1>1. Inv => TypeOK
    BY DEF Inv
  <1>. QED  BY <1>1, InvInit, InvNext, PTL DEF Spec

\* Two load tests of one file exist only when neither of the requests that
\* created them had seen the other's.
THEOREM OnlyRacesDuplicate == Spec => []DuplicatesAreRaces
  <1>1. Inv => DuplicatesAreRaces
    BY DEF Inv, CreatedLast, DuplicatesAreRaces, Exists
  <1>. QED  BY <1>1, InvInit, InvNext, PTL DEF Spec
-----------------------------------------------------------------------------
(***************************************************************************)
(* Requests that overwrite one another.  Everybody deletes in the order of *)
(* the names, so one of them is always ahead of every deletion so far and  *)
(* finds its next load test there.                                         *)
(***************************************************************************)

\* What a request has found is a load test of its file, or has been deleted:
\* names are not used again.
FoundIsListed ==
  \A r \in Requests : \A n \in found[r] :
    \/ tests[n].life = "deleted"
    \/ Exists(n) /\ tests[n].file = spec[r].file

\* Who gives up has met a deleted load test, and does no more.
GaveUp ==
  \A r \in Requests : answer[r] = "gone" =>
    pc[r] = "done" /\ \E n \in found[r] : tests[n].life = "deleted"

\* Load tests for file f that requests have listed and that are deleted.
GoneFor(f) == {n \in Names : /\ tests[n].life = "deleted"
                             /\ \E r \in Requests : spec[r].file = f /\ n \in found[r]}

\* s is ahead: what it still has to delete comes after everything deleted.
Leads(s, f) ==
  /\ spec[s].file = f /\ found[s] # {} /\ answer[s] # "gone"
  /\ \A n \in GoneFor(f) : \A m \in left[s] : n < m

Led == \A f \in Files \ removed : GoneFor(f) # {} => \E s \in Requests : Leads(s, f)

WinInv == Inv /\ FoundIsListed /\ GaveUp /\ Led

LEMMA WinInit == Init => WinInv
  <1>. SUFFICES ASSUME Init PROVE WinInv
    OBVIOUS
  <1>1. \A r \in Requests : found[r] = {} /\ answer[r] = "none"
    BY DEF Init
  <1>2. \A f \in Files : GoneFor(f) = {}
    BY <1>1 DEF GoneFor
  <1>. QED  BY <1>1, <1>2, InvInit DEF WinInv, FoundIsListed, GaveUp, Led

\* No step but a deletion deletes, and a step is that of one request or of
\* none: the list, the answer and the file of every other request stay.
OneRequest(r) ==
  \A s \in Requests : s # r =>
    found'[s] = found[s] /\ left'[s] = left[s] /\ answer'[s] = answer[s]
    /\ pc'[s] = pc[s] /\ spec'[s] = spec[s]

NothingDeleted ==
  \A n \in Names : /\ tests'[n].life = "deleted" <=> tests[n].life = "deleted"
                   /\ Exists(n) => Exists(n)' /\ tests'[n].file = tests[n].file

\* A step that deletes nothing and in which nobody gives up: r lists load tests
\* that exist, or has listed them before.
LEMMA QuietStep ==
  ASSUME WinInv, Inv', NEW r \in Requests, OneRequest(r), NothingDeleted,
         answer'[r] = "gone" => answer[r] = "gone" /\ pc'[r] = pc[r],
         removed \subseteq removed',
         \/ found'[r] = found[r] /\ spec'[r] = spec[r] /\ left'[r] \subseteq left[r]
         \/ found[r] = {} /\ \A n \in found'[r] : Exists(n) /\ tests[n].file = spec'[r].file
  PROVE  WinInv'
  <1>1. \A s \in Requests : found[s] \subseteq Names /\ found'[s] \subseteq Names
    BY DEF WinInv, Inv, TypeOK
  <1>2. FoundIsListed'
    <2>1. \A s \in Requests : \A n \in found'[s] :
            tests[n].life = "deleted" \/ (Exists(n) /\ tests[n].file = spec'[s].file)
      BY DEF WinInv, FoundIsListed, OneRequest
    <2>2. \A s \in Requests : \A n \in found'[s] :
            tests'[n].life = "deleted" \/ (Exists(n)' /\ tests'[n].file = spec'[s].file)
      BY <1>1, <2>1 DEF NothingDeleted
    <2>. QED  BY <2>2 DEF FoundIsListed
  <1>3. GaveUp'
    BY <1>1 DEF WinInv, GaveUp, OneRequest, NothingDeleted
  <1>4. Led'
    <2>. SUFFICES ASSUME NEW f \in Files \ removed', GoneFor(f)' # {}
                  PROVE  \E s \in Requests : Leads(s, f)'
      BY DEF Led
    <2>1. \A n \in GoneFor(f)' : n \in GoneFor(f)
      BY DEF GoneFor, OneRequest, NothingDeleted, Exists
    <2>2. PICK s \in Requests : Leads(s, f)
      BY <2>1 DEF WinInv, Led
    <2>3. found'[s] # {} /\ answer'[s] # "gone" /\ spec'[s].file = f /\ left'[s] \subseteq left[s]
      BY <2>2 DEF Leads, OneRequest
    <2>4. Leads(s, f)'
      BY <2>1, <2>2, <2>3 DEF Leads
    <2>. QED  BY <2>4
  <1>. QED  BY <1>2, <1>3, <1>4 DEF WinInv

\* Nothing is deleted and no request takes a step.
LEMMA NobodyMoves ==
  ASSUME WinInv, Inv', NothingDeleted, UNCHANGED <<spec, pc, found, left, answer, removed>>
  PROVE  WinInv'
  <1>1. CASE Requests = {}
    BY <1>1 DEF WinInv, FoundIsListed, GaveUp, Led, GoneFor
  <1>2. ASSUME NEW r \in Requests PROVE WinInv'
    <2>1. OneRequest(r)
      BY DEF OneRequest
    <2>. QED  BY <2>1, QuietStep
  <1>. QED  BY <1>1, <1>2

\* A request deletes the load test that comes first in its list.  If it was
\* not behind the one that leads, it leads now.
LEMMA DeletionWins ==
  ASSUME WinInv, Inv', NEW r \in Requests, OneRequest(r), NEW n \in Due(left[r]),
         Exists(n), tests' = [tests EXCEPT ![n] = NoTest("deleted")],
         left'[r] \subseteq left[r] \ {n}, answer'[r] # "gone", answer[r] # "gone",
         UNCHANGED <<spec, found, removed>>
  PROVE  WinInv'
  <1>1. /\ n \in left[r] /\ left[r] \subseteq found[r] /\ found[r] \subseteq Names
        /\ n \in Names /\ n \in Nat /\ \A m \in left[r] : m \in Nat /\ n <= m
        /\ tests \in [Names -> Test] /\ \A s \in Requests : found[s] \subseteq Names
    BY NameAssumption DEF WinInv, Inv, TypeOK, Due, Names
  <1>2. /\ tests'[n].life = "deleted"
        /\ \A m \in Names : m # n => tests'[m] = tests[m]
    BY <1>1, DefaultTest
  <1>3. FoundIsListed'
    <2>1. \A s \in Requests : \A m \in found[s] :
            tests'[m].life = "deleted" \/ (tests'[m].life = "exists" /\ tests'[m].file = spec[s].file)
      BY <1>1, <1>2 DEF WinInv, FoundIsListed, Exists
    <2>. QED  BY <2>1 DEF FoundIsListed, Exists
  <1>4. GaveUp'
    <2>1. \A m \in Names : tests[m].life = "deleted" => tests'[m].life = "deleted"
      BY <1>2
    <2>. QED  BY <1>1, <2>1 DEF WinInv, GaveUp, OneRequest
  <1>5. Led'
    <2>. SUFFICES ASSUME NEW f \in Files \ removed, GoneFor(f)' # {}
                  PROVE  \E s \in Requests : Leads(s, f)'
      BY DEF Led
    <2>1. CASE spec[r].file # f
      <3>1. n \notin GoneFor(f)'
        <4>1. \A s \in Requests : n \in found[s] => tests[n].file = spec[s].file
          BY <1>1 DEF WinInv, FoundIsListed, Exists
        <4>2. tests[n].file = spec[r].file
          BY <1>1, <4>1
        <4>. QED  BY <2>1, <4>1, <4>2 DEF GoneFor
      <3>2. \A m \in GoneFor(f)' : m \in GoneFor(f)
        BY <1>2, <3>1 DEF GoneFor
      <3>3. PICK s \in Requests : Leads(s, f)
        BY <3>2 DEF WinInv, Led
      <3>4. s # r
        BY <2>1, <3>3 DEF Leads
      <3>5. Leads(s, f)'
        BY <3>2, <3>3, <3>4 DEF Leads, OneRequest
      <3>. QED  BY <3>5
    <2>2. CASE spec[r].file = f
      <3>1. \A m \in GoneFor(f)' : m \in GoneFor(f) \/ m = n
        BY <1>2 DEF GoneFor
      <3>2. \A m \in GoneFor(f) : m \in Nat
        BY NameAssumption DEF GoneFor, Names
      <3>3. CASE \E s \in Requests : Leads(s, f) /\ s # r /\ \A m \in left[s] : n < m
        <4>1. PICK s \in Requests : Leads(s, f) /\ s # r /\ \A m \in left[s] : n < m
          BY <3>3
        <4>2. Leads(s, f)'
          BY <3>1, <4>1 DEF Leads, OneRequest
        <4>. QED  BY <4>2
      <3>4. CASE \A m \in GoneFor(f) : m < n
        <4>1. \A m \in left'[r] : m \in Nat /\ n < m
          BY <1>1
        <4>2. \A k \in GoneFor(f)' : \A m \in left'[r] : k < m
          BY <1>1, <3>1, <3>2, <3>4, <4>1
        <4>3. Leads(r, f)'
          BY <1>1, <2>2, <4>2 DEF Leads
        <4>. QED  BY <4>3
      <3>5. CASE GoneFor(f) # {}
        <4>1. PICK s \in Requests : Leads(s, f)
          BY <3>5 DEF WinInv, Led
        <4>2. \A m \in left[s] : m \in Nat
          BY NameAssumption DEF WinInv, Inv, TypeOK, Names
        <4>3. CASE s = r
          BY <1>1, <3>4, <4>1, <4>3 DEF Leads
        <4>4. CASE s # r /\ \E m \in left[s] : ~(n < m)
          <5>1. PICK m \in left[s] : m \in Nat /\ m <= n
            BY <1>1, <4>2, <4>4
          <5>2. \A k \in GoneFor(f) : k < m
            BY <4>1, <5>1 DEF Leads
          <5>3. \A k \in GoneFor(f) : k < n
            BY <1>1, <3>2, <5>1, <5>2
          <5>. QED  BY <3>4, <5>3
        <4>. QED  BY <3>3, <4>1, <4>3, <4>4
      <3>. QED  BY <3>4, <3>5
    <2>. QED  BY <2>1, <2>2
  <1>. QED  BY <1>3, <1>4, <1>5 DEF WinInv

\* A request that finds its next load test gone does not lead.
LEMMA LosersLose ==
  ASSUME WinInv, Inv', NEW r \in Requests, NEW n \in left[r], ~Exists(n),
         Answer(r, "gone"), UNCHANGED <<tests, spec, removed>>
  PROVE  WinInv'
  <1>1. /\ n \in found[r] /\ n \in Names /\ n \in Nat
        /\ found' = found /\ answer' = [answer EXCEPT ![r] = "gone"]
        /\ left' = [left EXCEPT ![r] = {}] /\ pc' = [pc EXCEPT ![r] = "done"]
        /\ answer \in [Requests -> Answers] /\ left \in [Requests -> SUBSET Names]
        /\ pc \in [Requests -> {"idle", "list", "delete", "count", "create", "done"}]
        /\ spec[r].file \in Files
    BY NameAssumption DEF WinInv, Inv, TypeOK, Names, Answer
  <1>2. tests[n].life = "deleted"
    BY <1>1 DEF WinInv, FoundIsListed
  <1>3. FoundIsListed'
    BY <1>1 DEF WinInv, FoundIsListed, Exists
  <1>4. GaveUp'
    BY <1>1, <1>2 DEF WinInv, GaveUp
  <1>5. Led'
    <2>. SUFFICES ASSUME NEW f \in Files \ removed, GoneFor(f)' # {}
                  PROVE  \E s \in Requests : Leads(s, f)'
      BY DEF Led
    <2>1. GoneFor(f)' = GoneFor(f)
      BY <1>1 DEF GoneFor
    <2>2. PICK s \in Requests : Leads(s, f)
      BY <2>1 DEF WinInv, Led
    <2>3. s # r
      <3>1. SUFFICES ASSUME s = r PROVE FALSE
        OBVIOUS
      <3>2. n \in GoneFor(f)
        BY <1>1, <1>2, <2>2, <3>1 DEF Leads, GoneFor
      <3>. QED  BY <1>1, <2>2, <3>1, <3>2 DEF Leads
    <2>4. Leads(s, f)'
      BY <1>1, <2>1, <2>2, <2>3 DEF Leads
    <2>. QED  BY <2>4
  <1>. QED  BY <1>3, <1>4, <1>5 DEF WinInv

\* Somebody else removes a load test: its file is out of the game.
LEMMA RemovalKeepsWin ==
  ASSUME WinInv, Inv', NEW n \in Names, Remove(n)
  PROVE  WinInv'
  <1>1. /\ Exists(n) /\ removed' = removed \cup {tests[n].file}
        /\ UNCHANGED <<spec, pc, found, left, answer>>
        /\ tests' = [tests EXCEPT ![n] = NoTest("deleted")]
        /\ tests \in [Names -> Test] /\ \A s \in Requests : found[s] \subseteq Names
    BY DEF Remove, WinInv, Inv, TypeOK
  <1>2. /\ tests'[n].life = "deleted"
        /\ \A m \in Names : m # n => tests'[m] = tests[m]
    BY <1>1, DefaultTest
  <1>3. FoundIsListed'
    <2>1. \A s \in Requests : \A m \in found[s] :
            tests'[m].life = "deleted" \/ (tests'[m].life = "exists" /\ tests'[m].file = spec[s].file)
      BY <1>1, <1>2 DEF WinInv, FoundIsListed, Exists
    <2>. QED  BY <1>1, <2>1 DEF FoundIsListed, Exists
  <1>4. GaveUp'
    <2>1. \A m \in Names : tests[m].life = "deleted" => tests'[m].life = "deleted"
      BY <1>2
    <2>. QED  BY <1>1, <2>1 DEF WinInv, GaveUp
  <1>5. Led'
    <2>. SUFFICES ASSUME NEW f \in Files \ removed', GoneFor(f)' # {}
                  PROVE  \E s \in Requests : Leads(s, f)'
      BY DEF Led
    <2>1. n \notin GoneFor(f)'
      BY <1>1 DEF WinInv, FoundIsListed, GoneFor, Exists
    <2>2. \A m \in GoneFor(f)' : m \in GoneFor(f)
      BY <1>1, <1>2, <2>1 DEF GoneFor
    <2>3. f \in Files \ removed
      BY <1>1
    <2>4. PICK s \in Requests : Leads(s, f)
      BY <2>2, <2>3 DEF WinInv, Led
    <2>5. Leads(s, f)'
      BY <1>1, <2>2, <2>4 DEF Leads
    <2>. QED  BY <2>5
  <1>. QED  BY <1>3, <1>4, <1>5 DEF WinInv

LEMMA WinNext == WinInv /\ [Next]_vars => WinInv'
  <1>. SUFFICES ASSUME WinInv, [Next]_vars PROVE WinInv'
    OBVIOUS
  <1>0. Inv /\ Inv' /\ TypeOK
    BY InvNext DEF WinInv, Inv
  <1>1. ASSUME NEW r \in Requests, tests' = tests, UNCHANGED <<spec, removed>>,
               NEW a \in Answers \ {"gone"}, Answer(r, a)
        PROVE  WinInv'
    <2>1. OneRequest(r) /\ NothingDeleted
      BY <1>0, <1>1 DEF OneRequest, NothingDeleted, Exists, TypeOK, Answer
    <2>2. /\ found'[r] = found[r] /\ spec'[r] = spec[r] /\ left'[r] = {}
          /\ answer'[r] # "gone"
      BY <1>0, <1>1 DEF TypeOK, Answer
    <2>. QED  BY <1>0, <1>1, <2>1, <2>2, QuietStep
  <1>2. ASSUME NEW r \in Requests, Receive(r) PROVE WinInv'
    <2>1. found[r] = {} /\ UNCHANGED <<tests, removed>>
      BY <1>0, <1>2 DEF Receive, Inv, DeletedSoFar
    <2>2. CASE Answer(r, "bad") /\ UNCHANGED spec
      BY <1>1, <2>1, <2>2 DEF Answers
    <2>3. CASE Goto(r, "list") /\ UNCHANGED <<found, left>>
      <3>1. \A s \in Requests : s # r => spec'[s] = spec[s]
        BY <1>0, <1>2, <2>3 DEF Receive, TypeOK, Goto, Answer
      <3>2. OneRequest(r) /\ NothingDeleted
        BY <1>0, <2>1, <2>3, <3>1 DEF OneRequest, NothingDeleted, Exists, TypeOK, Goto
      <3>3. answer[r] # "gone" /\ UNCHANGED answer
        BY <1>2, <2>3 DEF Receive, WinInv, GaveUp, Goto
      <3>. QED  BY <1>0, <2>1, <2>3, <3>2, <3>3, QuietStep
    <2>. QED  BY <1>2, <2>2, <2>3 DEF Receive
  <1>3. ASSUME NEW r \in Requests, ListSameFile(r) PROVE WinInv'
    <2> DEFINE same == SameFile(spec[r].file)
    <2>1. found[r] = {} /\ UNCHANGED <<tests, spec, removed>> /\ left[r] = {}
      BY <1>0, <1>3 DEF ListSameFile, Inv, DeletedSoFar, TypeOK
    <2>2. CASE Answer(r, "exists")
      BY <1>1, <2>1, <2>2 DEF Answers
    <2>3. ASSUME NEW label \in {"count", "delete"}, Goto(r, label),
                 NEW F \in SUBSET same, found' = [found EXCEPT ![r] = F],
                 left' = [left EXCEPT ![r] = F]
          PROVE  WinInv'
      <3>1. OneRequest(r) /\ NothingDeleted
        BY <1>0, <2>1, <2>3 DEF OneRequest, NothingDeleted, Exists, TypeOK, Goto
      <3>2. \A n \in found'[r] : Exists(n) /\ tests[n].file = spec'[r].file
        BY <1>0, <2>1, <2>3 DEF SameFile, TypeOK
      <3>3. answer[r] # "gone" /\ UNCHANGED answer
        BY <1>3, <2>3 DEF ListSameFile, WinInv, GaveUp, Goto
      <3>. QED  BY <1>0, <2>1, <3>1, <3>2, <3>3, QuietStep
    <2>4. CASE Goto(r, "count") /\ UNCHANGED <<found, left>>
      <3>1. found' = [found EXCEPT ![r] = {}] /\ left' = [left EXCEPT ![r] = {}]
        BY <1>0, <2>1, <2>4 DEF TypeOK
      <3>. QED  BY <2>3, <2>4, <3>1
    <2>5. CASE /\ Goto(r, "delete")
               /\ found' = [found EXCEPT ![r] = same] /\ left' = [left EXCEPT ![r] = same]
      BY <2>3, <2>5
    <2>. QED  BY <1>3, <2>2, <2>4, <2>5 DEF ListSameFile
  <1>4. ASSUME NEW r \in Requests, DeleteOld(r) PROVE WinInv'
    <2>1. PICK n \in Due(left[r]) :
            IF Exists(n)
            THEN LET rest == Remaining(left[r], n) IN
                 /\ tests' = [tests EXCEPT ![n] = NoTest("deleted")]
                 /\ \/ /\ Goto(r, IF rest = {} THEN "count" ELSE "delete")
                       /\ left' = [left EXCEPT ![r] = rest] /\ UNCHANGED faults
                    \/ Fault /\ Answer(r, "error")
            ELSE Answer(r, "gone") /\ UNCHANGED <<tests, faults>>
      BY <1>4 DEF DeleteOld
    <2>2. n \in left[r] /\ pc[r] = "delete" /\ UNCHANGED <<spec, found, removed>>
      BY <1>4, <2>1 DEF DeleteOld, Due
    <2>3. CASE ~Exists(n)
      BY <1>0, <2>1, <2>2, <2>3, LosersLose
    <2>4. CASE Exists(n)
      <3>1. tests' = [tests EXCEPT ![n] = NoTest("deleted")]
        BY <2>1, <2>4
      <3>2. /\ OneRequest(r) /\ left'[r] \subseteq left[r] \ {n}
            /\ answer[r] # "gone" /\ answer'[r] # "gone"
        <4>1. CASE Answer(r, "error")
          BY <1>0, <2>2, <4>1 DEF OneRequest, Answer, TypeOK, WinInv, GaveUp
        <4>2. CASE /\ UNCHANGED answer /\ left' = [left EXCEPT ![r] = left[r] \ {n}]
                   /\ \E label : pc' = [pc EXCEPT ![r] = label]
          BY <1>0, <2>2, <4>2 DEF OneRequest, TypeOK, WinInv, GaveUp
        <4>. QED  BY <2>1, <2>4, <4>1, <4>2 DEF Goto, Remaining
      <3>. QED  BY <1>0, <2>1, <2>2, <2>4, <3>1, <3>2, DeletionWins
    <2>. QED  BY <2>3, <2>4
  <1>5. ASSUME NEW r \in Requests, CountActive(r) PROVE WinInv'
    <2>0. pc[r] = "count" /\ UNCHANGED <<tests, spec, removed>>
      BY <1>5 DEF CountActive
    <2>1. CASE Answer(r, "limit")
      BY <1>1, <2>0, <2>1 DEF Answers
    <2>2. CASE Goto(r, "create") /\ UNCHANGED <<found, left>>
      <3>1. OneRequest(r) /\ NothingDeleted /\ UNCHANGED answer
        BY <1>0, <2>0, <2>2 DEF OneRequest, NothingDeleted, Exists, TypeOK, Goto
      <3>2. answer[r] # "gone"
        BY <2>0 DEF WinInv, GaveUp
      <3>. QED  BY <1>0, <2>0, <2>2, <3>1, <3>2, QuietStep
    <2>. QED  BY <1>5, <2>1, <2>2 DEF CountActive
  <1>6. ASSUME NEW r \in Requests, CreateLoadTest(r) PROVE WinInv'
    <2>0. pc[r] = "create" /\ UNCHANGED <<spec, removed>>
      BY <1>6 DEF CreateLoadTest
    <2>1. CASE Answer(r, "collision") /\ UNCHANGED tests
      BY <1>1, <2>0, <2>1 DEF Answers
    <2>2. ASSUME NEW n \in Names, tests[n].life = "unused",
                 tests' = [tests EXCEPT ![n] = [life |-> "exists", file |-> spec[r].file,
                                                phase |-> Blank, creator |-> {r}]],
                 NEW a \in {"created", "error"}, Answer(r, a)
          PROVE  WinInv'
      <3>1. NothingDeleted
        BY <1>0, <2>2 DEF NothingDeleted, Exists, TypeOK
      <3>2. OneRequest(r)
        BY <1>0, <2>0, <2>2 DEF OneRequest, TypeOK, Answer
      <3>3. /\ found'[r] = found[r] /\ spec'[r] = spec[r] /\ left'[r] = {}
            /\ answer'[r] # "gone"
        BY <1>0, <2>0, <2>2 DEF TypeOK, Answer
      <3>. QED  BY <1>0, <2>0, <3>1, <3>2, <3>3, QuietStep
    <2>. QED  BY <1>6, <2>1, <2>2 DEF CreateLoadTest
  <1>7. ASSUME NEW r \in Requests, Fails(r) PROVE WinInv'
    BY <1>1, <1>7 DEF Fails, Answers
  <1>8. ASSUME NEW n \in Names, PhaseMoves(n) PROVE WinInv'
    <2>1. PICK p \in Phase : tests' = [tests EXCEPT ![n].phase = p]
      BY <1>8 DEF PhaseMoves
    <2>2. NothingDeleted
      BY <1>0, <2>1 DEF NothingDeleted, Exists, TypeOK, Test
    <2>. QED  BY <1>0, <1>8, <2>2, NobodyMoves DEF PhaseMoves
  <1>9. ASSUME NEW n \in Names, Remove(n) PROVE WinInv'
    BY <1>0, <1>9, RemovalKeepsWin
  <1>10. CASE UNCHANGED vars
    <2>1. NothingDeleted
      BY <1>10 DEF vars, NothingDeleted, Exists
    <2>. QED  BY <1>0, <1>10, <2>1, NobodyMoves DEF vars
  <1>. QED  BY <1>2, <1>3, <1>4, <1>5, <1>6, <1>7, <1>8, <1>9, <1>10 DEF Next, Create

\* However many requests overwrite one another, whatever they listed and
\* whichever of them fail: not all of them give up, since one leads.
THEOREM OverwriteIsDecided == Spec => []SomeOverwriterWins
  <1>1. WinInv => SomeOverwriterWins
    <2>. SUFFICES ASSUME WinInv, NEW r \in Requests, answer[r] = "gone",
                         spec[r].file \notin removed
                  PROVE  \E s \in Requests :
                           spec[s].file = spec[r].file /\ found[s] # {} /\ answer[s] # "gone"
      BY DEF SomeOverwriterWins
    <2>1. spec[r].file \in Files /\ found[r] \subseteq Names
      BY DEF WinInv, Inv, TypeOK
    <2>2. GoneFor(spec[r].file) # {}
      BY <2>1 DEF WinInv, GaveUp, GoneFor
    <2>. QED  BY <2>1, <2>2 DEF WinInv, Led, Leads
  <1>. QED  BY <1>1, WinInit, WinNext, PTL DEF Spec

=============================================================================
