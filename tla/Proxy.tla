------------------------------- MODULE Proxy -------------------------------
(***************************************************************************)
(* Concurrent POST /load-test requests, handled by any number of replicas  *)
(* of the proxy: each looks for load tests with the same test file,        *)
(* deletes them when it may overwrite, counts the active load tests and    *)
(* creates its own.  Every call to the API server is a step of its own.    *)
(* Meanwhile the controller moves the phases of the load tests, and        *)
(* DELETE requests and its clean-up remove some.                           *)
(***************************************************************************)
EXTENDS LoadTestPhases, FiniteSets

CONSTANTS
  Requests,      \* the POST requests
  Files,         \* test files, by their hash
  NameCount,     \* names that can be drawn, numbered as the API server sorts them
  MaxLoadTests,  \* --max-load-tests
  Moves,         \* pairs of phases the controller may write one after the other
  MaxFaults      \* failing calls and requests cut off

ASSUME FilesAssumption == Files # {}
ASSUME NameAssumption  == NameCount \in Nat
ASSUME LimitAssumption == MaxLoadTests \in Nat
ASSUME MovesAssumption == Moves \subseteq Phase \X Phase
ASSUME FaultAssumption == MaxFaults \in Nat

Names == 1..NameCount

VARIABLES
  tests,    \* the load test of each name
  spec,     \* of each request: the file, and whether it overwrites
  pc,       \* the call each request makes next
  found,    \* load tests with the same file that the request has listed
  left,     \* those of them it still has to delete
  answer,   \* the HTTP answer of each request
  removed,  \* files a load test of which was removed by others than Create
  faults

vars == <<tests, spec, pc, found, left, answer, removed, faults>>

AnyFile == CHOOSE f \in Files : TRUE

\* creator is history: the request that created the load test.
Test == [life: {"unused", "exists", "deleted"}, file: Files, phase: Phase,
         creator: SUBSET Requests]

NoTest(life) == [life |-> life, file |-> AnyFile, phase |-> Blank, creator |-> {}]

Exists(n) == tests[n].life = "exists"

Answers == {"none", "bad", "exists", "gone", "limit", "collision", "error", "created"}

TypeOK ==
  /\ tests \in [Names -> Test]
  /\ spec \in [Requests -> [file: Files, overwrite: BOOLEAN]]
  /\ pc \in [Requests -> {"idle", "list", "delete", "count", "create", "done"}]
  /\ found \in [Requests -> SUBSET Names] /\ left \in [Requests -> SUBSET Names]
  /\ answer \in [Requests -> Answers]
  /\ removed \subseteq Files /\ faults \in 0..MaxFaults
  /\ \A r \in Requests : /\ left[r] \subseteq found[r]
                         /\ (pc[r] = "delete") = (left[r] # {})

Init ==
  /\ tests = [n \in Names |-> NoTest("unused")]
  /\ spec = [r \in Requests |-> [file |-> AnyFile, overwrite |-> FALSE]]
  /\ pc = [r \in Requests |-> "idle"]
  /\ found = [r \in Requests |-> {}] /\ left = [r \in Requests |-> {}]
  /\ answer = [r \in Requests |-> "none"]
  /\ removed = {} /\ faults = 0
-----------------------------------------------------------------------------
(***************************************************************************)
(* The calls of Create.                                                    *)
(***************************************************************************)

Fault == faults < MaxFaults /\ faults' = faults + 1

Goto(r, label) == pc' = [pc EXCEPT ![r] = label] /\ UNCHANGED answer

\* Mutant: an answered request still has load tests to delete.
Answer_KeepsLeft(r, a) ==
  /\ pc' = [pc EXCEPT ![r] = "done"] /\ answer' = [answer EXCEPT ![r] = a]
  /\ UNCHANGED <<left, found>>

\* The request is answered; what it has found is kept as history.
Answer(r, a) ==
  /\ pc' = [pc EXCEPT ![r] = "done"] /\ answer' = [answer EXCEPT ![r] = a]
  /\ left' = [left EXCEPT ![r] = {}] /\ UNCHANGED found

\* The form is parsed into a spec, or refused.
Receive(r) ==
  /\ pc[r] = "idle"
  /\ \/ /\ \E f \in Files, o \in BOOLEAN :
             spec' = [spec EXCEPT ![r] = [file |-> f, overwrite |-> o]]
        /\ Goto(r, "list") /\ UNCHANGED <<found, left>>
     \/ Answer(r, "bad") /\ UNCHANGED spec
  /\ UNCHANGED <<tests, removed, faults>>

\* GetLoadTestsByLabel: the label is the hash of the test file.
SameFile(f) == {n \in Names : Exists(n) /\ tests[n].file = f}

ListSameFile(r) ==
  LET same == SameFile(spec[r].file) IN
  /\ pc[r] = "list"
  /\ \/ /\ same = {}
        /\ Goto(r, "count") /\ UNCHANGED <<found, left>>
     \/ /\ same # {} /\ ~spec[r].overwrite
        /\ Answer(r, "exists")
     \/ /\ same # {} /\ spec[r].overwrite
        /\ Goto(r, "delete")
        /\ found' = [found EXCEPT ![r] = same] /\ left' = [left EXCEPT ![r] = same]
  /\ UNCHANGED <<tests, spec, removed, faults>>

\* Mutant: the list is kept in a map.
Due_AnyOrder(items) == items

\* The list is sorted by name, and is worked off in that order.
Due(items) == {n \in items : \A m \in items : n <= m}

\* Mutant: only the first one is deleted.
Remaining_None(items, n) == {}

Remaining(items, n) == items \ {n}

\* DeleteLoadTest; a load test that is gone already ends the request.
DeleteOld(r) ==
  /\ pc[r] = "delete"
  /\ \E n \in Due(left[r]) :
       IF Exists(n)
       THEN LET rest == Remaining(left[r], n) IN
            /\ tests' = [tests EXCEPT ![n] = NoTest("deleted")]
            /\ \/ /\ Goto(r, IF rest = {} THEN "count" ELSE "delete")
                  /\ left' = [left EXCEPT ![r] = rest] /\ UNCHANGED faults
               \/ Fault /\ Answer(r, "error")
       ELSE Answer(r, "gone") /\ UNCHANGED <<tests, faults>>
  /\ UNCHANGED <<spec, found, removed>>

\* CountExistingLoadtests: what is starting, or has no phase yet, is not active.
Active == {n \in Names : Exists(n) /\ tests[n].phase \in {Running, Creating}}

CountActive(r) ==
  /\ pc[r] = "count"
  /\ IF Cardinality(Active) >= MaxLoadTests
     THEN Answer(r, "limit")
     ELSE Goto(r, "create") /\ UNCHANGED <<found, left>>
  /\ UNCHANGED <<tests, spec, removed, faults>>

\* CreateLoadTest, under a random name.  A name may be in use; that a name is
\* drawn again while requests still hold its deleted bearer is left out.
CreateLoadTest(r) ==
  /\ pc[r] = "create"
  /\ \E n \in Names :
       \/ /\ tests[n].life = "unused"
          /\ tests' = [tests EXCEPT ![n] =
                         [life |-> "exists", file |-> spec[r].file, phase |-> Blank,
                          creator |-> {r}]]
          /\ \/ Answer(r, "created") /\ UNCHANGED faults
             \/ Fault /\ Answer(r, "error")
       \/ Exists(n) /\ Answer(r, "collision") /\ UNCHANGED <<tests, faults>>
  /\ UNCHANGED <<spec, removed>>

\* A call fails without effect, the client hangs up or the replica dies.
Fails(r) ==
  /\ pc[r] \in {"list", "delete", "count", "create"}
  /\ Fault /\ Answer(r, "error")
  /\ UNCHANGED <<tests, spec, removed>>
-----------------------------------------------------------------------------
\* The controller writes a phase.
PhaseMoves(n) ==
  /\ Exists(n)
  /\ \E p \in Phase : /\ <<tests[n].phase, p>> \in Moves
                      /\ tests' = [tests EXCEPT ![n].phase = p]
  /\ UNCHANGED <<spec, pc, found, left, answer, removed, faults>>

\* DELETE /load-test/{name}, or the controller's clean-up.
Remove(n) ==
  /\ Exists(n)
  /\ tests' = [tests EXCEPT ![n] = NoTest("deleted")]
  /\ removed' = removed \cup {tests[n].file}
  /\ UNCHANGED <<spec, pc, found, left, answer, faults>>

Create(r) ==
  \/ Receive(r) \/ ListSameFile(r) \/ DeleteOld(r)
  \/ CountActive(r) \/ CreateLoadTest(r) \/ Fails(r)

Next ==
  \/ \E r \in Requests : Create(r)
  \/ \E n \in Names : PhaseMoves(n) \/ Remove(n)

Spec == Init /\ [][Next]_vars
-----------------------------------------------------------------------------
(***************************************************************************)
(* Properties.                                                             *)
(***************************************************************************)

\* "Find the old load test with the same data": two load tests of one file
\* come only from requests that raced, neither of which had the other's load
\* test in its list; a request that saw the other's has deleted it or failed.
DuplicatesAreRaces ==
  \A n, m \in Names :
    Exists(n) /\ Exists(m) /\ n # m /\ tests[n].file = tests[m].file
      => \A r \in tests[n].creator : m \notin found[r]

\* "If users wants to overwrite": of the requests that overwrite one another,
\* each deleting what the others have listed, not all give up.  Who is told that
\* a load test of its list is gone has been overtaken by a request that deletes
\* the same file's load tests too and is not told so, unless somebody else has
\* removed one.
SomeOverwriterWins ==
  \A r \in Requests :
    answer[r] = "gone" /\ spec[r].file \notin removed
      => \E s \in Requests :
           spec[s].file = spec[r].file /\ found[s] # {} /\ answer[s] # "gone"

\* --max-load-tests is "The maximum amount of load tests to run
\* simultaneously".
LimitHeld ==
  Cardinality({n \in Names : Exists(n) /\ tests[n].phase = Running}) <= MaxLoadTests
=============================================================================
