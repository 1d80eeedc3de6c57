-------------------------- MODULE LoadTestLifecycle --------------------------
(***************************************************************************)
(* What a client of the API (the proxy's GET /load-test/{name}, kubectl)   *)
(* sees of one LoadTest: a phase that moves, and that the LoadTest may     *)
(* disappear at any time.  The controller implements this for each backend *)
(* with the moves that backend permits.                                    *)
(***************************************************************************)
EXTENDS LoadTestPhases

CONSTANT Moves   \* pairs <<from, to>> of phases

VARIABLE seen

Gone == "gone"

Init == seen = Blank

Move == \E p \in Phase : <<seen, p>> \in Moves /\ seen' = p

Delete == seen # Gone /\ seen' = Gone

Next == Move \/ Delete

Spec == Init /\ [][Next]_seen

\* The status is filled in: a LoadTest does not stay without a phase.
LeavesBlank == (seen = Blank) ~> (seen # Blank)
=============================================================================
