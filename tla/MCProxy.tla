------------------------------ MODULE MCProxy ------------------------------
(***************************************************************************)
(* Values for the constants of Proxy, and the symmetry of its requests.    *)
(***************************************************************************)
EXTENDS Proxy, TLC

\* A load test is counted only while it runs: the moves of a Locust load
\* test whose client misses the phases in between.
FewMoves == {<<Blank, Running>>, <<Running, Finished>>}

Symmetry == Permutations(Requests)
=============================================================================
