---------------------------- MODULE MCController ----------------------------
(***************************************************************************)
(* The instances of Controller that the runs check: no object is refused.  *)
(***************************************************************************)
EXTENDS Controller

NothingRejected == {}
=============================================================================
