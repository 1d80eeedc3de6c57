--------------------------- MODULE RollingUpdate ---------------------------
(***************************************************************************)
(* Two controllers at once.  The controller is a Deployment of one replica *)
(* without leader election: a rolling update starts the new process before *)
(* it ends the old one.  They share the API server and nothing else.       *)
(*                                                                         *)
(* The new controller is module Controller as it stands, with all its      *)
(* retries and resyncs.  The old one, whose variables begin with o, is the *)
(* same module again; it makes one more sync, from whatever its lister     *)
(* holds by then, and may be ended at any moment.                          *)
(***************************************************************************)
EXTENDS Controller

VARIABLES
  oCache, oEvents, oNsCached, oDirty, oRetry,
  oPc, oLoadTest, oCachedPhase, oFresh, oNext, oWaits, oWorkerJob, oSyncOk,
  old     \* "waiting" for its last sync, in it ("syncing"), or "gone"

oSyncVars == <<oLoadTest, oCachedPhase, oFresh, oNext, oWaits, oWorkerJob, oSyncOk>>
oVars     == <<oCache, oEvents, oNsCached, oDirty, oRetry, oPc, oSyncVars>>
newVars   == <<informerVars, queueVars, pc, syncVars>>
allVars   == <<vars, oVars, old>>

Old == INSTANCE Controller
         WITH cache <- oCache, events <- oEvents, nsCached <- oNsCached,
              dirty <- oDirty, retry <- oRetry, pc <- oPc, loadTest <- oLoadTest,
              cachedPhase <- oCachedPhase, fresh <- oFresh, next <- oNext,
              waits <- oWaits, workerJob <- oWorkerJob, syncOk <- oSyncOk

BothTypeOK == TypeOK /\ Old!QueueTypeOK /\ Old!SyncTypeOK

BothInit == Init /\ Old!Init /\ old = "waiting"
-----------------------------------------------------------------------------
\* What one controller writes, the other one's watch delivers later, and the
\* copy the other one is working on is no longer the stored version.
OldSees ==
  /\ oEvents' = IF stored' # stored /\ old = "waiting" THEN Append(oEvents, stored') ELSE oEvents
  /\ oFresh' = (oFresh /\ stored' = stored)
  /\ UNCHANGED <<oCache, oNsCached, oDirty, oRetry, oPc, oLoadTest, oCachedPhase, oNext,
                 oWaits, oWorkerJob, oSyncOk, old>>

NewSees ==
  /\ events' = IF stored' # stored THEN Append(events, stored') ELSE events
  /\ fresh' = (fresh /\ stored' = stored)
  /\ UNCHANGED <<cache, nsCached, queueVars, pc, loadTest, cachedPhase, next, waits,
                 workerJob, syncOk>>

\* The namespace has the name of its load test: the second Create of two
\* controllers that have both listed none reports AlreadyExists, an error.
NamespaceExists ==
  /\ pc = "createNamespace" /\ namespace # "none" /\ Fail
  /\ UNCHANGED <<stored, clusterVars, informerVars, queueVars, loadTest, cachedPhase,
                 fresh, next, waits, workerJob, faults>>

\* The new controller, the user, the cluster and the clock.
NewSteps == (Next \/ NamespaceExists) /\ OldSees

OldDelivers == old = "waiting" /\ Old!Deliver /\ NewSees /\ UNCHANGED old

\* Its lister has no say any more (JMeter alone would go on reading one).
OldListerGone ==
  oCache' = Absent /\ oEvents' = <<>> /\ oNsCached' = FALSE /\ oDirty' = FALSE /\ oRetry' = FALSE

OldStarts ==
  /\ old = "waiting" /\ Old!TakeCopy /\ OldListerGone /\ old' = "syncing"
  /\ UNCHANGED vars

OldNamespaceExists ==
  /\ oPc = "createNamespace" /\ namespace # "none" /\ Old!Fail
  /\ UNCHANGED <<stored, clusterVars, oCache, oEvents, oNsCached, oDirty, oRetry, oLoadTest,
                 oCachedPhase, oFresh, oNext, oWaits, oWorkerJob, faults>>

OldWorks ==
  /\ old = "syncing"
  /\ Old!Worker \/ OldNamespaceExists
  /\ NewSees /\ old' = IF oPc' = "idle" THEN "gone" ELSE old

\* Its process ends, in the middle of a sync or not.
OldEnds ==
  /\ old # "gone" /\ old' = "gone"
  /\ OldListerGone /\ Old!Return
  /\ UNCHANGED vars

BothNext == NewSteps \/ OldDelivers \/ OldStarts \/ OldWorks \/ OldEnds

BothSpec == BothInit /\ [][BothNext]_allVars
-----------------------------------------------------------------------------
\* backend.go: "Sync check if ... resources have been create, if they have
\* not been create them".  No call of one controller, at whatever point of the
\* other one's sync, makes a Sync of either return before every object of a
\* load test that still exists has been created.
BothSyncedMeansCreated == SyncedMeansCreated /\ Old!SyncedMeansCreated

\* The optimistic lock of updateLoadTestStatus keeps the phases in order: a
\* client sees the same moves as with one controller, although each of the
\* two writes what it has read at a moment of its own.
BothImplementLifecycle == Lifecycle!Spec
=============================================================================
