-------------------------- MODULE Readiness_proofs --------------------------
(***************************************************************************)
(* The service as a whole lets the syncer do what module Syncer lets it    *)
(* do, and nothing else, so that what is proved of the syncer alone holds  *)
(* of the syncer within the service.                                       *)
(***************************************************************************)
EXTENDS Readiness, Syncer_proofs

(* Each step of the service is a step of the syncer or leaves it alone.    *)
LEMMA StepOfSyncer ==
    ASSUME [ServiceNext]_serviceVars
    PROVE  [Next]_vars
<1>1. CASE StartService
    BY <1>1 DEF StartService, Next, Step
<1>2. CASE EndService
    BY <1>2 DEF EndService
<1>3. CASE SyncerStep
    BY <1>3 DEF SyncerStep, Next
<1>4. CASE Elapse
    BY <1>4 DEF Elapse, Next
<1>5. CASE Disconnect \/ Reconnect
    BY <1>5 DEF Disconnect, Reconnect
<1>6. CASE Surroundings
    BY <1>6 DEF Surroundings, Next
<1>7. CASE UNCHANGED serviceVars
    BY <1>7 DEF serviceVars
<1> QED
    BY <1>1, <1>2, <1>3, <1>4, <1>5, <1>6, <1>7 DEF ServiceNext

(* The service implements the specification of the syncer: main, the       *)
(* connection to the broker and the end of the process add no behaviour to *)
(* it (main.go:62-99).                                                     *)
THEOREM ServiceImplementsSyncer == ServiceSpec => Spec
<1>1. ServiceInit => Init
    BY DEF ServiceInit
<1>2. [ServiceNext]_serviceVars => [Next]_vars
    BY StepOfSyncer
<1> QED
    BY <1>1, <1>2, PTL DEF ServiceSpec, Spec

(* Whenever the probe finds the service ready, the cache holds what the    *)
(* API answered at most two intervals and the two requests of a poll ago,  *)
(* for every interval and duration of requests, whatever became of the     *)
(* broker meanwhile.                                                       *)
THEOREM ReadyServiceIsRecent == ServiceSpec => []ReadyMeansRecent
BY ServiceImplementsSyncer, ReadyIsRecent, PTL

=============================================================================
