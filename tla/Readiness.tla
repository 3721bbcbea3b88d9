----------------------------- MODULE Readiness -----------------------------
(***************************************************************************)
(* What the readiness probe says of the whole service: the syncer composed *)
(* with the connection to the broker and with main, which starts both and  *)
(* ends them.  Every step of the syncer is a step of module Syncer, whose  *)
(* variables nothing else touches, so that what holds of Syncer!Spec holds *)
(* here as well.                                                           *)
(***************************************************************************)
EXTENDS Syncer

VARIABLES
    main,       \* where main is: before, in or after ListenAndServe
    nats,       \* p.nc.Status(), "none" before Connect
    brokerUp    \* the broker can be reached

serviceVars == <<vars, main, nats, brokerUp>>

ServiceInit ==
    /\ Init
    /\ main = "starting"
    /\ nats = "none"
    /\ brokerUp \in BOOLEAN

(* The process runs.                                                       *)
Alive == main # "ended" /\ pc # "exited"

-----------------------------------------------------------------------------
(* main, after the initial load.  With RetryOnFailedConnect a broker that  *)
(* cannot be reached is no error: the connection then begins as one that   *)
(* is lost, and the service starts all the same.                           *)
StartService ==
    /\ Alive
    /\ Start
    /\ main' = "serving"
    /\ \/ brokerUp /\ nats' = "connected"
       \/ nats' = "reconnecting"
    /\ UNCHANGED brokerUp

(* ListenAndServe returns once the context is done; Close and the end of   *)
(* the process follow, wherever the goroutines are.  That it fails, for it *)
(* cannot listen, is a failure of the startup, StartupFails.               *)
EndService ==
    /\ main = "serving" /\ ctxDone
    /\ main' = "ended"
    /\ nats' = "closed"
    /\ UNCHANGED <<vars, brokerUp>>

(* The other steps of the syncer.                                          *)
SyncerStep ==
    /\ Alive
    /\ Step /\ ~(pc = "loaded" /\ pc' = "idle")
    /\ UNCHANGED <<main, nats, brokerUp>>

Elapse ==
    /\ main # "ended"
    /\ Pass
    /\ UNCHANGED <<main, nats, brokerUp>>

-----------------------------------------------------------------------------
(* The connection, in the goroutines of the NATS client.                   *)

Disconnect ==
    /\ Alive
    /\ nats = "connected"
    /\ ~brokerUp
    /\ nats' = "reconnecting"
    /\ UNCHANGED <<vars, main, brokerUp>>

(* Mutant: without MaxReconnects(-1) the client gives up in the end and    *)
(* closes the connection.                                                  *)
GivesUp == "closed"

(* What becomes of a connection that could not be established again.       *)
AfterFailure == "reconnecting"

Reconnect ==
    /\ Alive
    /\ nats = "reconnecting"
    /\ nats' = IF brokerUp THEN "connected" ELSE AfterFailure
    /\ UNCHANGED <<vars, main, brokerUp>>

(* JetStreamPublisher.ReadyStatus                                          *)
NatsReady == nats = "connected"

(* handleReady answers 200.                                                *)
ServiceReady == main = "serving" /\ Ready /\ NatsReady

-----------------------------------------------------------------------------

Surroundings ==
    \/ (Cancel \/ DevicesSwitch \/ UpdatesSwitch) /\ UNCHANGED <<main, nats, brokerUp>>
    \/ brokerUp' = ~brokerUp /\ UNCHANGED <<vars, main, nats>>

ServiceNext ==
    \/ StartService \/ EndService \/ SyncerStep \/ Elapse
    \/ Disconnect \/ Reconnect
    \/ Surroundings

ServiceSpec == ServiceInit /\ [][ServiceNext]_serviceVars

(* The goroutines of main, of the syncer and of the NATS client run, and   *)
(* time passes.                                                            *)
ServiceFairSpec ==
    /\ ServiceSpec
    /\ WF_serviceVars(StartService \/ SyncerStep) /\ WF_serviceVars(Elapse)
    /\ WF_serviceVars(Disconnect) /\ WF_serviceVars(Reconnect)

(* When the API and the broker are both back for good, the probe finds the *)
(* service ready and does so for good, whichever broke down or came back   *)
(* first, at the start of the process or later, unless the process ends:   *)
(* no breakdown leaves a connection or a status that cannot recover        *)
(* (main.go:88, jetstream_publisher.go:29).                                *)
ServiceReadyAgain ==
    2 * CallTime <= PollInterval =>
        (<>[](devicesUp /\ updatesUp /\ brokerUp /\ ~ctxDone)
            => <>[](ServiceReady \/ pc = "exited"))

=============================================================================
