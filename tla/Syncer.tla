------------------------------- MODULE Syncer -------------------------------
(***************************************************************************)
(* internal/cache/syncer.go in time: the initial load, the poll with its   *)
(* two requests, and what ReadyStatus tells the readiness probe.           *)
(*                                                                         *)
(* Time is kept as ages, each of which stops one tick past the last value  *)
(* that matters.  What the syncer computes takes no time, a request takes  *)
(* up to CallTime: client.go's timeouts of the request, of the login       *)
(* before it and of the retry after a 401, and as long as the syncer waits *)
(* for the token behind logins of other callers (JWTClient).  The cache is *)
(* represented by the age of the answer applied last.  IngestService has   *)
(* its contents; that an answer completes them is shown there for dated    *)
(* records and a cache that no handler fills.  The update store is left    *)
(* out, for nothing reads it.                                              *)
(***************************************************************************)
EXTENDS Integers

CONSTANTS
    PollInterval,   \* cfg.PollInterval, in ticks
    CallTime        \* longest duration of one request, in ticks

(* A PollInterval of zero makes time.NewTicker panic.                      *)
ASSUME TimeAssumption ==
    /\ PollInterval \in Nat \ {0}
    /\ CallTime \in Nat

(* Mutant: the service is stale when one poll is overdue.                  *)
OneIntervalOnly == PollInterval

StaleAfter == 2 * PollInterval

(* How old the cache may get while the devices endpoint answers: the time  *)
(* to the next poll, or the time that the last one took, and a request.    *)
FreshBound == (IF 2 * CallTime > PollInterval THEN 2 * CallTime ELSE PollInterval) + CallTime

(* A bound of the model: no property tells older caches apart.             *)
AgeLimit   == StaleAfter + 3 * CallTime

Older(age, limit) == IF age > limit THEN age ELSE age + 1

VARIABLES
    pc,               \* where InitialLoad, and then the goroutine of Start, is
    left,             \* time left for the request under way
    pollErr,          \* local of pollOnce
    answerAge,        \* age of the answer with the devices that is on its way
    initialLoadDone,  \* s.initialLoadDone
    syncAge,          \* time since s.lastSuccessfulSync
    failed,           \* s.lastSyncError is set
    toTick,           \* time until the ticker fires
    tick,             \* a tick waits in ticker.C, which holds one
    ctxDone,          \* the context of main is cancelled
    devicesUp,        \* FetchDevices and FetchUpdatedDevices are answered in time
    updatesUp,        \* FetchDeviceUpdates is answered in time
    cacheAge          \* age of the answer that the cache holds

status == <<initialLoadDone, syncAge, failed>>
timer  == <<toTick, tick>>
world  == <<ctxDone, devicesUp, updatesUp>>
vars   == <<pc, left, pollErr, answerAge, status, timer, world, cacheAge>>

Calling  == {"loadDevices", "loadUpdates", "pollDevices", "pollUpdates"}
Arriving == {"loadArriving", "pollArriving"}
Polling  == {"idle", "pollDevices", "pollArriving", "pollUpdates"}

Init ==
    /\ pc = "loadDevices"
    /\ left = CallTime
    /\ pollErr = FALSE
    /\ answerAge = 0
    /\ initialLoadDone = FALSE
    /\ syncAge = 0
    /\ failed = FALSE
    /\ toTick = PollInterval
    /\ tick = FALSE
    /\ ctxDone = FALSE
    /\ devicesUp \in BOOLEAN
    /\ updatesUp \in BOOLEAN
    /\ cacheAge = AgeLimit + 1

-----------------------------------------------------------------------------
(* Requests.                                                               *)

(* Mutant: the time limit holds for each attempt, not for the request.     *)
AskTwice(point) == pc' = point /\ left' = 2 * CallTime

Ask(point) == pc' = point /\ left' = CallTime

(* The API puts its answer with the devices together.                      *)
DevicesAnswered ==
    /\ pc \in {"loadDevices", "pollDevices"}
    /\ devicesUp /\ ~ctxDone
    /\ pc' = IF pc = "loadDevices" THEN "loadArriving" ELSE "pollArriving"
    /\ answerAge' = 0
    /\ UNCHANGED <<left, pollErr, status, timer, world, cacheAge>>

(* It arrives and is applied, InitialLoad.                                 *)
LoadDevices ==
    /\ pc = "loadArriving" /\ ~ctxDone
    /\ cacheAge' = answerAge
    /\ answerAge' = 0
    /\ Ask("loadUpdates")
    /\ UNCHANGED <<pollErr, status, timer, world>>

(* markSyncSuccess                                                         *)
MarkSyncSuccess ==
    /\ initialLoadDone' = TRUE
    /\ syncAge' = 0
    /\ failed' = FALSE

(* markSyncError                                                           *)
MarkSyncError ==
    /\ failed' = TRUE
    /\ UNCHANGED <<initialLoadDone, syncAge>>

(* The updates arrive and InitialLoad is done.                             *)
LoadUpdates ==
    /\ pc = "loadUpdates"
    /\ updatesUp /\ ~ctxDone
    /\ MarkSyncSuccess
    /\ pc' = "loaded"
    /\ left' = 0
    /\ UNCHANGED <<pollErr, answerAge, timer, world, cacheAge>>

(* A request of InitialLoad or the connection to NATS fails; main exits.   *)
StartupFails ==
    /\ pc \in {"loadDevices", "loadArriving", "loadUpdates", "loaded"}
    /\ pc' = "exited"
    /\ left' = 0
    /\ answerAge' = 0
    /\ UNCHANGED <<pollErr, status, timer, world, cacheAge>>

(* Start                                                                   *)
Start ==
    /\ pc = "loaded"
    /\ toTick' = PollInterval
    /\ pc' = "idle"
    /\ UNCHANGED <<left, pollErr, answerAge, status, tick, world, cacheAge>>

-----------------------------------------------------------------------------
(* pollOnce, when the ticker has fired.  select may still choose the tick  *)
(* when the context is done.                                               *)
Poll ==
    /\ pc = "idle"
    /\ tick
    /\ tick' = FALSE
    /\ pollErr' = FALSE
    /\ Ask("pollDevices")
    /\ UNCHANGED <<answerAge, status, toTick, world, cacheAge>>

(* Mutant: the devices are kept back until the updates have come as well.  *)
PollDevicesHeldBack ==
    /\ pc = "pollArriving" /\ ~ctxDone
    /\ cacheAge' = IF updatesUp THEN answerAge ELSE cacheAge
    /\ answerAge' = 0
    /\ Ask("pollUpdates")
    /\ UNCHANGED <<pollErr, status, timer, world>>

(* UpsertMany, if there are any; then FetchDeviceUpdates is called.        *)
PollDevices ==
    /\ pc = "pollArriving" /\ ~ctxDone
    /\ cacheAge' = answerAge
    /\ answerAge' = 0
    /\ Ask("pollUpdates")
    /\ UNCHANGED <<pollErr, status, timer, world>>

PollDevicesFails ==
    /\ pc \in {"pollDevices", "pollArriving"}
    /\ ~devicesUp \/ ctxDone
    /\ pollErr' = TRUE
    /\ answerAge' = 0
    /\ Ask("pollUpdates")
    /\ UNCHANGED <<status, timer, world, cacheAge>>

(* The end of pollOnce.                                                    *)
EndPoll(err) ==
    /\ IF err THEN MarkSyncError ELSE MarkSyncSuccess
    /\ pc' = "idle"
    /\ left' = 0
    /\ pollErr' = FALSE
    /\ UNCHANGED <<answerAge, timer, world, cacheAge>>

(* Mutant: the second request's success hides the first one's failure.     *)
LastErrorCounts ==
    /\ pc = "pollUpdates"
    /\ updatesUp /\ ~ctxDone
    /\ EndPoll(FALSE)

PollUpdates ==
    /\ pc = "pollUpdates"
    /\ updatesUp /\ ~ctxDone
    /\ EndPoll(pollErr)

PollUpdatesFails ==
    /\ pc = "pollUpdates"
    /\ ~updatesUp \/ ctxDone
    /\ EndPoll(TRUE)

(* Start returns on ctx.Done().                                            *)
Stop ==
    /\ pc = "idle"
    /\ ctxDone
    /\ pc' = "stopped"
    /\ UNCHANGED <<left, pollErr, answerAge, status, timer, world, cacheAge>>

(* ReadyStatus: only a completed load that is not stale is ready; the last *)
(* error is but the reason that is given.                                  *)
Ready == initialLoadDone /\ syncAge <= StaleAfter

-----------------------------------------------------------------------------
(* Time and the world.                                                     *)

(* A tick of the clock.  A request that has used up its time ends first,   *)
(* and so does one whose context is done; a tick that waits is taken.      *)
(* main connects to NATS when pc is "loaded".                              *)
Pass ==
    /\ pc \in Calling \cup Arriving => left > 0 /\ ~ctxDone
    /\ pc = "idle" => ~tick /\ ~ctxDone
    /\ left' = IF left > 0 THEN left - 1 ELSE 0
    /\ answerAge' = IF pc \in Arriving THEN answerAge + 1 ELSE 0
    /\ syncAge' = IF initialLoadDone THEN Older(syncAge, StaleAfter) ELSE 0
    /\ cacheAge' = Older(cacheAge, AgeLimit)
    /\ toTick' = IF toTick = 1 THEN PollInterval ELSE toTick - 1
    /\ tick' = (tick \/ (toTick = 1 /\ pc \in Polling))
    /\ UNCHANGED <<pc, pollErr, initialLoadDone, failed, world>>

Cancel ==
    /\ ~ctxDone
    /\ ctxDone' = TRUE
    /\ UNCHANGED <<pc, left, pollErr, answerAge, status, timer, devicesUp, updatesUp, cacheAge>>

(* One of the API's endpoints breaks down or comes back.                   *)
DevicesSwitch ==
    /\ devicesUp' = ~devicesUp
    /\ UNCHANGED <<pc, left, pollErr, answerAge, status, timer, ctxDone, updatesUp, cacheAge>>

UpdatesSwitch ==
    /\ updatesUp' = ~updatesUp
    /\ UNCHANGED <<pc, left, pollErr, answerAge, status, timer, ctxDone, devicesUp, cacheAge>>

Step ==
    \/ DevicesAnswered \/ LoadDevices \/ LoadUpdates \/ StartupFails \/ Start
    \/ Poll \/ PollDevices \/ PollDevicesFails \/ PollUpdates \/ PollUpdatesFails \/ Stop

Next == Step \/ Pass \/ Cancel \/ DevicesSwitch \/ UpdatesSwitch

Spec == Init /\ [][Next]_vars

(* The goroutine runs and time passes.                                     *)
FairSpec == Spec /\ WF_vars(Step) /\ WF_vars(Pass)

-----------------------------------------------------------------------------

(* The variables have their types, and each age and delay its bound.       *)
TypeOK ==
    /\ pc \in Calling \cup Arriving \cup {"loaded", "idle", "stopped", "exited"}
    /\ left \in 0..CallTime
    /\ pollErr \in BOOLEAN /\ initialLoadDone \in BOOLEAN /\ failed \in BOOLEAN
    /\ tick \in BOOLEAN /\ ctxDone \in BOOLEAN /\ devicesUp \in BOOLEAN /\ updatesUp \in BOOLEAN
    /\ answerAge \in 0..CallTime
    /\ syncAge \in 0..(StaleAfter + 1)
    /\ toTick \in 1..PollInterval
    /\ cacheAge \in 0..(AgeLimit + 1)

(* While the service calls itself ready, its cache holds what the API      *)
(* answered at most two intervals and the two requests of a poll ago,      *)
(* whichever request of whichever poll has failed since: a poll that got   *)
(* no devices must not count, nor make up for one that did not             *)
(* (syncer.go:113 and :128).                                               *)
ReadyMeansRecent == Ready => cacheAge <= StaleAfter + 2 * CallTime

(* What ReadyMeansRecent rests on.  An answer that arrives has been on its *)
(* way for no longer than its request; while the updates are asked for,    *)
(* with no failure so far, the cache is at most two requests old at the    *)
(* end; and the cache is older than the last good sync by no more.         *)
AnswerOnItsWay == pc \in Arriving => answerAge + left <= CallTime

FirstHalfRecent ==
    pc = "loadUpdates" \/ (pc = "pollUpdates" /\ ~pollErr) => cacheAge + left <= 2 * CallTime

CacheKeepsUp == Ready => cacheAge <= syncAge + 2 * CallTime

IInv == TypeOK /\ AnswerOnItsWay /\ FirstHalfRecent /\ CacheKeepsUp

(* As long as the API answers the request for devices, the cache is kept   *)
(* fresh, even when each poll fails for want of the device updates: the    *)
(* first half of a poll takes effect without the second (syncer.go:98).    *)
FreshWithoutUpdates ==
    <>[](devicesUp /\ ~ctxDone) => <>[](cacheAge <= FreshBound \/ pc = "exited")

(* When the API answers again the service becomes ready and stays so,      *)
(* although each request may take as long as it is allowed to, provided    *)
(* that a poll fits in its interval (syncer.go:128).                       *)
ReadyAgain ==
    2 * CallTime <= PollInterval =>
        (<>[](devicesUp /\ updatesUp /\ ~ctxDone) => <>[](Ready \/ pc = "exited"))

=============================================================================
