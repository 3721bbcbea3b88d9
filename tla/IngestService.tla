--------------------------- MODULE IngestService ---------------------------
(***************************************************************************)
(* internal/ingest/service.go and the polling half of cache/syncer.go: the *)
(* request handlers and the poller, which share the device cache, in front *)
(* of a device API that changes under them.                                *)
(*                                                                         *)
(* A call of the API is two steps, the API's answer and its use, so that   *)
(* others act in between; the cursor is read in the step of the answer,    *)
(* for one read earlier only asks for more.  Each handler serves one       *)
(* upload, which its device may send again.  The process may die and start *)
(* anew at any time.  The device updates that the syncer also fetches      *)
(* touch nothing here and are left out.                                    *)
(***************************************************************************)
EXTENDS DeviceCache

CONSTANTS
    Handlers,       \* bound: one request each
    Poller,         \* the goroutine of Syncer.Start
    Registered,     \* devices that the API knows from the start
    Stamp,          \* function on Keys: the time stamp the API sends with a device
    Second,         \* a second of the wire format, in ticks of the clock
    MaxChanges,     \* bound: changes of device records in the API
    Redeploys,      \* whether devices may be redeployed
    Resends,        \* whether devices send again what was not accepted
    MaxRestarts     \* bound: restarts of the process

ASSUME IngestAssumption ==
    /\ Poller \notin Handlers
    /\ Keys # {}
    /\ NoChannel \notin [tag : Tags, owner : Deployments]
    /\ Registered \subseteq Keys
    /\ Stamp \in [Keys -> {"sync_updated_at", "properties_updated_at", "none"}]
    /\ Second \in Nat \ {0}
    /\ MaxChanges \in Nat
    /\ Redeploys \in BOOLEAN
    /\ Resends \in BOOLEAN
    /\ MaxRestarts \in Nat

Clients == Handlers \cup {Poller}

VARIABLES
    clock,      \* time of the latest change in the API
    upstream,   \* the API's current record of each device
    issued,     \* the channels the API ever created, <<deployment, tag>>
    cache,      \* DeviceCache
    pc,         \* where each client is
    fetched,    \* local: the records in the API's last answer, per client
    request,    \* the device and tags of the request, per handler
    stage,      \* local: which refresh the lookup follows, per handler
    record,     \* local record, per handler
    todo,       \* local: measurements ensureChannels has still to visit
    creating,   \* local: mapping returned by CreateDeploymentChannel
    known,      \* history: the API knew the device when the request arrived
    reply,      \* HTTP status of the request, 0 before it is answered
    samples,    \* what was handed to publisher.Enqueue
    restarts    \* history: how often the process died

api      == <<clock, upstream, issued>>
handlers == <<request, stage, record, todo, creating, known, reply>>
vars     == <<api, cache, pc, fetched, handlers, samples, restarts>>

NoOne == [key |-> CHOOSE k \in Keys : TRUE, tags |-> {}]

FirstRecord(k, since) ==
    [key |-> k, deployment |-> [key |-> k, since |-> since],
     channels |-> [t \in Tags |-> NoChannel], updatedAt |-> since]

Init ==
    /\ clock = 1
    /\ upstream = [k \in Keys |-> IF k \in Registered THEN FirstRecord(k, 1) ELSE NoRecord]
    /\ issued = {}
    /\ cache = EmptyCache
    /\ pc = [c \in Clients |-> IF c = Poller THEN "load" ELSE "idle"]
    /\ fetched = [c \in Clients |-> {}]
    /\ request = [h \in Handlers |-> NoOne]
    /\ stage = [h \in Handlers |-> "cached"]
    /\ record = [h \in Handlers |-> NoRecord]
    /\ todo = [h \in Handlers |-> {}]
    /\ creating = [h \in Handlers |-> NoChannel]
    /\ known = [h \in Handlers |-> FALSE]
    /\ reply = [h \in Handlers |-> 0]
    /\ samples = {}
    /\ restarts = 0

GoTo(c, point) == pc' = [pc EXCEPT ![c] = point]

-----------------------------------------------------------------------------
(* The device API.  Every change gets a later time stamp.                  *)

Register(k) ==
    /\ clock < MaxChanges
    /\ upstream[k] = NoRecord
    /\ clock' = clock + 1
    /\ upstream' = [upstream EXCEPT ![k] = FirstRecord(k, clock + 1)]
    /\ UNCHANGED <<issued, cache, pc, fetched, handlers, samples, restarts>>

(* The device gets a new deployment, without channels.                     *)
Redeploy(k) ==
    /\ Redeploys
    /\ clock < MaxChanges
    /\ upstream[k] # NoRecord
    /\ clock' = clock + 1
    /\ upstream' = [upstream EXCEPT ![k] = FirstRecord(k, clock + 1)]
    /\ UNCHANGED <<issued, cache, pc, fetched, handlers, samples, restarts>>

(* A record as UnmarshalJSON reads it: sync_updated_at is preferred to     *)
(* properties_updated_at, which the deployment left unchanged.             *)
Decoded(r) ==
    CASE Stamp[r.key] = "sync_updated_at" -> r
      [] Stamp[r.key] = "properties_updated_at" -> [r EXCEPT !.updatedAt = r.deployment.since]
      [] OTHER -> [r EXCEPT !.updatedAt = 0]

(* The API may list devices in either field of an object, or barely, which *)
(* decodeRawList takes for items.                                          *)
Bodies(S) == {[items |-> S, devices |-> {}], [items |-> {}, devices |-> S]}

(* Mutant: only the field items is looked at.                              *)
ItemsOnly(body) == body.items

(* response.devices()                                                      *)
DevicesIn(body) == IF body.devices # {} THEN body.devices ELSE body.items

Answers(S) == {DevicesIn(body) : body \in Bodies({Decoded(r) : r \in S})}

Known == {upstream[k] : k \in {j \in Keys : upstream[j] # NoRecord}}

AllDevices == Answers(Known)

UpdatedDevices(since) == Answers({r \in Known : r.updatedAt >= since})

(* The wall clock is at the latest change or past it.                      *)
Now == {clock, clock + 1}

(* Mutant: a time is rounded up to the next second.                        *)
InSecondsUp(time) == time + (Second - 1) - ((time + (Second - 1)) % Second)

(* time.RFC3339 has no fractions of a second; they are cut off.            *)
InSeconds(time) == time - (time % Second)

(* formatUpdatedSince: the zero time becomes the current time.  What       *)
(* changed in the cursor's second is asked for again.                      *)
UpdatedSince ==
    {InSeconds(time) : time \in IF cache.updatedAt = 0 THEN Now ELSE {cache.updatedAt}}

-----------------------------------------------------------------------------
(* The poller.  main loads the cache before it listens, and exits when     *)
(* that fails.                                                             *)

(* InitialLoad, FetchDevices.                                              *)
FetchInitial ==
    /\ pc[Poller] = "load"
    /\ \E devices \in AllDevices : fetched' = [fetched EXCEPT ![Poller] = devices]
    /\ GoTo(Poller, "loaded")
    /\ UNCHANGED <<api, cache, handlers, samples, restarts>>

(* pollOnce, its device half: FetchUpdatedDevices at the cursor.  After an *)
(* error nothing changes until the next tick.                              *)
Poll ==
    /\ pc[Poller] = "idle"
    /\ \E since \in UpdatedSince : \E devices \in UpdatedDevices(since) :
            fetched' = [fetched EXCEPT ![Poller] = devices]
    /\ GoTo(Poller, "apply")
    /\ UNCHANGED <<api, cache, handlers, samples, restarts>>

(* UpsertMany of what was fetched, which changes nothing if it is empty.   *)
Store(c) ==
    /\ \E now \in Now : cache' = UpsertMany(cache, fetched[c], now)
    /\ fetched' = [fetched EXCEPT ![c] = {}]

(* UpsertMany in InitialLoad and in pollOnce.                              *)
PollApply ==
    /\ pc[Poller] \in {"loaded", "apply"}
    /\ Store(Poller)
    /\ GoTo(Poller, "idle")
    /\ UNCHANGED <<api, handlers, samples, restarts>>

-----------------------------------------------------------------------------
(* The handlers.                                                           *)

(* The end of the request h at the given point; its locals are gone.       *)
End(h, point) ==
    /\ stage' = [stage EXCEPT ![h] = "cached"]
    /\ record' = [record EXCEPT ![h] = NoRecord]
    /\ todo' = [todo EXCEPT ![h] = {}]
    /\ GoTo(h, point)

Answer(h, status) ==
    /\ reply' = [reply EXCEPT ![h] = status]
    /\ End(h, "done")

(* A request arrives; tags are the channels that its payload measures.     *)
Receive(h) ==
    /\ pc[h] = "idle"
    /\ pc[Poller] \notin {"load", "loaded"}
    /\ \E k \in Keys, T \in SUBSET Tags :
        /\ request' = [request EXCEPT ![h] = [key |-> k, tags |-> T]]
        /\ known' = [known EXCEPT ![h] = upstream[k] # NoRecord]
    /\ GoTo(h, "lookup")
    /\ UNCHANGED <<api, cache, fetched, stage, record, todo, creating, reply, samples, restarts>>

(* registry.Lookup finds no parser (404), or Parse fails (400).  Sending   *)
(* the payload again would not help, and is left out.                      *)
Reject(h) ==
    /\ pc[h] = "idle"
    /\ pc[Poller] \notin {"load", "loaded"}
    /\ reply' \in {[reply EXCEPT ![h] = status] : status \in {400, 404}}
    /\ End(h, "rejected")
    /\ UNCHANGED <<api, cache, fetched, request, creating, known, samples, restarts>>

(* The device sends again what was not answered with 200, or whose answer  *)
(* did not reach it.                                                       *)
Resend(h) ==
    /\ Resends
    /\ pc[h] \in {"done", "cut"}
    /\ pc[Poller] \notin {"load", "loaded"}
    /\ known' = [known EXCEPT ![h] = upstream[request[h].key] # NoRecord]
    /\ reply' = [reply EXCEPT ![h] = 0]
    /\ GoTo(h, "lookup")
    /\ UNCHANGED <<api, cache, fetched, request, stage, record, todo, creating, samples, restarts>>

(* The record is found: ensureChannels starts with the first measurement.  *)
Found(h, r) ==
    /\ record' = [record EXCEPT ![h] = r]
    /\ todo' = [todo EXCEPT ![h] = request[h].tags]
    /\ GoTo(h, "ensure")
    /\ UNCHANGED <<stage, reply>>

Refresh(h, how) ==
    /\ stage' = [stage EXCEPT ![h] = how]
    /\ GoTo(h, "fetch")
    /\ UNCHANGED <<record, todo, reply>>

(* cache.Lookup, in Handle and after each refresh.                         *)
Lookup(h) ==
    /\ pc[h] = "lookup"
    /\ \/ /\ Has(cache, request[h].key)
          /\ Found(h, cache.byKey[request[h].key])
       \/ /\ ~Has(cache, request[h].key)
          /\ stage[h] = "cached"
          /\ Refresh(h, "updated")
       \/ /\ ~Has(cache, request[h].key)
          /\ stage[h] # "cached"
          /\ GoTo(h, "fallback")
          /\ UNCHANGED <<stage, record, todo, reply>>
    /\ UNCHANGED <<api, cache, fetched, request, creating, known, samples, restarts>>

(* FetchUpdatedDevices, then FetchDevices, in refreshAndLookupDevice.      *)
Fetch(h) ==
    /\ pc[h] = "fetch"
    /\ \/ /\ stage[h] = "updated"
          /\ \E since \in UpdatedSince : \E devices \in UpdatedDevices(since) :
                fetched' = [fetched EXCEPT ![h] = devices]
       \/ /\ stage[h] = "full"
          /\ \E devices \in AllDevices : fetched' = [fetched EXCEPT ![h] = devices]
    /\ GoTo(h, "apply")
    /\ UNCHANGED <<api, cache, handlers, samples, restarts>>

FetchFails(h) ==
    /\ pc[h] = "fetch"
    /\ Answer(h, 400)
    /\ UNCHANGED <<api, cache, fetched, request, creating, known, samples, restarts>>

Apply(h) ==
    /\ pc[h] = "apply"
    /\ Store(h)
    /\ GoTo(h, "lookup")
    /\ UNCHANGED <<api, handlers, samples, restarts>>

(* Mutant: the handler asks for the updated devices over and over.         *)
FallbackAskedAgain(h) ==
    /\ pc[h] = "fallback"
    /\ LET matches == FindByManufacturerAndSerial(cache, Maker[request[h].key])
       IN  \/ Cardinality(matches) = 1 /\ \E r \in matches : Found(h, r)
           \/ Cardinality(matches) # 1 /\ Refresh(h, "updated")
    /\ UNCHANGED <<api, cache, fetched, request, creating, known, samples, restarts>>

(* Mutant: Handle goes on although the device was not found.               *)
FallbackUnchecked(h) ==
    /\ pc[h] = "fallback"
    /\ LET matches == FindByManufacturerAndSerial(cache, Maker[request[h].key])
       IN  \/ Cardinality(matches) = 1 /\ \E r \in matches : Found(h, r)
           \/ Cardinality(matches) # 1 /\ stage[h] = "updated" /\ Refresh(h, "full")
           \/ Cardinality(matches) # 1 /\ stage[h] = "full" /\ Found(h, NoRecord)
    /\ UNCHANGED <<api, cache, fetched, request, creating, known, samples, restarts>>

(* lookupByManufacturerAndSerialFallback: the only device of that maker    *)
(* and serial, whatever its model.                                         *)
Fallback(h) ==
    /\ pc[h] = "fallback"
    /\ LET matches == FindByManufacturerAndSerial(cache, Maker[request[h].key])
       IN  \/ Cardinality(matches) = 1 /\ \E r \in matches : Found(h, r)
           \/ Cardinality(matches) # 1 /\ stage[h] = "updated" /\ Refresh(h, "full")
           \/ Cardinality(matches) # 1 /\ stage[h] = "full"
                /\ Answer(h, 503)
    /\ UNCHANGED <<api, cache, fetched, request, creating, known, samples, restarts>>

-----------------------------------------------------------------------------
(* ensureChannels.  The order of the measurements is left open.            *)

(* The measurement has a channel in the handler's copy of the record.      *)
SkipChannel(h, t) ==
    /\ pc[h] = "ensure" /\ t \in todo[h]
    /\ Resolves(record[h], t)
    /\ todo' = [todo EXCEPT ![h] = @ \ {t}]
    /\ UNCHANGED <<api, cache, pc, fetched, request, stage, record, creating, known, reply, samples, restarts>>

(* The API creates the channel for the deployment it was asked for, with   *)
(* or without a new time stamp on the device's record.                     *)
ApiCreates(d, t) ==
    /\ issued' = issued \cup {<<d, t>>}
    /\ \/ /\ upstream[d.key].deployment # d
          /\ UNCHANGED <<clock, upstream>>
       \/ /\ upstream[d.key].deployment = d
          /\ upstream' = [upstream EXCEPT ![d.key].channels[t] = d]
          /\ UNCHANGED clock
       \/ /\ upstream[d.key].deployment = d
          /\ clock < MaxChanges
          /\ clock' = clock + 1
          /\ upstream' = [upstream EXCEPT ![d.key].channels[t] = d, ![d.key].updatedAt = clock + 1]

(* Mutant: the error is logged and the mapping used all the same.          *)
CreateErrorIgnored(h, t) ==
    /\ pc[h] = "ensure" /\ t \in todo[h]
    /\ ~Resolves(record[h], t)
    /\ creating' = [creating EXCEPT ![h] = [tag |-> t, owner |-> record[h].deployment]]
    /\ GoTo(h, "map")
    /\ UNCHANGED <<api, cache, fetched, request, stage, record, todo, known, reply, samples, restarts>>

CreateChannel(h, t) ==
    /\ pc[h] = "ensure" /\ t \in todo[h]
    /\ ~Resolves(record[h], t)
    /\ ApiCreates(record[h].deployment, t)
    /\ creating' = [creating EXCEPT ![h] = [tag |-> t, owner |-> record[h].deployment]]
    /\ GoTo(h, "map")
    /\ UNCHANGED <<cache, fetched, request, stage, record, todo, known, reply, samples, restarts>>

(* CreateDeploymentChannel returns an error, whether or not the API acted. *)
CreateFails(h, t) ==
    /\ pc[h] = "ensure" /\ t \in todo[h]
    /\ ~Resolves(record[h], t)
    /\ UNCHANGED api \/ ApiCreates(record[h].deployment, t)
    /\ Answer(h, 400)
    /\ UNCHANGED <<cache, fetched, request, creating, known, samples, restarts>>

(* Handlers whose copy of the record may share its array of mappings with  *)
(* the cached one, so that a mapping replaced in place changes theirs too  *)
(* (a data race; whether they share it depends on the slices' capacity).   *)
Sharing(h, k, t) ==
    {g \in Handlers \ {h} :
        /\ pc[g] \in {"ensure", "map"}
        /\ record[g].key = k
        /\ record[g].deployment = cache.byKey[k].deployment
        /\ record[g].updatedAt = cache.byKey[k].updatedAt
        /\ Resolves(record[g], t)
        /\ record[g].channels[t] = cache.byKey[k].channels[t]}

(* UpsertChannelMapping; keys never leave the map, so it finds the record. *)
MapChannel(h) ==
    /\ pc[h] = "map"
    /\ LET k == record[h].key
           m == creating[h]
       IN  /\ cache' = UpsertChannelMapping(cache, k, m.tag, m.owner)
           /\ \E S \in SUBSET Sharing(h, k, m.tag) :
                record' = [g \in Handlers |->
                    IF g = h THEN cache'.byKey[k]
                    ELSE IF g \in S THEN [record[g] EXCEPT !.channels[m.tag] = m.owner]
                    ELSE record[g]]
           /\ todo' = [todo EXCEPT ![h] = @ \ {m.tag}]
    /\ creating' = [creating EXCEPT ![h] = NoChannel]
    /\ GoTo(h, "ensure")
    /\ UNCHANGED <<api, fetched, request, stage, known, reply, samples, restarts>>

(* BuildTelemetry resolves every tag in the record that ensureChannels     *)
(* returned, and the sample is handed to publisher.Enqueue.                *)
Build(h) ==
    /\ pc[h] = "ensure" /\ todo[h] = {}
    /\ \/ /\ \A t \in request[h].tags : Resolves(record[h], t)
          /\ samples' = samples \cup {[by |-> h, known |-> known[h], deployment |-> record[h].deployment,
                channels |-> {<<record[h].channels[t], t>> : t \in request[h].tags}]}
          /\ Answer(h, 200)
       \/ /\ \E t \in request[h].tags : ~Resolves(record[h], t)
          /\ UNCHANGED samples
          /\ Answer(h, 400)
    /\ UNCHANGED <<api, cache, fetched, request, creating, known, restarts>>

(* The process dies, or stops, which main does without waiting for the     *)
(* handlers, and starts anew: the cache is gone, requests are cut off.     *)
Restart ==
    /\ restarts < MaxRestarts
    /\ restarts' = restarts + 1
    /\ cache' = EmptyCache
    /\ pc' = [c \in Clients |->
          IF c = Poller THEN "load"
          ELSE IF pc[c] \in {"idle", "rejected", "done"} THEN pc[c] ELSE "cut"]
    /\ fetched' = [c \in Clients |-> {}]
    /\ stage' = [h \in Handlers |-> "cached"]
    /\ record' = [h \in Handlers |-> NoRecord]
    /\ todo' = [h \in Handlers |-> {}]
    /\ creating' = [h \in Handlers |-> NoChannel]
    /\ UNCHANGED <<api, request, known, reply, samples>>

HandlerStep(h) ==
    \/ Lookup(h) \/ Fetch(h) \/ FetchFails(h) \/ Apply(h)
    \/ Fallback(h) \/ MapChannel(h) \/ Build(h)
    \/ \E t \in Tags : SkipChannel(h, t) \/ CreateChannel(h, t) \/ CreateFails(h, t)

Next ==
    \/ \E k \in Keys : Register(k) \/ Redeploy(k)
    \/ FetchInitial \/ Poll \/ PollApply
    \/ Restart
    \/ \E h \in Handlers : Receive(h) \/ Reject(h) \/ Resend(h) \/ HandlerStep(h)

Spec == Init /\ [][Next]_vars

(* The initial load succeeds, the ticker of Start ticks and its requests   *)
(* are answered now and then; a handler runs, and its requests end with an *)
(* answer or an error, never in errors alone; devices send again.          *)
Fairness ==
    /\ WF_vars(FetchInitial) /\ WF_vars(Poll) /\ WF_vars(PollApply)
    /\ \A h \in Handlers :
        /\ WF_vars(HandlerStep(h)) /\ WF_vars(Resend(h))
        /\ \A how \in {"updated", "full"} : SF_vars(stage[h] = how /\ Fetch(h))
        /\ \A t \in Tags : SF_vars(CreateChannel(h, t))

FairSpec == Spec /\ Fairness

-----------------------------------------------------------------------------
(* Every variable keeps its type; a local is set only where it is used.    *)
TypeOK ==
    /\ clock \in 1..(MaxChanges + 1)
    /\ upstream \in [Keys -> Records \cup {NoRecord}]
    /\ issued \subseteq Deployments \X Tags
    /\ cache \in Caches
    /\ pc \in [Clients -> {"load", "loaded", "idle", "lookup", "fetch", "apply",
                            "fallback", "ensure", "map", "done", "rejected", "cut"}]
    /\ pc[Poller] \in {"load", "loaded", "idle", "apply"}
    /\ fetched \in [Clients -> SUBSET Records]
    /\ request \in [Handlers -> [key : Keys, tags : SUBSET Tags]]
    /\ stage \in [Handlers -> {"cached", "updated", "full"}]
    /\ record \in [Handlers -> Records \cup {NoRecord}]
    /\ todo \in [Handlers -> SUBSET Tags]
    /\ creating \in [Handlers -> [tag : Tags, owner : Deployments] \cup {NoChannel}]
    /\ known \in [Handlers -> BOOLEAN]
    /\ reply \in [Handlers -> {0, 200, 400, 404, 503}]
    /\ restarts \in 0..MaxRestarts
    /\ samples \subseteq [by : Handlers, known : BOOLEAN, deployment : Deployments,
                           channels : SUBSET (Deployments \X Tags)]
    /\ \A h \in Handlers :
        /\ (pc[h] \in {"done", "rejected"}) <=> (reply[h] # 0)
        /\ (creating[h] # NoChannel) <=> (pc[h] = "map")
        /\ (pc[h] \in {"ensure", "map"}) <=> (record[h] # NoRecord)
        /\ fetched[h] # {} => pc[h] = "apply"
        /\ pc[h] \in {"idle", "done", "rejected", "cut"} => stage[h] = "cached"
        /\ pc[h] \in {"fetch", "apply", "fallback"} => stage[h] # "cached"

(* Once the cache holds something, a device that it lacks has a time stamp *)
(* at its cursor or past it, whoever applied which answer in what order:   *)
(* asking at the cursor finds the device.  (UpdatedAt, UpsertMany)         *)
NothingSkipped ==
    cache # EmptyCache =>
        \A k \in Keys : upstream[k] # NoRecord /\ ~Has(cache, k)
                            => upstream[k].updatedAt >= cache.updatedAt

(* A sample is written to a deployment of the device that sent it, unless  *)
(* the API did not know that device when the request came in: the fallback *)
(* by maker and serial never misroutes a registered device.                *)
RightDevice ==
    \A s \in samples : s.deployment.key = request[s.by].key \/ ~s.known

(* No sample names a channel that the API did not create, whatever failed  *)
(* between the request for the channel and the telemetry.                  *)
NoPhantomChannel == \A s \in samples : s.channels \subseteq issued

(* A handler answers "not found" only for a device that the API did not    *)
(* know when the request came in, even if the cache was empty until then.  *)
NotFoundOnlyIfUnknown == \A h \in Handlers : reply[h] = 503 => ~known[h]

(* What these invariants rest on.  Every record that anyone holds is one   *)
(* that the API sent: of a device it knows, with channels that it created. *)
Sound(r) ==
    /\ upstream[r.key] # NoRecord
    /\ r.deployment.key = r.key
    /\ r.updatedAt <= clock + 1
    /\ \A t \in Tags : Resolves(r, t) => <<r.channels[t], t>> \in issued

RecordsSound ==
    /\ \A k \in Keys : upstream[k] # NoRecord =>
            /\ Sound(upstream[k]) /\ upstream[k].key = k
            /\ upstream[k].updatedAt \in 1..clock
            /\ upstream[k].deployment.since \in 1..upstream[k].updatedAt
    /\ \A k \in Keys : Has(cache, k) => Sound(cache.byKey[k]) /\ cache.byKey[k].key = k
    /\ cache.updatedAt <= clock + 1
    /\ \A c \in Clients : \A r \in fetched[c] : Sound(r) /\ r.updatedAt <= clock
    /\ \A h \in Handlers : record[h] # NoRecord => Sound(record[h]) /\ Has(cache, record[h].key)
    /\ \A h \in Handlers : creating[h] # NoChannel =>
            <<creating[h].owner, creating[h].tag>> \in issued

(* A handler whose device was known when its request came in finds it      *)
(* after the list of all devices at the latest.                            *)
Listed(h, stages) ==
    known[h] =>
        LET key == request[h].key IN
        /\ upstream[key] # NoRecord
        /\ stage[h] \in stages =>
            /\ pc[h] = "apply" => Has(cache, key) \/ \E r \in fetched[h] : r.key = key
            /\ pc[h] = "lookup" => Has(cache, key)
            /\ pc[h] # "fallback"

FoundInFullList == \A h \in Handlers : Listed(h, {"full"})

(* With an API that knows a device from the start and dates every record,  *)
(* the list of updated devices is enough: nothing is missing from the      *)
(* cache that an answer on its way would put behind the cursor.            *)
Stamped == Registered # {} /\ \A k \in Keys : Stamp[k] # "none"

Active == {h \in Handlers : pc[h] \notin {"idle", "done", "rejected", "cut"}}

CacheFilled ==
    /\ pc[Poller] = "loaded" => fetched[Poller] # {}
    /\ pc[Poller] \in {"idle", "apply"} => cache.updatedAt > 0 /\ \E k \in Keys : Has(cache, k)
    /\ Active # {} => pc[Poller] \in {"idle", "apply"}

AnswersComplete ==
    \A c \in Clients : \A r \in fetched[c] :
        /\ r.updatedAt > 0
        /\ \A k \in Keys :
              \/ upstream[k] = NoRecord \/ Has(cache, k)
              \/ \E q \in fetched[c] : q.key = k
              \/ upstream[k].updatedAt >= r.updatedAt

Served ==
    /\ \A h \in Handlers :
        /\ Listed(h, {"updated", "full"})
        /\ record[h] # NoRecord /\ known[h] => record[h].key = request[h].key
    /\ \A s \in samples : pc[s.by] # "idle"

(* All of it together is inductive (IngestService_proofs).                 *)
IInv ==
    /\ TypeOK /\ RecordsSound /\ FoundInFullList
    /\ Registered # {} => \E k \in Keys : upstream[k] # NoRecord
    /\ Stamped => CacheFilled /\ NothingSkipped /\ AnswersComplete /\ Served

(* While the process lives, answers applied late or out of order never     *)
(* take a device out of the cache, which ensureChannels counts on, nor     *)
(* move the cursor back.                                                   *)
CacheGrows ==
    [][restarts' = restarts =>
        /\ cache'.updatedAt >= cache.updatedAt
        /\ \A k \in Keys : Has(cache, k) => Has(cache', k)]_vars

(* Every request gets an answer, unless the process dies: the refreshes of *)
(* a missed lookup and the creation of channels come to an end.            *)
Answered == \A h \in Handlers : pc[h] = "lookup" ~> reply[h] # 0 \/ pc[h] = "cut"

(* An upload of a device that the API knows is accepted in the end if the  *)
(* device keeps sending it: whatever failed half-way, in the API, by a     *)
(* redeployment or by the death of the process, does not stand in the way  *)
(* of the next attempt (docs/payloads/comet/TAx6xx_PAx6xx/                 *)
(* json-description.txt:25, service.go:131).                               *)
AcceptedInTheEnd ==
    \A h \in Handlers : pc[h] = "lookup" /\ known[h] ~> reply[h] = 200

(* The cache has the record of the device's current deployment.            *)
Fresh(k) == Has(cache, k) /\ cache.byKey[k].deployment = upstream[k].deployment

(* With the poller alone, a device that is missing from the cache or out   *)
(* of date in it has a time stamp at the cursor or past it: the next poll  *)
(* asks for it, and no answer, however late, moves the cursor past what it *)
(* does not bring (pollOnce, UpsertMany).                                  *)
NothingStale ==
    cache # EmptyCache =>
        \A k \in Keys : upstream[k] # NoRecord
                            => Fresh(k) \/ upstream[k].updatedAt >= cache.updatedAt

(* When the API has stopped changing, the cache is up to date with every   *)
(* device that the API has: "Polling keeps the cache fresh" (pollOnce).    *)
CacheEventuallyFresh == <>[](\A k \in Keys : upstream[k] # NoRecord => Fresh(k))

(* A sample's channels belong to the deployment it is written to: "values  *)
(* inside that deployment are identified by channel_id".  The code does    *)
(* not ensure it: the device may be redeployed while its channel is made.  *)
ChannelsOfDeployment ==
    \A s \in samples : \A c \in s.channels : c[1] = s.deployment

=============================================================================
