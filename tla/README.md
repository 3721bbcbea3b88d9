# Verification of the device handler

TLA+ models of the device handler service, configurations that check them with TLC,
and proofs for TLAPS. Paths are relative to the repository, line numbers to the
commit that this directory accompanies. `PROJECT.json` maps each definition to the
lines it models and lists runs, findings, hazards and theorems.

    tlc -workers 2 -config publisher_safety.cfg MCBufferedPublisher
    tlapm BufferedPublisher_proofs.tla

## The system

The service takes uploads of measuring devices over HTTP, finds the device in a cache
that mirrors a REST API, and writes telemetry to NATS JetStream in batches. `main`
loads the cache, connects to NATS and starts these goroutines:

    HTTP handlers --Lookup/Upsert--> DeviceCache <--UpsertMany-- Syncer.Start (poller)
         |    \                                                      |
         |     `----FetchUpdated/FetchDevices/Create----> JWTClient <'
         |                                                  | c.mu, token
         v                                                  v
    BufferedPublisher.Enqueue                           device API
         | p.mu, buffer, flushing
         +--flush-- goroutine of an Enqueue, or the ticker --> JetStreamPublisher --> NATS

| Component | State | Operations | What is hard | What makes it correct |
|---|---|---|---|---|
| Buffered publisher (`publish/buffered.go`) | buffer, flushing flag, retry counters and not-before times, depth gauge | Enqueue, ticker, flush, failure handling with backoff | any handler may start a flush while another runs; items arrive during a publish that then fails; late acknowledgements; shutdown | one flush at a time; nothing lost, duplicated or overtaken inside the process; bounded retries; every item settled |
| JetStream publisher (`publish/jetstream_publisher.go`) | connection | Publish, Close, ReadyStatus | a publish may be stored and still fail; the broker may be away when the service starts, or for long | what is confirmed is stored; the connection comes back by itself |
| Device cache (`cache/device_cache.go`) | records by key, the cursor `updatedAt` | UpsertMany, Lookup, UpsertChannelMapping, FindBy… | answers applied late and out of order; mappings changed in place | keys stay, the cursor never passes a device that is missing |
| Syncer (`cache/syncer.go`) | time and error of the last sync | InitialLoad, pollOnce, ReadyStatus | the poll races with refreshes of the handlers; half of a poll fails; requests are slow | the cache catches up with the API; ready means that it is recent |
| Ingest service (`ingest/service.go`) | none of its own | Handle: lookup, refresh, fallback, channel creation, telemetry | several API calls between a read of the cache and its use | a sample goes to the device that sent it, with channels of its deployment; every request is answered; what failed half-way does not stop the next attempt |
| HTTP server (`ingest/server.go`) | none | handleDevices, handleReady, handleHealth | errors become statuses that tell the device whether to retry; a stop cuts requests off | the probe says ready when the service can work |
| JWT client (`api/client.go`) | token, its expiry, mutex | four API calls, login, retry after a 401 | callers share the token: each may clear or replace it under the others | one login for all, no retry under a stale token, no channel created twice |
| Device update store | list of updates | AddMany, Snapshot | grows with every poll | |
| Parsers (ULogger, WebSensor, SOAP Tx), registry | none | Parse, Register, Lookup | one entry of a payload may be unused, an error or unreadable | a sample holds what was measured, under the right channels, and no error code |
| Configuration, metrics, protobuf, log publisher, simulator | | | | not part of the core logic |

## Modules

| Module | What it is |
|---|---|
| `TelemetryRelay` | what the publisher promises: a queue of accepted items; a batch of the oldest is sent, and may be stored whether or not the sender learns of it |
| `BufferedPublisher` | `buffered.go` and `JetStreamPublisher.Publish`; implements `TelemetryRelay` |
| `DeviceCache` | operators of `device_cache.go`, one for each critical section of the cache's mutex |
| `IngestService` | request handlers, poller and device API around one shared `DeviceCache`; restarts of the process |
| `JWTClient` | the token, login and retry of `client.go` |
| `Syncer` | `syncer.go` in time: load, poll, readiness |
| `Readiness` | `Syncer` composed with the connection to NATS and with `main`, as the readiness probe sees them |
| `Parsers` | operators of the three parsers under `device/comet`, from a payload to measurements |
| `Uploads` | the payloads of one device through parser, channels and `BuildTelemetry` |
| `MCBufferedPublisher`, `MCIngestService`, `MCJWTClient`, `MCSyncer` (with `Readiness`), `MCUploads` | instances for TLC |
| `TelemetryRelay_proofs`, `BufferedPublisher_proofs`, `PublisherRelay_proofs`, `IngestService_proofs`, `JWTClient_proofs`, `Syncer_proofs`, `Readiness_proofs`, `Uploads_proofs` | proofs; `PublisherRelay_proofs` extends `BufferedPublisher_proofs` and instantiates `TelemetryRelay_proofs`, `Readiness_proofs` extends `Syncer_proofs` |

The modules meet at two places. The sample that `Build` hands over in `IngestService` is the
item that `Enqueue` takes in `BufferedPublisher`, which is `Accept` of the relay: Enqueue
returns no error, so an upload answered 200 has entered the relay, and `RelaySpec` says what
becomes of it. And each call of the API that `IngestService` and `Syncer` make in one step is a
call of `JWTClient`, which ends (`CallsEnd`) and creates a channel at most once (`CreatedOnce`).

### BufferedPublisher

The buffer is a sequence of `[id, retryCount, wait]`; `wait` is the time left until
`notBefore`. Threads are the goroutines: the ticker, and for each item the handler that
enqueued it together with the flush goroutine that this `Enqueue` may start. An action
is one critical section of `p.mu` or one call made outside it: `Enqueue` and `SetDepth`
(the gauge is set after the unlock), `Dequeue` and `NothingToFlush` (dequeueReadyBatch),
`Cancelled`, `Send`, `PublishAcked`, `PublishFails` (what the call of Publish does),
`Requeue` and `ReportDepth` (handlePublishFailure), `FinishFlush`. The broker stores
requests in order (`BrokerStores`), requests and acknowledgements may be lost
(`RequestLost`, `PublishFails` after the broker stored the batch). `Cancel` is the signal,
`TickerStops` the `ctx.Done` branch, `Exit` the return of `main`, possible at any time
after the signal since nothing waits for the flush. Items are interchangeable, so they
are numbered in the order in which they get the mutex.

Properties: `SingleFlight` (the flag is a lock), `QueueHoldsPending` (each unsettled item is
in the batch or the buffer, once, in order of arrival), `NeverOvertakes` (the broker sees
the first copies of the items in that order), `RetriesBounded`, `StoredAsPublished`,
`SettledForGood` (an action property: no late answer touches a settled item),
`BrokerInv` (what the proofs need of the requests: they are sent in turn, when everything older
is settled or in them, are known by their ids, and no attempt makes two copies),
`EventuallySettled` and `FlushEnds` (liveness), and the refinement `RelaySpec`.

### DeviceCache and IngestService

A key stands for manufacturer, model and serial after normalisation. Deployments are
known by the time they were made, channels by deployment and tag, and time stamps are
the API's: the API's clock ticks with every change. Each call of the API takes two
steps, the answer and its use (`Fetch` and `Apply`, `FetchInitial` or `Poll` and `PollApply`,
`CreateChannel` and `MapChannel`), so that answers overtake each other. A handler goes through
`Receive`, `Lookup`, `Fetch`, `Apply`, `Fallback`, one `SkipChannel` or
`CreateChannel`/`MapChannel` per measurement, and `Build`; `FetchFails`, `CreateFails` and
`Reject` are the error paths, and `reply` is the status that `handleDevices` makes of them.
`CreateFails` may or may not have created the channel. `Sharing` models the data race of
`UpsertChannelMapping`: a mapping replaced in place may or may not show in another handler's
copy of the record; a 64-bit id is written whole, and the two tags are equal after
normalisation, so nothing is torn.

An answer is decoded (`DevicesIn`): the list may be in either of two fields, and the stamp of a
record is one of two fields or missing (`Stamp`, fixed for each device). A device sends again
what was not answered with 200 (`Resend`). `Restart` is the death of the process, by a
crash or by a stop, as `main` waits for no handler: cache and locals are gone, requests are
cut off, and the initial load comes again before requests are served.

Properties: `NothingSkipped` (a device that the cache lacks is at the cursor or past it),
`RightDevice` (the fallback never misroutes a device that the API knew), `NoPhantomChannel`,
`NotFoundOnlyIfUnknown`, `NothingStale` (what the cache lacks, or has of a former deployment, is
due for the next poll; with the poller alone, as finding 2 is what handlers do to it),
`CacheGrows` (an action property), `Answered`, `AcceptedInTheEnd` (a known device that keeps
sending is served, whatever failed before) and `CacheEventuallyFresh` (liveness).

What the API does is an assumption: the list of updated devices holds every device whose
time stamp is at the requested one or after it, every change gets a later stamp, and
channels are created for the deployment that was asked for, current or not, with or
without a new stamp on the device. Stamps may be finer than a second: a second has `Second`
of them, while the request has whole seconds only (`InSeconds`). It is left open whether the API
would make a second channel for a tag that has one.

### JWTClient

`holder` is who holds `c.mu`; it is held from the check of the token to the end of the
login (`Login`, `GrantToken`, `LoginReturns` or `LoginFails`), and for an instant in
`ReuseToken` and `ClearToken`. `Serve` is the API's answer to a request, `Finish` and
`RequestFails` the ways out of doJSON. Tokens are numbered; the API may revoke any
(`Revoke`) and `Expire` brings the cached one within the leeway.

Properties: `LoginsExclude`, `SecondRejectionJustified` (a call that fails with 401 twice was
hit by a revocation in between), `CreatedOnce`, `LoginsShared` (no more logins than reasons
for one), `CallsEnd` (liveness).

### Syncer

Time is a set of ages that count ticks up to the last value that matters: `syncAge` since
`lastSuccessfulSync`, `cacheAge` since the API put together what the cache holds. `pc` is
the place in `InitialLoad`, then in the goroutine of `Start`; a request takes up to `CallTime`
ticks, and its answer may be old when it arrives (`DevicesAnswered`, then `LoadDevices` or
`PollDevices`). `PollDevicesFails`, `PollUpdates` and `PollUpdatesFails` are the other halves of
`pollOnce`, `EndPoll` its end. `ticker.C` holds one tick (`tick`); a slow poll finds it
waiting. Either endpoint may break down and come back at any time, and the context be
cancelled. `CallTime` is the longest that a call of the API takes, the wait for `c.mu` behind other
callers' logins included; no proof assumes a bound on it. `cacheAge` stands for the
cache's contents: that an answer of the poll brings them up to the time of that answer is what
`sync_fresh` shows, for records with time stamps and a cache that no handler fills. Without these
two conditions it may not (finding 2, and the notes on the cursor below), and `cacheAge` is then
the age of the last answer, not of every record.

Properties: `ReadyMeansRecent`, `FreshWithoutUpdates` and `ReadyAgain` (liveness).

### Readiness

Its steps of the syncer are those of `Syncer`, whose variables nothing else touches. `main`
is before, in or after `ListenAndServe`; `nats` is the status of the connection. With
`RetryOnFailedConnect` an unreachable broker is no error for `StartService`; `Disconnect` and
`Reconnect` are what the NATS client does by itself. `EndService` comes at any time once the
context is done. A port that cannot be bound ends the process like a failed initial load
(`StartupFails` of `Syncer`). `ServiceReady` is what `handleReady` answers.

Property: `ServiceReadyAgain`: when API and broker are back for good, so is readiness.

### Parsers and Uploads

A channel entry is reduced to the classes of values that the parsers tell apart: for a
hex value, a number, an error code, an error code behind `0x`, or neither. A parsed
measurement is a name and the position it was read from, so that a sample can be compared
with its payload. `Parsers` says of each format what can be read (`Readable`), what becomes of an
entry (`Outcome`: keep, skip or fail), its name, and the rest of the result. `Uploads` goes through
`Receive` (registry and header) or `Unsupported`, the loop of `Parse` (`KeepChannel`,
`PassOverChannel` or `ParseFails` for each entry, then `ParseReturns`), the loop of `ensureChannels`
(`SkipChannel`, `CreateChannel` or `CreateFails` for each measurement), and `Build`; mappings and
channels stay for the next upload. `measured` is the list of measurements that both loops share.
Names come in two spellings of one, and blank; the API may answer the
creation with the tag as sent, in its normal form or with none (`AnsweredTags`). `CreateFails`
is any error of that call: the API may have refused the channel, or have created it while the
answer was lost, late or unreadable; the channel then stays without a mapping, and the API, taken
at its worst, makes another one when it is asked again. Times are
seconds on a small scale: 2000 is second 4, and an integer has 16 bits instead of 64 (`Int64`,
`Uint64`), which keeps what wraps apart from what does not.

Properties: `SampleFaithful`, `ErrorsTolerated` and `MappedChannelIsLast`. The first two compare what
the parser loops, `ensureChannels` and `BuildTelemetry` do together with a definition of
usable channels, and of the time of a payload (`Epoch`), taken from the devices' documentation in
`docs/payloads`. The third says that a name is asked for only until one answer arrives: the
mapped channel is the last of its name. That there is only one channel of a name is not true,
as each lost answer leaves one more.

## Runs

| Run | Instance | Shows |
|---|---|---|
| `publisher_safety` | 3 items, flush count 2, 1 retry, no stop | the safety properties and both inductive invariants |
| `publisher_liveness` | 2 items, 1 retry, with a stop, fairness | the publisher implements the relay; every item is settled, every flush ends |
| `ingest_safety` | 2 handlers, 2 models of one maker and serial, 1 tag, 2 changes, 1 restart; either kind of stamp, 3 to a second | cache and routing invariants, and the inductive one |
| `ingest_answers` | 1 handler, 2 devices, 1 tag, 2 changes, 1 restart; the API is empty at start and omits the stamp of one device; stamps of half a second; devices send again, fairness | every request is answered, with 503 only for unknown devices, and accepted in the end |
| `sync_fresh` | no handlers, 2 devices, 4 changes, 1 restart, 3 stamps to a second, fairness | what is stale is due for the next poll, and the poller catches up |
| `client` | 2 callers, 1 call each, fairness | token, login and retry invariants; every call ends |
| `readiness` | interval of 2 ticks, requests of up to 1, API and broker fail at any time, fairness of the whole service | readiness tells the truth and recovers; half a poll is enough for the devices |
| `uploads` | 2 uploads, payloads of up to 2 channels (4 for SOAP, 2 of them not plain numbers) | samples are faithful, errors tolerated, nothing created again once answered |
| `publisher_shutdown`, `ingest_stale_cache`, `ingest_foreign_channel`, `uploads_duplicates` | small | findings 1 to 4 below |

Why the bounds are enough. Publisher: three items are a full batch in flight plus one that
arrives during it, or two that fail and are put back before one that waits; one retry
reaches both the retry and the drop. A stop may happen in the instances of two items
(`Stops`); that it breaks no invariant for more is proved. Ingest: a race needs
one client that holds an old answer and one that applies a newer one, and a third change
that moves the cursor; two keys of one maker and serial are what the fallback needs to
go wrong; one tag is enough for a mapping that is missing, made twice or replaced in place,
and with two the instance is too large for TLC. With three stamps to a second a cursor is at the
start, in the middle or at the end of its second, and changes come before and after it in that
second or in the next one. One restart finds every handler wherever it
may be, and a second would find it no differently. Handlers serve any request and tags are
all alike, so that they are symmetric (`Alike`); keys are not, because of `Registered` and
`Stamp`. Only the run without liveness uses the symmetry. Client: two callers, one
that sees its token rejected while the other logs in, and a token that is revoked or near its
expiry when the other's call begins. Syncer: a poll of two requests that just fits in its
interval, the limit of `ReadyAgain`; both bounds on the cache's age are tight there. Uploads:
two channels can be equal, in either order, and one of them unused or in error; a second
upload meets what the first one left behind. TLC's results say nothing about larger
instances; the proofs below do.

No run checks for deadlock: the process stops after a signal, requests and calls are
bounded in number, and the API stops changing at its bound.

### Fairness

- Publisher: each goroutine runs, the ticker fires, time passes, and the context's timeout
  ends every publish. Delivery is not assumed: an item may be settled by being dropped.
  After a stop nothing is promised but that the flag is not held for good; a flush count
  of at least 1 is assumed.
- Ingest: a handler's next step is taken, as every API call ends in an answer or in
  the client's timeout; the ticker fires and its request succeeds now and then, without
  which no cache stays fresh. `AcceptedInTheEnd` further needs a device that sends again
  (its documentation says so) and an API that does not answer each request of a kind, and each
  creation of a channel, with an error for ever: strong fairness of those steps, for
  between two attempts they are not enabled. `Answered` needs none of this.
- Client: a call under way goes on; `http.Client.Timeout` bounds each request, and Go's
  mutex hands itself to a waiter that starves.
- Syncer: its goroutine runs and time passes; a request that is answered at all is answered
  within `CallTime` (`http.Client.Timeout` of the login, the request and the retry, and of the logins
of the callers before it, whom the mutex serves first). In `Readiness` the NATS
  client notices a lost connection and tries again, for ever (`MaxReconnects(-1)`); that broker
  and API are back for good is a premise of the property, not fairness.

### Findings

1. `publisher_shutdown`: the last flush runs under the context that was just cancelled
   (`buffered.go:66`), so its publish fails; what it puts back is never retried, though
   retries are left, as the process ends (`README.md:98`).
2. `ingest_stale_cache`: an old answer applied late overwrites a newer record
   (`device_cache.go:47`) that the cursor has already passed.
3. `ingest_foreign_channel`: a device redeployed during the creation of a channel gets a sample
   with a channel of the old deployment (`service.go:228`).
4. `uploads_duplicates`: two probes that measure the same quantity share a channel
   (`types.go:74`), as in the repository's PA8652 payload; `docs/protobuf.md:257` has the
   receiver reject such samples.

Seen while modelling, without a run:

- Publisher: each attempt draws a new transmission id (`buffered.go:136`), so a copy stored after
  a lost acknowledgement cannot be recognised by it (`docs/protobuf.md:121`). The depth gauge is
  set after the unlock (`buffered.go:82`) and may stay wrong, although it is "the current number
  of items waiting" (`app_metrics.go:51`). A flush count of 0 publishes nothing (`config.go:113`),
  and an interval of 0 makes `time.NewTicker` panic.
- Shutdown: `main` returns as soon as `ListenAndServe` does, which is when `Shutdown` begins
  (`main.go:115`); requests under way are cut off and the shutdown timeout has no effect.
- Cursor: the zero cursor of an empty cache becomes "now" (`client.go:476`), so the poller
  never learns of devices registered between polls until a handler refreshes in full. A record
  without time stamp moves the cursor to the local clock (`device_cache.go:45`), past changes
  that are not in the cache, from where only the full refresh of a handler brings them in. An
  answer with none of the known fields counts as an empty list.
- Requests: a failed refresh after a cache miss is answered with 400 (`service.go:143`) although
  the comment at `server.go:125` wants a retryable status. Two handlers that miss the same
  channel both create it (`service.go:209`), and so does one that comes again after a lost
  answer. A request that asked with the zero cursor of an empty cache may be misrouted by the
  fallback when another handler fills the cache, so `RightDevice` is checked and proved for an
  initial load that found a device.
- Client: a caller waits for the mutex without regard to its own context while others' logins
  fail one after the other (`client.go:290`); a retried POST carries the reader that the first
  attempt consumed (`client.go:229`).
- Parsers: a ULogger's failed probe rejects its whole payload (`ulogger/parser.go:162`), where a
  WebSensor's is passed over; an error code behind `0x` is not passed over but rejects the
  payload (`websensor/parser.go:144`), though the device's documentation has no `0x`. A
  WebSensor's note that its clock is not valid is not looked at (`json-description.txt:156`), a
  ULogger's "unknown" signal of 98 or 99 is stored as a signal (`ULoggerJsonDoc.txt:151`), and a
  time before 1970 becomes a huge number (`types.go:64`), for which `SampleFaithful` makes an
  exception.

## Proofs

Each proof module shows an inductive invariant and derives the properties from it,
for all values of the constants under the modules' named assumptions:
`ConstantsAssumption` (the publisher's parameters are natural numbers, zero included, with or
without a stop); `NullsAssumption`, `MakerAssumption` and `IngestAssumption` (there is a key, what
stands for "none" is no record and no channel, the poller is no handler, bounds are natural
numbers, a second has at least one time stamp); `ClientAssumption` (there is a caller, and
`Nobody` is none); `TimeAssumption` (the interval is positive, a request may take any time or
none); `UploadsAssumption` (a payload's channels are a list, its time is an integer of the
program, a WebSensor's values are of one of the classes). The relay's own theorems state their hypotheses, natural numbers, themselves.

`TelemetryRelay_proofs`: `RelayKeepsPromise`, `RelaySettlesOnce`. What a user of the publisher may
count on, whatever it is made of: items are first attempted in the order of their arrival
(`OldestFirst`), stored at most once per attempt, delivered only if stored, and given up only
after all attempts (`AtLeastOnce`). That a batch is the oldest part of what is pending gives the
order only together with `SettledWasAttempted`: what is older and no longer pending was tried.

`BufferedPublisher_proofs`: `TypeCorrect`, `FlushesExclude`, `Invariant`, `NothingLost`,
`RetriesAreBounded`, `SettledStaysSettled`. `QueueHoldsPending` is not inductive alone: that the
buffer holds the items behind the batch in flight needs that only one flush is under way,
for `Requeue` puts its batch before whatever arrived meanwhile. So `IInv` joins it with the
lock (`SingleFlight`) and with `RetriesCounted`, which ties each entry's counter to the number
of attempts made. Lemmas on sequences say what retrying and restoring do to a batch.

`PublisherRelay_proofs`: `BrokerInvariant`, `NothingOvertakes`, `ConfirmedIsStored`,
`PublisherImplementsRelay`, `PublisherKeepsPromise`. Requests outlive the flush that sent them, so what the broker may
still see cannot be read off the buffer. `BrokerInv` adds, on top of `IInv`: stored requests and
those on their way are in turn (`SentInTurn`), because each went out when everything older was
in it or settled and settled items stay so (`SentWhenDue`); a request's id tells whose it
is, so that an acknowledgement settles the items of that very request; and of each attempt there
is at most one copy, still to be sent, on its way or stored (`CopiesCounted`). For the
refinement, `QueueHoldsPending` makes a dequeued batch the oldest pending items; then each
action is `Accept`, `Attempt`, `Store`, `Deliver` or `Fail` of the relay or changes nothing
that it sees. `PublisherKeepsPromise` then reads the relay's promise with the publisher's state.

`IngestService_proofs`: `ServiceTypes`, `CacheOnlyGrows`, `ChannelsExist`, `NotFoundIsTrue`,
`CursorIsSafe`, `NeverMisrouted`, `ServiceInvariant`, `StaleIsDue`. `TypeOK` and `RecordsSound` (each record anyone holds came from
the API, with channels it created) are inductive together; on them rest `FoundInFullList` and,
if the API knew a device from the start and dates its records (`Stamped`), what
`NothingSkipped` needs: the cache holds something once requests are served
(`CacheFilled`), and no answer on its way would move the cursor past a device that neither
cache nor answer holds (`AnswersComplete`). That a known device is found by its own key
(`Served`) then follows after the updated list already, so the fallback is never reached
for it. `ServiceInvariant` states all of `IInv`. `Stamped` cannot be dropped: see the notes on the
cursor above.

`StaleIsDue` is `NothingStale` for a poller without handlers (`Handlers = {}`, the instance of
`sync_fresh`; with handlers it is false, which is finding 2). The invariant beside it,
`AnswerUpToDate`, is about an answer that waits to be applied while devices change: each device
is in it with its current deployment, or has a stamp at the cursor and at every stamp of the
answer, or past them, so that applying the answer cannot move the cursor past it. A change
keeps this as the API's clock ticks with it; `UpsertMany` turns it into `NothingStale` again.

`JWTClient_proofs`: `ClientInvariant`, `ClientTypes`, `LoginsAreExclusive`, `RejectionsAreJustified`,
`CreationsAreSingle`, `LoginsAreShared`. That a second 401 is justified needs
`RetryHasValidToken`: in a retry, unless something was revoked since, the cached token and
those granted to anyone are valid. It is established in `ClearToken`, which waits for
the mutex and therefore runs when no login is under way; a token that another caller
installs afterwards was granted after the rejection.

`Syncer_proofs`: `SyncerInvariant`, `SyncerTypes`, `ReadyIsRecent`. `ReadyMeansRecent` bounds the
cache's age by a constant and so cannot be carried through a step; the invariant relates
it to `syncAge` (`CacheKeepsUp`), which a good sync resets while the cache keeps the age of the
answer, up to two requests (`FirstHalfRecent`, `AnswerOnItsWay`). No bound on `CallTime`
against the interval is needed.

`Readiness_proofs`: `ServiceImplementsSyncer`, a refinement with the identity as mapping, which
carries `ReadyMeansRecent` over to the whole service (`ReadyServiceIsRecent`).

`Uploads_proofs`: `UploadTypes`, `SamplesAreFaithful`, `FailedProbesTolerated`, `AnsweredOnce`.
Both loops are steps of the model, so what they keep is an invariant of them and no induction
over data. In `Parse`, what is measured so far are the entries before `next` that the parser
keeps, each once and by its name (`MeasuredBefore`, `Parses`); in `ensureChannels` that stays so,
and every measurement before `next` has a channel or no name (`Ensures`). `OutcomeIsRight` compares
entry by entry what the parser keeps with the definition of a usable channel taken from the
devices' documentation. `Build` then finds a channel for every name, so that its sample
has the usable channels and nothing else. `Answers` says why a request was turned away; a
WebSensor or a SOAP device whose entries can all be read gives none of those reasons.
`AnsweredOnce` states `MappedChannelIsLast`. Its invariant `ChannelsMapped` adds that the tag of a
mapping counts as its channel's own name, whatever form of it the API answers with, as
normalising twice is normalising once, and that no two mappings have one channel. So a name
that is created has no mapped channel, whether the answer arrives or not: no mapped channel
gets a younger namesake.

Every invariant and action property of the passing runs is stated by a theorem. Only
model-checked: all liveness (`EventuallySettled`, `FlushEnds`, `Answered`, `AcceptedInTheEnd`,
`CacheEventuallyFresh`, `CallsEnd`, `FreshWithoutUpdates`, `ReadyAgain`, `ServiceReadyAgain`), as
fairness is out of the prover's reach. `StaleIsDue` and `NothingLost` are the safety halves of
two of them: what is stale is asked for, and what is not settled is still in line.

## Not modelled

- The protobuf encoding copies fields and has no state; `telemetrypb` is generated.
- The update store, which nothing reads; the request that fills it is in `Syncer`.
- What `tokenExpiry` reads from a token: a login returns a token of any expiry.
- Units and numbers of a sample; subjects of the publisher, which ingest leaves empty.
- Configuration, which is read once: what it lets through is an assumption on the constants,
  and a flush count or an interval of 0 is a note above. Metrics but the depth gauge,
  logging and the log publisher, which `main` does not use.
- HTTP details of the server: method, query parameters and reading the body.
- The composition of all modules in one state space, which TLC could not exhaust; they are
  linked at the interfaces named under Modules.

## Plan

Done: 1. `BufferedPublisher` with `TelemetryRelay`; 2. `DeviceCache` and `IngestService`, with
restarts, devices that send again, and the decoding of lists; 3. `JWTClient`; 4. `Syncer`;
5. `Parsers` and `Uploads`, with times; 6. `Readiness`, the composition of syncer, broker
connection and `main`; 7. proofs of all safety properties, of the refinement of the relay and
of what the relay promises.
To do:

8. The stop of the whole process over the publisher and the handlers at once: an upload
   answered 200 is stored, dropped after its retries, or lost by the stop.
9. A second tag for `ingest_safety`, if the state space can be made smaller.
