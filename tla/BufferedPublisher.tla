------------------------- MODULE BufferedPublisher -------------------------
(***************************************************************************)
(* internal/publish/buffered.go: the in-memory queue between the HTTP      *)
(* handlers and JetStream.                                                 *)
(*                                                                         *)
(* Every goroutine that runs code of the publisher is a thread of the      *)
(* model.  Thread i \in Items is the handler that calls Enqueue for the    *)
(* i-th item to enter the buffer and, when that call decides to flush, the *)
(* goroutine it starts (the handler does nothing of interest after the go  *)
(* statement, so one program counter serves both).  Callers are told apart *)
(* only by the order in which they get the mutex, hence they are numbered  *)
(* by it.  Thread Ticker is the goroutine of Start.                        *)
(*                                                                         *)
(* An action is one critical section of p.mu, or one call made outside it: *)
(* gauge.Set, a Publish request, its return.  A local variable is reset    *)
(* when its last use is past.  The clock is modelled by the time left      *)
(* until an item's notBefore.  An error of newTransmissionID is not        *)
(* modelled: since Go 1.24 (go.mod) crypto/rand.Read returns none.         *)
(* Subjects are not modelled: ingest leaves envelope.Subject empty.        *)
(***************************************************************************)
EXTENDS Integers, Sequences, FiniteSets

CONSTANTS
    NumItems,       \* bound: how many items are enqueued
    FlushCount,     \* cfg.FlushCount
    MaxRetries,     \* cfg.MaxRetries
    RetryBackoff,   \* cfg.RetryBackoff, in ticks of the model's clock
    Stops           \* bound: whether the process may be told to stop

(* main takes FlushCount and MaxRetries from the environment unchecked;    *)
(* make() panics on a negative FlushCount, zero is possible.               *)
ASSUME ConstantsAssumption ==
    /\ NumItems \in Nat
    /\ FlushCount \in Nat
    /\ MaxRetries \in Nat
    /\ RetryBackoff \in Nat
    /\ Stops \in BOOLEAN

Items   == 1..NumItems
Ticker  == 0
Threads == {Ticker} \cup Items

VARIABLES
    buffer,       \* p.buffer, a sequence of Entry
    flushing,     \* p.flushing
    pc,           \* where each thread is
    items,        \* local items of flush, per thread
    tid,          \* local batch.TransmissionID, per thread
    queueDepth,   \* local queueDepth, per thread
    shouldFlush,  \* local shouldFlush of Enqueue, per thread
    gauge,        \* metrics.PublishQueueDepth
    ctxDone,      \* the context of main is cancelled
    lastFlush,    \* the ticker goroutine took the ctx.Done() branch
    running,      \* the process exists
    wire,         \* publish requests on their way to the broker, in order
    stream,       \* batches the broker stored
    accepted,     \* history: number of items that entered the buffer
    attempts,     \* history: Publish calls that carried an item
    outcome,      \* history: how an accepted item left the publisher
    nextTid       \* source of transmission ids; they never repeat

locals  == <<items, tid, queueDepth, shouldFlush>>
process == <<ctxDone, lastFlush, running>>
network == <<wire, stream>>
history == <<accepted, attempts, outcome>>
vars == <<buffer, flushing, pc, locals, gauge, process, network, history, nextTid>>

(***************************************************************************)
(* bufferedItem.  wait is the time until notBefore, 0 when it has passed.  *)
(***************************************************************************)
Entry == [id : Items, retryCount : Nat, wait : Nat]

Ids(s) == {s[k].id : k \in DOMAIN s}

Message == [tid : Nat, ids : SUBSET Items]

(* Program points between dequeueReadyBatch and the end of that flush.     *)
InFlight == {"publish", "await", "finish", "requeue"}

PCs == {"new", "setDepth", "wait", "flush", "report", "done"} \cup InFlight

Init ==
    /\ buffer = <<>>
    /\ flushing = FALSE
    /\ pc = [t \in Threads |-> IF t = Ticker THEN "wait" ELSE "new"]
    /\ items = [t \in Threads |-> <<>>]
    /\ tid = [t \in Threads |-> 0]
    /\ queueDepth = [t \in Threads |-> 0]
    /\ shouldFlush = [t \in Threads |-> FALSE]
    /\ gauge = 0
    /\ ctxDone = FALSE
    /\ lastFlush = FALSE
    /\ running = TRUE
    /\ wire = <<>>
    /\ stream = <<>>
    /\ accepted = 0
    /\ attempts = [i \in Items |-> 0]
    /\ outcome = [i \in Items |-> "pending"]
    /\ nextTid = 1

GoTo(t, point) == pc' = [pc EXCEPT ![t] = point]

(* Mutant: the ticker goroutine flushes once and returns.                  *)
FlushReturnsOnce(t) == GoTo(t, "done")

(* Where a thread goes when its flush returns: the ticker goroutine goes   *)
(* round its loop unless this was the flush of the ctx.Done() branch.      *)
FlushReturns(t) == GoTo(t, IF t = Ticker /\ ~lastFlush THEN "wait" ELSE "done")

-----------------------------------------------------------------------------
(* Enqueue, the critical section.                                          *)
Enqueue(i) ==
    /\ running
    /\ pc[i] = "new"
    /\ i = accepted + 1
    /\ buffer' = Append(buffer, [id |-> i, retryCount |-> 0, wait |-> 0])
    /\ queueDepth' = [queueDepth EXCEPT ![i] = Len(buffer')]
    /\ shouldFlush' = [shouldFlush EXCEPT ![i] = Len(buffer') >= FlushCount /\ ~flushing]
    /\ accepted' = i
    /\ GoTo(i, "setDepth")
    /\ UNCHANGED <<flushing, items, tid, gauge, process, network, attempts, outcome, nextTid>>

(* Enqueue after the unlock: the gauge, then go p.flush(Background()).     *)
SetDepth(i) ==
    /\ running
    /\ pc[i] = "setDepth"
    /\ gauge' = queueDepth[i]
    /\ GoTo(i, IF shouldFlush[i] THEN "flush" ELSE "done")
    /\ queueDepth' = [queueDepth EXCEPT ![i] = 0]
    /\ shouldFlush' = [shouldFlush EXCEPT ![i] = FALSE]
    /\ UNCHANGED <<buffer, flushing, items, tid, process, network, history, nextTid>>

-----------------------------------------------------------------------------
(* Start: one round of the loop.  Both cases of the select may be ready.   *)
TickerFires ==
    /\ running
    /\ pc[Ticker] = "wait"
    /\ GoTo(Ticker, "flush")
    /\ UNCHANGED <<buffer, flushing, locals, gauge, process, network, history, nextTid>>

TickerStops ==
    /\ running
    /\ pc[Ticker] = "wait"
    /\ ctxDone
    /\ lastFlush' = TRUE
    /\ GoTo(Ticker, "flush")
    /\ UNCHANGED <<buffer, flushing, locals, gauge, ctxDone, running, network, history, nextTid>>

-----------------------------------------------------------------------------
(* Mutant: a second flush may start while one is under way.                *)
MayFlushAgain == buffer # <<>>

(* The first test of dequeueReadyBatch.                                    *)
MayFlush == ~flushing /\ buffer # <<>>

(* n is the readyCount that the loop of dequeueReadyBatch arrives at.      *)
ReadyCount(n) ==
    /\ n \in 0..Len(buffer)
    /\ n <= FlushCount
    /\ \A k \in 1..n : buffer[k].wait = 0
    /\ n < Len(buffer) /\ n < FlushCount => buffer[n + 1].wait > 0

(* dequeueReadyBatch, the returns that yield no items.                     *)
NothingToFlush(t) ==
    /\ running
    /\ pc[t] = "flush"
    /\ ~MayFlush \/ ReadyCount(0)
    /\ FlushReturns(t)
    /\ UNCHANGED <<buffer, flushing, locals, gauge, process, network, history, nextTid>>

(* Mutant: the buffer keeps the last item of the batch.                    *)
RestOffByOne(s, n) == SubSeq(s, n, Len(s))

(* p.buffer[readyCount:]                                                   *)
Rest(s, n) == SubSeq(s, n + 1, Len(s))

(* dequeueReadyBatch, a batch: the ready prefix of the buffer leaves it.   *)
Dequeue(t) ==
    /\ running
    /\ pc[t] = "flush"
    /\ MayFlush
    /\ \E n \in 1..Len(buffer) :
          /\ ReadyCount(n)
          /\ items' = [items EXCEPT ![t] = SubSeq(buffer, 1, n)]
          /\ buffer' = Rest(buffer, n)
    /\ flushing' = TRUE
    /\ gauge' = Len(buffer')
    /\ tid' = [tid EXCEPT ![t] = nextTid]
    /\ nextTid' = nextTid + 1
    /\ attempts' = [i \in Items |-> attempts[i] + IF i \in Ids(items'[t]) THEN 1 ELSE 0]
    /\ GoTo(t, "publish")
    /\ UNCHANGED <<queueDepth, shouldFlush, process, network, accepted, outcome>>

-----------------------------------------------------------------------------
(* The flush of the ticker goroutine runs under the context of main, one   *)
(* that Enqueue started runs under context.Background().                   *)
Cancelled(t) == t = Ticker /\ ctxDone

(* JetStreamPublisher.Publish sends the batch, under its transmission id,  *)
(* unless its context is already cancelled.                                *)
Send(t) ==
    /\ running
    /\ pc[t] = "publish"
    /\ ~Cancelled(t)
    /\ wire' = Append(wire, [tid |-> tid[t], ids |-> Ids(items[t])])
    /\ GoTo(t, "await")
    /\ UNCHANGED <<buffer, flushing, locals, gauge, process, stream, history, nextTid>>

(* Mutant: the reply to any batch is taken for the reply to this one.      *)
ConfirmedByAny(t) == stream # <<>>

(* The broker stored the batch and replied.                                *)
Confirmed(t) == \E k \in DOMAIN stream : stream[k].tid = tid[t]

(* Publish returns nil: the broker confirmed this batch.                   *)
PublishAcked(t) ==
    /\ running
    /\ pc[t] = "await"
    /\ Confirmed(t)
    /\ outcome' = [i \in Items |-> IF i \in Ids(items[t]) THEN "delivered" ELSE outcome[i]]
    /\ items' = [items EXCEPT ![t] = <<>>]
    /\ tid' = [tid EXCEPT ![t] = 0]
    /\ GoTo(t, "finish")
    /\ UNCHANGED <<buffer, flushing, queueDepth, shouldFlush, gauge, process, network,
                   accepted, attempts, nextTid>>

(* Mutant: finishFlush leaves the flag up.                                 *)
FinishFlushHeld(t) ==
    /\ running
    /\ pc[t] = "finish"
    /\ FlushReturns(t)
    /\ UNCHANGED <<flushing, buffer, locals, gauge, process, network, history, nextTid>>

(* finishFlush.                                                            *)
FinishFlush(t) ==
    /\ running
    /\ pc[t] = "finish"
    /\ flushing' = FALSE
    /\ FlushReturns(t)
    /\ UNCHANGED <<buffer, locals, gauge, process, network, history, nextTid>>

(* backoffDelay: the base doubled for each retry after the first, at most  *)
(* six times.                                                              *)
BackoffFactor == <<1, 2, 4, 8, 16, 32, 64>>

BackoffDelay(retryCount) ==
    RetryBackoff * BackoffFactor[IF retryCount < 1 THEN 1
                                 ELSE IF retryCount > 7 THEN 7 ELSE retryCount]

(* Mutant: one retry too many.                                             *)
ExhaustedLate(e) == e.retryCount > MaxRetries

Exhausted(e) == e.retryCount >= MaxRetries

(* Mutant: the retry is not counted.                                       *)
RetryUncounted(e) == [e EXCEPT !.wait = BackoffDelay(e.retryCount + 1)]

(* Mutant: the backoff lies in the past.                                   *)
RetryBackwards(e) == [id |-> e.id, retryCount |-> e.retryCount + 1,
                      wait |-> 0 - BackoffDelay(e.retryCount + 1)]

Retry(e) == [id |-> e.id, retryCount |-> e.retryCount + 1,
             wait |-> BackoffDelay(e.retryCount + 1)]

Kept(s) == {k \in DOMAIN s : ~Exhausted(s[k])}

(* f lists the positions in S in their order.                              *)
Lists(f, S) ==
    /\ \A k \in S : \E m \in DOMAIN f : f[m] = k
    /\ \A m, n \in DOMAIN f : m < n => f[m] < f[n]

(* Publish returns an error and handlePublishFailure sorts the items, up   *)
(* to its lock: those that may be retried are kept in their order.  An     *)
(* error may come before or after the broker stored the batch: the         *)
(* connection is down, the request timed out, the reply was lost, the      *)
(* context was cancelled.                                                  *)
PublishFails(t) ==
    /\ running
    /\ pc[t] \in {"publish", "await"}
    /\ \E m \in 0..Len(items[t]) : \E f \in [1..m -> Kept(items[t])] :
          /\ Lists(f, Kept(items[t]))
          /\ items' = [items EXCEPT ![t] = [k \in 1..m |-> Retry(items[t][f[k]])]]
    /\ outcome' = [i \in Items |->
          IF \E k \in DOMAIN items[t] \ Kept(items[t]) : items[t][k].id = i
          THEN "dropped" ELSE outcome[i]]
    /\ tid' = [tid EXCEPT ![t] = 0]
    /\ GoTo(t, "requeue")
    /\ UNCHANGED <<buffer, flushing, queueDepth, shouldFlush, gauge, process, network,
                   accepted, attempts, nextTid>>

(* Mutant: what was enqueued during the attempt is overwritten.            *)
RestoredAlone(kept, queued) == kept

(* Mutant: the retried items go to the end of the queue.                   *)
RestoredLast(kept, queued) == queued \o kept

(* append(requeued, p.buffer...)                                           *)
Restored(kept, queued) == kept \o queued

(* handlePublishFailure, the critical section.                             *)
Requeue(t) ==
    /\ running
    /\ pc[t] = "requeue"
    /\ buffer' = Restored(items[t], buffer)
    /\ flushing' = FALSE
    /\ items' = [items EXCEPT ![t] = <<>>]
    /\ queueDepth' = [queueDepth EXCEPT ![t] = Len(buffer')]
    /\ GoTo(t, "report")
    /\ UNCHANGED <<tid, shouldFlush, gauge, process, network, history, nextTid>>

(* handlePublishFailure after the unlock.                                  *)
ReportDepth(t) ==
    /\ running
    /\ pc[t] = "report"
    /\ gauge' = queueDepth[t]
    /\ queueDepth' = [queueDepth EXCEPT ![t] = 0]
    /\ FlushReturns(t)
    /\ UNCHANGED <<buffer, flushing, items, tid, shouldFlush, process, network, history, nextTid>>

-----------------------------------------------------------------------------
(* The environment: the clock, the broker, the process.                    *)
Closer(e) == [id |-> e.id, retryCount |-> e.retryCount,
              wait |-> IF e.wait = 0 THEN 0 ELSE e.wait - 1]

Sooner(s) == [k \in DOMAIN s |-> Closer(s[k])]

Waiting(s) == \E k \in DOMAIN s : s[k].wait > 0

(* One tick passes for everything that backs off.                          *)
TimePasses ==
    /\ running
    /\ Waiting(buffer) \/ \E t \in Threads : Waiting(items[t])
    /\ buffer' = Sooner(buffer)
    /\ items' = [t \in Threads |-> Sooner(items[t])]
    /\ UNCHANGED <<flushing, pc, tid, queueDepth, shouldFlush, gauge, process, network, history,
                   nextTid>>

(* The connection keeps requests in order.  A request may arrive after the *)
(* publisher gave up on it, or be lost with the connection or refused.     *)
BrokerStores ==
    /\ wire # <<>>
    /\ stream' = Append(stream, Head(wire))
    /\ wire' = Tail(wire)
    /\ UNCHANGED <<buffer, flushing, pc, locals, gauge, process, history, nextTid>>

RequestLost ==
    /\ wire # <<>>
    /\ wire' = Tail(wire)
    /\ UNCHANGED <<buffer, flushing, pc, locals, gauge, process, stream, history, nextTid>>

(* SIGINT or SIGTERM.                                                      *)
Cancel ==
    /\ Stops
    /\ running
    /\ ~ctxDone
    /\ ctxDone' = TRUE
    /\ UNCHANGED <<buffer, flushing, pc, locals, gauge, lastFlush, running, network, history,
                   nextTid>>

(* main: Shutdown makes ListenAndServe return at once, and then main       *)
(* returns; it waits for no handler, no flush and not for the ticker.      *)
Exit ==
    /\ running
    /\ ctxDone
    /\ running' = FALSE
    /\ UNCHANGED <<buffer, flushing, pc, locals, gauge, ctxDone, lastFlush, network, history,
                   nextTid>>

FlushStep(t) ==
    \/ NothingToFlush(t) \/ Dequeue(t) \/ Send(t) \/ PublishAcked(t) \/ FinishFlush(t)
    \/ PublishFails(t) \/ Requeue(t) \/ ReportDepth(t)

Next ==
    \/ \E i \in Items : Enqueue(i) \/ SetDepth(i)
    \/ \E t \in Threads : FlushStep(t)
    \/ TickerFires \/ TickerStops
    \/ TimePasses \/ BrokerStores \/ RequestLost
    \/ Cancel \/ Exit

Spec == Init /\ [][Next]_vars

(* Goroutines are scheduled, a Publish call returns (cfg.Timeout bounds    *)
(* it), time.Ticker ticks and the clock advances.  Nothing is assumed of   *)
(* the broker, and no item has to arrive.                                  *)
Fairness ==
    /\ \A i \in Items : WF_vars(SetDepth(i))
    /\ \A t \in Threads : WF_vars(FlushStep(t))
    /\ WF_vars(TickerFires)
    /\ WF_vars(TimePasses)

FairSpec == Spec /\ Fairness

-----------------------------------------------------------------------------
TypeOK ==
    /\ buffer \in Seq(Entry)
    /\ flushing \in BOOLEAN
    /\ pc \in [Threads -> PCs]
    /\ items \in [Threads -> Seq(Entry)]
    /\ tid \in [Threads -> Nat]
    /\ queueDepth \in [Threads -> Nat]
    /\ shouldFlush \in [Threads -> BOOLEAN]
    /\ gauge \in Nat
    /\ ctxDone \in BOOLEAN
    /\ lastFlush \in BOOLEAN
    /\ running \in BOOLEAN
    /\ wire \in Seq(Message)
    /\ stream \in Seq(Message)
    /\ accepted \in 0..NumItems
    /\ attempts \in [Items -> Nat]
    /\ outcome \in [Items -> {"pending", "delivered", "dropped"}]
    /\ nextTid \in Nat

Pending == {i \in 1..accepted : outcome[i] = "pending"}

(* The flushing flag is a lock: it is up exactly while one flush owns a    *)
(* batch, so two flushes never publish at the same time, however Enqueue,  *)
(* the ticker and the goroutines Enqueue starts interleave.                *)
SingleFlight ==
    /\ \A t, u \in Threads : pc[t] \in InFlight /\ pc[u] \in InFlight => t = u
    /\ flushing <=> \E t \in Threads : pc[t] \in InFlight

InArrivalOrder(s) == \A k, n \in DOMAIN s : k < n => s[k].id < s[n].id

(* No item is lost, kept after it was settled, or queued twice: the        *)
(* pending items are exactly those in the batch of the running flush and   *)
(* in the buffer, and batch followed by buffer is in order of arrival.     *)
QueueHoldsPending ==
    /\ Pending = Ids(buffer) \cup UNION {Ids(items[t]) : t \in Threads}
    /\ \A t \in Threads : InArrivalOrder(items[t] \o buffer)

(* Request n, after request m, carries no item that should have been ahead *)
(* of one in m.                                                            *)
InTurn(m, n) == \A i \in m.ids, j \in n.ids : j < i => j \in m.ids

(* A backoff blocks what is behind it: the broker never holds an item in a *)
(* batch after one that held a later item, except both were sent together. *)
NeverOvertakes ==
    \A m, n \in DOMAIN stream : m < n => InTurn(stream[m], stream[n])

(* An item is given up only after MaxRetries retries all failed, and is    *)
(* never published more often.                                             *)
RetriesBounded ==
    \A i \in Items :
        /\ attempts[i] <= MaxRetries + 1
        /\ outcome[i] = "dropped" => attempts[i] = MaxRetries + 1

(* Only a thread between dequeueReadyBatch and the end of its flush holds  *)
(* items, and every item it holds or the buffer holds counts its attempts. *)
RetriesCounted ==
    /\ \A t \in Threads : pc[t] \notin InFlight \ {"finish"} => items[t] = <<>>
    /\ \A k \in DOMAIN buffer :
          buffer[k].retryCount <= MaxRetries /\ attempts[buffer[k].id] = buffer[k].retryCount
    /\ \A t \in Threads : \A k \in DOMAIN items[t] :
          /\ items[t][k].retryCount <= MaxRetries
          /\ attempts[items[t][k].id] =
                items[t][k].retryCount + IF pc[t] = "requeue" THEN 0 ELSE 1
    /\ \A i \in Items : i > accepted => attempts[i] = 0 /\ outcome[i] = "pending"

(* The inductive invariant behind the safety properties.                   *)
IInv == TypeOK /\ SingleFlight /\ QueueHoldsPending /\ RetriesCounted /\ RetriesBounded

(* What Publish confirmed is in the stream; an item is there no more often *)
(* than it was published.                                                  *)
Carrying(q, i) == {k \in DOMAIN q : i \in q[k].ids}

Copies(i) == Carrying(stream, i)

StoredAsPublished ==
    \A i \in Items :
        /\ outcome[i] = "delivered" => Copies(i) # {}
        /\ Cardinality(Copies(i)) <= attempts[i]

(* For the induction: what is stored and what is on its way is in turn.    *)
SentInTurn ==
    /\ NeverOvertakes
    /\ \A m, n \in DOMAIN wire : m < n => InTurn(wire[m], wire[n])
    /\ \A m \in DOMAIN stream, n \in DOMAIN wire : InTurn(stream[m], wire[n])

Sent == {stream[k] : k \in DOMAIN stream} \cup {wire[k] : k \in DOMAIN wire}

Publishing == {t \in Threads : pc[t] \in {"publish", "await"}}

(* For the induction: a request goes out when everything older is in it or *)
(* settled, and its id tells whose it is, if its sender still waits.       *)
SentWhenDue ==
    /\ \A t \in Publishing : tid[t] < nextTid
    /\ \A m \in Sent :
          /\ m.tid < nextTid
          /\ \A i \in m.ids : /\ i <= accepted
                              /\ \A j \in Items : j < i => j \in m.ids \/ outcome[j] # "pending"
          /\ \A t \in Publishing : m.tid = tid[t] => pc[t] = "await" /\ m.ids = Ids(items[t])

(* For the induction: an attempt makes at most one copy, which is still to *)
(* be sent, on its way, or stored.                                         *)
Unsent(i) == \E t \in Threads : pc[t] = "publish" /\ i \in Ids(items[t])

CopiesCounted ==
    \A i \in Items :
        /\ outcome[i] = "delivered" => Copies(i) # {}
        /\ Cardinality(Copies(i)) + Cardinality(Carrying(wire, i))
              + (IF Unsent(i) THEN 1 ELSE 0) <= attempts[i]

(* The inductive invariant behind what the broker sees, on top of IInv.    *)
BrokerInv == SentInTurn /\ SentWhenDue /\ CopiesCounted

(* A settled item stays settled and is never published again, whatever     *)
(* retry, timer or late reply is still under way.                          *)
SettledForGood ==
    [][\A i \in Items : outcome[i] # "pending" =>
          outcome'[i] = outcome[i] /\ attempts'[i] = attempts[i]]_vars

(* As long as the process is not told to stop, every accepted item is      *)
(* eventually delivered or dropped: no flush is forgotten, and no backoff  *)
(* at the head of the buffer blocks it for good.                           *)
EventuallySettled ==
    \A i \in Items : i \in Pending ~> i \notin Pending \/ ctxDone

(* The flushing flag is not leaked, not even by the shutdown.              *)
FlushEnds == flushing ~> ~flushing \/ ~running

(* The publisher implements TelemetryRelay.  The batch of the relay is what *)
(* the running flush has handed to Publish.                                *)
Relayed == UNION {Ids(items[t]) : t \in Publishing}

Relay == INSTANCE TelemetryRelay WITH
    BatchLimit <- FlushCount,
    AttemptLimit <- MaxRetries + 1,
    status <- [i \in Items |-> IF i > accepted THEN "unseen" ELSE outcome[i]],
    attempts <- attempts,
    copies <- [i \in Items |-> Cardinality(Copies(i))],
    batch <- Relayed

(* Every step of the publisher is a step of the relay or invisible to it.  *)
RelaySpec == Relay!Spec

(* README.md:98: when a publish fails, the batch is retried a bounded       *)
(* number of times before its items are dropped.  Here the last flush is   *)
(* over and the process gone: an item in the buffer whose publish failed   *)
(* is retried no more.                                                     *)
NoLossBeforeRetriesExhausted ==
    lastFlush /\ pc[Ticker] = "done" /\ ~running =>
        \A i \in Ids(buffer) : attempts[i] > 0 => attempts[i] = MaxRetries + 1

=============================================================================
