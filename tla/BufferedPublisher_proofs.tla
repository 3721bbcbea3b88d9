---------------------- MODULE BufferedPublisher_proofs ----------------------
(***************************************************************************)
(* Proofs about BufferedPublisher, for every number of items, flush count, *)
(* retry limit and backoff.                                                *)
(***************************************************************************)
EXTENDS BufferedPublisher, SequenceTheorems, TLAPS

USE ConstantsAssumption DEF MayFlush, Rest, Restored

-----------------------------------------------------------------------------
(* Lemmas about the sequences of entries the publisher handles.            *)

(* A backoff is a natural number of ticks.                                 *)
LEMMA BackoffDelayType == \A n \in Nat : BackoffDelay(n) \in Nat
<1> TAKE n \in Nat
<1>1. \A k \in 1..7 : BackoffFactor[k] \in Nat
  BY DEF BackoffFactor
<1> DEFINE k == IF n < 1 THEN 1 ELSE IF n > 7 THEN 7 ELSE n
<1>2. k \in 1..7
  OBVIOUS
<1>3. BackoffFactor[k] \in Nat
  BY <1>1, <1>2
<1> HIDE DEF k
<1>4. RetryBackoff * BackoffFactor[k] \in Nat
  BY <1>3
<1> QED
  BY <1>4 DEF BackoffDelay, k

(* Retry yields an entry for the same item with one retry more.            *)
LEMMA RetryType ==
    ASSUME NEW e \in Entry
    PROVE  /\ Retry(e) \in Entry
           /\ Retry(e).id = e.id
           /\ Retry(e).retryCount = e.retryCount + 1
<1>1. e.id \in Items /\ e.retryCount \in Nat
  BY DEF Entry
<1>2. e.retryCount + 1 \in Nat
  BY <1>1
<1>3. BackoffDelay(e.retryCount + 1) \in Nat
  BY <1>2, BackoffDelayType
<1> QED
  BY <1>1, <1>2, <1>3 DEF Retry, Entry

(* Time passing changes no entry but for its wait.                         *)
LEMMA SoonerType ==
    ASSUME NEW s \in Seq(Entry)
    PROVE  /\ Sooner(s) \in Seq(Entry)
           /\ Len(Sooner(s)) = Len(s)
           /\ \A k \in 1..Len(s) : /\ Sooner(s)[k].id = s[k].id
                                   /\ Sooner(s)[k].retryCount = s[k].retryCount
<1>1. Len(s) \in Nat /\ DOMAIN s = 1..Len(s) /\ \A k \in 1..Len(s) : s[k] \in Entry
  BY ElementOfSeq, LenProperties
<1>2. ASSUME NEW e \in Entry
      PROVE  /\ Closer(e) \in Entry
             /\ Closer(e).id = e.id
             /\ Closer(e).retryCount = e.retryCount
  <2>1. /\ e.id \in Items /\ e.retryCount \in Nat
        /\ (IF e.wait = 0 THEN 0 ELSE e.wait - 1) \in Nat
    BY DEF Entry
  <2> QED
    BY <2>1 DEF Closer, Entry
<1>3. Sooner(s) = [k \in 1..Len(s) |-> Closer(s[k])]
  BY <1>1 DEF Sooner
<1>4. Sooner(s) \in [1..Len(s) -> Entry]
  BY <1>1, <1>2, <1>3
<1>5. Sooner(s) \in Seq(Entry) /\ Len(Sooner(s)) = Len(s)
  BY <1>1, <1>4, LenProperties, SeqDef
<1> QED
  BY <1>1, <1>2, <1>3, <1>5

(* What a failed attempt leaves of a batch, and what it drops.             *)
Survivors(s, m, f) == [k \in 1..m |-> Retry(s[f[k]])]
DroppedIds(s) == {s[k].id : k \in DOMAIN s \ Kept(s)}

(* The items that survive a failed attempt.                                *)
LEMMA SurvivorsType ==
    ASSUME NEW s \in Seq(Entry), NEW m \in Nat, NEW f \in [1..m -> Kept(s)]
    PROVE  /\ Survivors(s, m, f) \in Seq(Entry)
           /\ Len(Survivors(s, m, f)) = m
           /\ \A k \in 1..m : /\ f[k] \in 1..Len(s)
                               /\ Survivors(s, m, f)[k].id = s[f[k]].id
                               /\ Survivors(s, m, f)[k].retryCount = s[f[k]].retryCount + 1
                               /\ s[f[k]].retryCount < MaxRetries
<1> DEFINE r == Survivors(s, m, f)
<1>1. DOMAIN s = 1..Len(s) /\ \A k \in 1..Len(s) : s[k] \in Entry
  BY ElementOfSeq, LenProperties
<1>2. \A k \in 1..m : f[k] \in 1..Len(s) /\ ~Exhausted(s[f[k]])
  BY <1>1 DEF Kept
<1>3. \A k \in 1..m : /\ Retry(s[f[k]]) \in Entry
                      /\ Retry(s[f[k]]).id = s[f[k]].id
                      /\ Retry(s[f[k]]).retryCount = s[f[k]].retryCount + 1
  BY <1>1, <1>2, RetryType
<1>4. r \in [1..m -> Entry] /\ \A k \in 1..m : r[k] = Retry(s[f[k]])
  BY <1>3 DEF Survivors
<1> HIDE DEF r
<1>5. r \in Seq(Entry) /\ Len(r) = m
  BY <1>4, LenProperties, SeqDef
<1>6. \A k \in 1..m : s[f[k]].retryCount < MaxRetries
  <2> TAKE k \in 1..m
  <2>1. s[f[k]].retryCount \in Nat
    BY <1>1, <1>2 DEF Entry
  <2> QED
    BY <1>2, <2>1 DEF Exhausted
<1>7. \A k \in 1..m : r[k].id = s[f[k]].id /\ r[k].retryCount = s[f[k]].retryCount + 1
  BY <1>3, <1>4
<1> QED
  BY <1>2, <1>5, <1>6, <1>7 DEF r

(* A failed attempt keeps a batch's survivors.                             *)
LEMMA FailureKeepsSurvivors ==
    ASSUME NEW t \in Threads, items[t] \in Seq(Entry), PublishFails(t)
    PROVE  \E m \in Nat : \E f \in [1..m -> Kept(items[t])] :
              /\ Lists(f, Kept(items[t]))
              /\ items' = [items EXCEPT ![t] = Survivors(items[t], m, f)]
<1>1. PICK m \in 0..Len(items[t]) : \E f \in [1..m -> Kept(items[t])] :
         /\ Lists(f, Kept(items[t]))
         /\ items' = [items EXCEPT ![t] = [k \in 1..m |-> Retry(items[t][f[k]])]]
  BY DEF PublishFails
<1>2. m \in Nat
  BY LenProperties
<1> QED
  BY <1>1, <1>2 DEF Survivors

(* The ids of a sequence of entries are items.                             *)
LEMMA IdsType ==
    ASSUME NEW s \in Seq(Entry)
    PROVE  /\ Ids(s) \subseteq Items
           /\ \A k \in 1..Len(s) : s[k].id \in Ids(s)
<1>1. DOMAIN s = 1..Len(s) /\ \A k \in 1..Len(s) : s[k] \in Entry
  BY ElementOfSeq, LenProperties
<1>2. \A k \in 1..Len(s) : s[k].id \in Items
  BY <1>1 DEF Entry
<1> QED
  BY <1>1, <1>2 DEF Ids

-----------------------------------------------------------------------------
(* Type correctness.                                                       *)

LEMMA TypeInit == Init => TypeOK
<1> SUFFICES ASSUME Init PROVE TypeOK
  OBVIOUS
<1>1. {"wait", "new"} \subseteq PCs
  BY DEF PCs
<1>2. <<>> \in Seq(Entry) /\ <<>> \in Seq(Message)
  OBVIOUS
<1>3. items \in [Threads -> Seq(Entry)]
  BY <1>2 DEF Init
<1>4. pc \in [Threads -> PCs]
  BY <1>1 DEF Init
<1>5. /\ tid \in [Threads -> Nat] /\ queueDepth \in [Threads -> Nat]
      /\ shouldFlush \in [Threads -> BOOLEAN]
      /\ attempts \in [Items -> Nat]
      /\ outcome \in [Items -> {"pending", "delivered", "dropped"}]
  BY DEF Init
<1>6. /\ flushing \in BOOLEAN /\ ctxDone \in BOOLEAN
      /\ lastFlush \in BOOLEAN /\ running \in BOOLEAN
  BY DEF Init
<1>7. gauge \in Nat /\ accepted \in 0..NumItems /\ nextTid \in Nat
  BY DEF Init
<1>8. buffer \in Seq(Entry) /\ wire \in Seq(Message) /\ stream \in Seq(Message)
  BY <1>2 DEF Init
<1> QED
  BY <1>3, <1>4, <1>5, <1>6, <1>7, <1>8 DEF TypeOK

LEMMA GoToType ==
    ASSUME TypeOK, NEW t \in Threads, NEW p \in PCs, GoTo(t, p)
    PROVE  pc' \in [Threads -> PCs]
BY DEF GoTo, TypeOK

LEMMA FlushReturnsType ==
    ASSUME TypeOK, NEW t \in Threads, FlushReturns(t)
    PROVE  pc' \in [Threads -> PCs]
<1>1. "wait" \in PCs /\ "done" \in PCs
  BY DEF PCs
<1> QED
  BY <1>1, GoToType DEF FlushReturns

LEMMA TypeStep == TypeOK /\ [Next]_vars => TypeOK'
<1> SUFFICES ASSUME TypeOK, [Next]_vars PROVE TypeOK'
  OBVIOUS
<1> USE DEF locals, process, network, history
<1>0. /\ {"setDepth", "flush", "done", "publish", "await", "finish", "requeue", "report"} \subseteq PCs
      /\ Items \subseteq Threads
      /\ buffer \in Seq(Entry) /\ Len(buffer) \in Nat
      /\ \A t \in Threads : items[t] \in Seq(Entry) /\ Len(items[t]) \in Nat
  BY LenProperties DEF PCs, InFlight, Threads, TypeOK
<1>1. ASSUME NEW i \in Items, Enqueue(i) PROVE TypeOK'
  <2>1. [id |-> i, retryCount |-> 0, wait |-> 0] \in Entry
    BY DEF Entry
  <2>2. buffer' \in Seq(Entry) /\ Len(buffer') \in Nat
    BY <1>1, <2>1, <1>0, AppendProperties DEF Enqueue
  <2>3. pc' \in [Threads -> PCs]
    BY <1>1, <1>0, GoToType DEF Enqueue
  <2>4. accepted' \in 0..NumItems
    BY <1>1 DEF Enqueue, Items
  <2> QED
    BY <1>1, <2>2, <2>3, <2>4 DEF Enqueue, TypeOK
<1>2. ASSUME NEW i \in Items, SetDepth(i) PROVE TypeOK'
  <2>1. pc' \in [Threads -> PCs]
    BY <1>2, <1>0, GoToType DEF SetDepth
  <2> QED
    BY <1>2, <1>0, <2>1 DEF SetDepth, TypeOK
<1>3. ASSUME NEW t \in Threads, NothingToFlush(t) PROVE TypeOK'
  BY <1>3, FlushReturnsType DEF NothingToFlush, TypeOK
<1>4. ASSUME NEW t \in Threads, Dequeue(t) PROVE TypeOK'
  <2>1. PICK n \in 1..Len(buffer) :
           /\ items' = [items EXCEPT ![t] = SubSeq(buffer, 1, n)]
           /\ buffer' = SubSeq(buffer, n + 1, Len(buffer))
    BY <1>4 DEF Dequeue
  <2>2. /\ SubSeq(buffer, 1, n) \in Seq(Entry)
        /\ buffer' \in Seq(Entry)
        /\ Len(buffer') \in Nat
    BY <2>1, <1>0, SubSeqProperties, LenProperties
  <2>3. items' \in [Threads -> Seq(Entry)]
    BY <2>1, <2>2 DEF TypeOK
  <2>4. attempts' \in [Items -> Nat]
    BY <1>4 DEF Dequeue, TypeOK
  <2>5. pc' \in [Threads -> PCs]
    BY <1>4, <1>0, GoToType DEF Dequeue
  <2> QED
    BY <1>4, <2>2, <2>3, <2>4, <2>5 DEF Dequeue, TypeOK
<1>5. ASSUME NEW t \in Threads, Send(t) PROVE TypeOK'
  <2>1. [tid |-> tid[t], ids |-> Ids(items[t])] \in Message
    BY <1>0, IdsType DEF Message, TypeOK
  <2>2. wire' \in Seq(Message)
    BY <1>5, <2>1, AppendProperties DEF Send, TypeOK
  <2>3. pc' \in [Threads -> PCs]
    BY <1>5, <1>0, GoToType DEF Send
  <2> QED
    BY <1>5, <2>2, <2>3 DEF Send, TypeOK
<1>6. ASSUME NEW t \in Threads, PublishAcked(t) PROVE TypeOK'
  <2>1. pc' \in [Threads -> PCs]
    BY <1>6, <1>0, GoToType DEF PublishAcked
  <2>2. items' \in [Threads -> Seq(Entry)]
    BY <1>6 DEF PublishAcked, TypeOK
  <2>3. outcome' \in [Items -> {"pending", "delivered", "dropped"}]
    BY <1>6 DEF PublishAcked, TypeOK
  <2> QED
    BY <1>6, <2>1, <2>2, <2>3 DEF PublishAcked, TypeOK
<1>7. ASSUME NEW t \in Threads, FinishFlush(t) PROVE TypeOK'
  BY <1>7, FlushReturnsType DEF FinishFlush, TypeOK
<1>8. ASSUME NEW t \in Threads, PublishFails(t) PROVE TypeOK'
  <2>1. pc' \in [Threads -> PCs]
    BY <1>8, <1>0, GoToType DEF PublishFails
  <2>2. items[t] \in Seq(Entry)
    BY <1>8 DEF TypeOK
  <2>a. PICK m \in Nat : \E f \in [1..m -> Kept(items[t])] :
           items' = [items EXCEPT ![t] = Survivors(items[t], m, f)]
    BY <1>8, <2>2, FailureKeepsSurvivors
  <2>3. PICK f \in [1..m -> Kept(items[t])] :
           items' = [items EXCEPT ![t] = Survivors(items[t], m, f)]
    BY <2>a
  <2>4. Survivors(items[t], m, f) \in Seq(Entry)
    BY <2>2, SurvivorsType
  <2>5. items' \in [Threads -> Seq(Entry)]
    BY <2>3, <2>4 DEF TypeOK
  <2>6. outcome' \in [Items -> {"pending", "delivered", "dropped"}]
    BY <1>8 DEF PublishFails, TypeOK
  <2> QED
    BY <1>8, <2>1, <2>5, <2>6 DEF PublishFails, TypeOK
<1>9. ASSUME NEW t \in Threads, Requeue(t) PROVE TypeOK'
  <2>1. pc' \in [Threads -> PCs]
    BY <1>9, <1>0, GoToType DEF Requeue
  <2>2. buffer' \in Seq(Entry) /\ Len(buffer') \in Nat
    BY <1>9, <1>0, ConcatProperties, LenProperties DEF Requeue
  <2>3. items' \in [Threads -> Seq(Entry)] /\ queueDepth' \in [Threads -> Nat]
    BY <1>9, <2>2 DEF Requeue, TypeOK
  <2> QED
    BY <1>9, <2>1, <2>2, <2>3 DEF Requeue, TypeOK
<1>10. ASSUME NEW t \in Threads, ReportDepth(t) PROVE TypeOK'
  BY <1>10, FlushReturnsType DEF ReportDepth, TypeOK
<1>11. CASE TickerFires
  <2>1. pc' \in [Threads -> PCs]
    BY <1>11, <1>0, GoToType DEF TickerFires, Threads
  <2> QED
    BY <1>11, <2>1 DEF TickerFires, TypeOK
<1>12. CASE TickerStops
  <2>1. pc' \in [Threads -> PCs]
    BY <1>12, <1>0, GoToType DEF TickerStops, Threads
  <2> QED
    BY <1>12, <2>1 DEF TickerStops, TypeOK
<1>13. CASE TimePasses
  <2>1. buffer' \in Seq(Entry) /\ items' \in [Threads -> Seq(Entry)]
    BY <1>13, <1>0, SoonerType DEF TimePasses
  <2> QED
    BY <1>13, <2>1 DEF TimePasses, TypeOK
<1>14. CASE BrokerStores
  <2>1. wire' \in Seq(Message) /\ stream' \in Seq(Message)
    BY <1>14, HeadTailProperties, AppendProperties DEF BrokerStores, TypeOK
  <2> QED
    BY <1>14, <2>1 DEF BrokerStores, TypeOK
<1>15. CASE RequestLost
  <2>1. wire' \in Seq(Message)
    BY <1>15, HeadTailProperties DEF RequestLost, TypeOK
  <2> QED
    BY <1>15, <2>1 DEF RequestLost, TypeOK
<1>16. CASE Cancel \/ Exit
  BY <1>16 DEF Cancel, Exit, TypeOK
<1>17. CASE UNCHANGED vars
  BY <1>17 DEF vars, TypeOK
<1> QED
  BY <1>1, <1>2, <1>3, <1>4, <1>5, <1>6, <1>7, <1>8, <1>9, <1>10, <1>11, <1>12, <1>13, <1>14,
     <1>15, <1>16, <1>17 DEF Next, FlushStep

(* Every variable of the publisher keeps its type.                         *)
THEOREM TypeCorrect == Spec => []TypeOK
BY TypeInit, TypeStep, PTL DEF Spec

-----------------------------------------------------------------------------
(* The flushing flag as a lock.                                            *)

LEMMA SingleFlightStep == TypeOK /\ SingleFlight /\ [Next]_vars => SingleFlight'
<1> SUFFICES ASSUME TypeOK, SingleFlight, [Next]_vars PROVE SingleFlight'
  OBVIOUS
<1> USE DEF SingleFlight, InFlight
<1>0. pc \in [Threads -> PCs] /\ Items \subseteq Threads /\ Ticker \in Threads
  BY DEF TypeOK, Threads
(* A step that moves one thread between points outside a flush.            *)
<1>1. ASSUME NEW t \in Threads, pc[t] \notin InFlight, NEW p \in PCs \ InFlight,
             GoTo(t, p), flushing' = flushing
      PROVE  SingleFlight'
  BY <1>0, <1>1 DEF GoTo
(* A step that moves one thread between points of its flush.               *)
<1>2. ASSUME NEW t \in Threads, pc[t] \in InFlight, NEW p \in InFlight,
             GoTo(t, p), flushing' = flushing
      PROVE  SingleFlight'
  BY <1>0, <1>2 DEF GoTo
(* A step that ends a flush.                                               *)
<1>3. ASSUME NEW t \in Threads, pc[t] \in InFlight, NEW p \in PCs \ InFlight,
             GoTo(t, p), flushing' = FALSE
      PROVE  SingleFlight'
  BY <1>0, <1>3 DEF GoTo
<1>4. {"new", "setDepth", "wait", "flush", "report", "done"} \subseteq PCs \ InFlight
  BY DEF PCs
<1>5. ASSUME NEW i \in Items, Enqueue(i) \/ SetDepth(i) PROVE SingleFlight'
  BY <1>0, <1>1, <1>4, <1>5 DEF Enqueue, SetDepth
<1>6. ASSUME NEW t \in Threads, NothingToFlush(t) \/ ReportDepth(t) PROVE SingleFlight'
  BY <1>1, <1>4, <1>6 DEF NothingToFlush, ReportDepth, FlushReturns
<1>7. ASSUME NEW t \in Threads, Dequeue(t) PROVE SingleFlight'
  BY <1>0, <1>7 DEF Dequeue, GoTo
<1>8. ASSUME NEW t \in Threads, Send(t) \/ PublishAcked(t) \/ PublishFails(t)
      PROVE  SingleFlight'
  BY <1>2, <1>8 DEF Send, PublishAcked, PublishFails
<1>9. ASSUME NEW t \in Threads, FinishFlush(t) \/ Requeue(t) PROVE SingleFlight'
  BY <1>3, <1>4, <1>9 DEF FinishFlush, Requeue, FlushReturns
<1>10. CASE TickerFires \/ TickerStops
  BY <1>0, <1>1, <1>4, <1>10 DEF TickerFires, TickerStops
<1>11. CASE TimePasses \/ BrokerStores \/ RequestLost \/ Cancel \/ Exit \/ UNCHANGED vars
  BY <1>11 DEF TimePasses, BrokerStores, RequestLost, Cancel, Exit, vars
<1> QED
  BY <1>5, <1>6, <1>7, <1>8, <1>9, <1>10, <1>11 DEF Next, FlushStep

(* The flushing flag is up exactly while one flush owns a batch, and two   *)
(* flushes never publish at the same time.                                 *)
THEOREM FlushesExclude == Spec => []SingleFlight
<1>1. Init => SingleFlight
  BY DEF Init, SingleFlight, InFlight, Threads
<1>2. TypeOK /\ SingleFlight /\ [Next]_vars => SingleFlight'
  BY SingleFlightStep
<1> QED
  BY <1>1, <1>2, TypeCorrect, PTL DEF Spec

-----------------------------------------------------------------------------
(* Order of arrival, one sequence at a time.                               *)

Before(s, u) == \A k \in DOMAIN s, n \in DOMAIN u : s[k].id < u[n].id

LEMMA SeqDomain ==
    ASSUME NEW s \in Seq(Entry)
    PROVE  /\ DOMAIN s = 1..Len(s) /\ Len(s) \in Nat
           /\ \A k \in DOMAIN s : s[k] \in Entry /\ s[k].id \in Items /\ s[k].id \in Int
<1>1. DOMAIN s = 1..Len(s) /\ Len(s) \in Nat /\ \A k \in 1..Len(s) : s[k] \in Entry
  BY ElementOfSeq, LenProperties
<1>2. \A e \in Entry : e.id \in Items /\ e.id \in Int
  BY DEF Entry, Items
<1> QED
  BY <1>1, <1>2

(* A concatenation is in order when its parts are and one is before the    *)
(* other; it holds the ids of both.                                        *)
LEMMA ConcatOrder ==
    ASSUME NEW s \in Seq(Entry), NEW u \in Seq(Entry)
    PROVE  /\ InArrivalOrder(s \o u) <=>
                 InArrivalOrder(s) /\ InArrivalOrder(u) /\ Before(s, u)
           /\ Ids(s \o u) = Ids(s) \cup Ids(u)
<1> DEFINE c == s \o u
<1>1. /\ DOMAIN c = 1..(Len(s) + Len(u))
      /\ DOMAIN s = 1..Len(s) /\ Len(s) \in Nat
      /\ DOMAIN u = 1..Len(u) /\ Len(u) \in Nat
  BY SeqDomain, ConcatProperties, LenProperties
<1>2. \A k \in DOMAIN s : k \in DOMAIN c /\ c[k] = s[k]
  BY <1>1, ConcatProperties
<1>3. \A n \in DOMAIN u : n + Len(s) \in DOMAIN c /\ c[n + Len(s)] = u[n]
  BY <1>1, ConcatProperties
<1>4. \A k \in DOMAIN c : k \in DOMAIN s \/ (k > Len(s) /\ k - Len(s) \in DOMAIN u)
  BY <1>1
<1> HIDE DEF c
<1>5. Ids(c) = Ids(s) \cup Ids(u)
  <2>1. ASSUME NEW k \in DOMAIN c PROVE c[k].id \in Ids(s) \cup Ids(u)
    <3>1. CASE k \in DOMAIN s
      BY <3>1, <1>2 DEF Ids
    <3>2. CASE k > Len(s) /\ k - Len(s) \in DOMAIN u
      <4>1. (k - Len(s)) + Len(s) = k
        BY <1>1
      <4>2. c[k] = u[k - Len(s)]
        BY <3>2, <1>3, <4>1
      <4> QED
        BY <3>2, <4>2 DEF Ids
    <3> QED
      BY <1>4, <3>1, <3>2
  <2>2. Ids(s) \subseteq Ids(c)
    BY <1>2 DEF Ids
  <2>3. Ids(u) \subseteq Ids(c)
    BY <1>3 DEF Ids
  <2>4. Ids(c) \subseteq Ids(s) \cup Ids(u)
    BY <2>1 DEF Ids
  <2> QED
    BY <2>2, <2>3, <2>4
<1>6. ASSUME InArrivalOrder(c)
      PROVE  InArrivalOrder(s) /\ InArrivalOrder(u) /\ Before(s, u)
  <2>1. InArrivalOrder(s)
    BY <1>2, <1>6 DEF InArrivalOrder
  <2>2. InArrivalOrder(u)
    <3> SUFFICES ASSUME NEW k \in DOMAIN u, NEW n \in DOMAIN u, k < n
                 PROVE  u[k].id < u[n].id
      BY DEF InArrivalOrder
    <3>1. k + Len(s) < n + Len(s)
      BY <1>1
    <3> QED
      BY <3>1, <1>3, <1>6 DEF InArrivalOrder
  <2>3. Before(s, u)
    <3> SUFFICES ASSUME NEW k \in DOMAIN s, NEW n \in DOMAIN u
                 PROVE  s[k].id < u[n].id
      BY DEF Before
    <3>1. k < n + Len(s)
      BY <1>1
    <3> QED
      BY <3>1, <1>2, <1>3, <1>6 DEF InArrivalOrder
  <2> QED
    BY <2>1, <2>2, <2>3
<1>7. ASSUME InArrivalOrder(s), InArrivalOrder(u), Before(s, u)
      PROVE  InArrivalOrder(c)
  <2> SUFFICES ASSUME NEW k \in DOMAIN c, NEW n \in DOMAIN c, k < n
               PROVE  c[k].id < c[n].id
    BY DEF InArrivalOrder
  <2>1. CASE k \in DOMAIN s /\ n \in DOMAIN s
    BY <2>1, <1>2, <1>7 DEF InArrivalOrder
  <2>2. CASE k \in DOMAIN s /\ n > Len(s) /\ n - Len(s) \in DOMAIN u
    <3>1. (n - Len(s)) + Len(s) = n
      BY <1>1
    <3>2. c[n] = u[n - Len(s)]
      BY <2>2, <1>3, <3>1
    <3> QED
      BY <2>2, <3>2, <1>2, <1>7 DEF Before
  <2>3. CASE k > Len(s) /\ k - Len(s) \in DOMAIN u /\ n > Len(s) /\ n - Len(s) \in DOMAIN u
    <3>1. /\ (n - Len(s)) + Len(s) = n
          /\ (k - Len(s)) + Len(s) = k
          /\ k - Len(s) < n - Len(s)
      BY <1>1
    <3>2. c[n] = u[n - Len(s)] /\ c[k] = u[k - Len(s)]
      BY <2>3, <1>3, <3>1
    <3> QED
      BY <2>3, <3>1, <3>2, <1>7 DEF InArrivalOrder
  <2>4. ~(k > Len(s) /\ n \in DOMAIN s)
    BY <1>1
  <2> QED
    BY <1>4, <2>1, <2>2, <2>3, <2>4
<1> QED
  BY <1>5, <1>6, <1>7 DEF c

LEMMA EmptyOrder ==
    /\ <<>> \in Seq(Entry) /\ Ids(<<>>) = {} /\ InArrivalOrder(<<>>)
    /\ \A s \in Seq(Entry) : Before(<<>>, s) /\ Before(s, <<>>)
BY DEF Ids, InArrivalOrder, Before

LEMMA AppendOrder ==
    ASSUME NEW s \in Seq(Entry), NEW e \in Entry, InArrivalOrder(s),
           \A i \in Ids(s) : i < e.id
    PROVE  InArrivalOrder(Append(s, e)) /\ Ids(Append(s, e)) = Ids(s) \cup {e.id}
<1>1. <<e>> \in Seq(Entry) /\ Append(s, e) = s \o <<e>>
  BY AppendIsConcat
<1>2. InArrivalOrder(<<e>>) /\ Ids(<<e>>) = {e.id}
  BY DEF InArrivalOrder, Ids
<1>3. Before(s, <<e>>)
  BY DEF Before, Ids
<1>4. InArrivalOrder(s \o <<e>>) /\ Ids(s \o <<e>>) = Ids(s) \cup Ids(<<e>>)
  BY <1>1, <1>2, <1>3, ConcatOrder
<1> QED
  BY <1>1, <1>2, <1>4

-----------------------------------------------------------------------------
(* No loss, no duplicate, no overtaking in the queue.                      *)

(* The step of a flush: only thread t holds items, before and after.       *)
LEMMA FlushMoves ==
    ASSUME TypeOK, NEW t \in Threads, NEW s \in Seq(Entry), NEW b \in Seq(Entry),
           \A u \in Threads \ {t} : items[u] = <<>>,
           items' = [items EXCEPT ![t] = s], buffer' = b,
           InArrivalOrder(s), InArrivalOrder(b), Before(s, b),
           Pending' = Ids(s) \cup Ids(b)
    PROVE  QueueHoldsPending'
<1>1. items'[t] = s /\ \A u \in Threads \ {t} : items'[u] = <<>>
  BY DEF TypeOK
<1>2. \A u \in Threads : items'[u] \in Seq(Entry)
  BY <1>1, EmptyOrder
<1>3. UNION {Ids(items'[u]) : u \in Threads} = Ids(s)
  BY <1>1, EmptyOrder
<1>4. \A u \in Threads : InArrivalOrder(items'[u]) /\ Before(items'[u], b)
  BY <1>1, EmptyOrder
<1>5. \A u \in Threads : InArrivalOrder(items'[u] \o b)
  BY <1>2, <1>4, ConcatOrder
<1> QED
  BY <1>3, <1>5 DEF QueueHoldsPending

(* Only the flush that owns the flag holds items.                          *)
LEMMA OnlyOwnerHolds ==
    ASSUME TypeOK, SingleFlight, RetriesCounted, NEW t \in Threads,
           pc[t] \in InFlight \/ ~flushing
    PROVE  \A u \in Threads \ {t} : items[u] = <<>>
BY DEF SingleFlight, RetriesCounted

(* What the invariant says of one thread's batch and the buffer.           *)
LEMMA QueueParts ==
    ASSUME TypeOK, QueueHoldsPending, NEW t \in Threads
    PROVE  /\ items[t] \in Seq(Entry) /\ buffer \in Seq(Entry)
           /\ InArrivalOrder(items[t]) /\ InArrivalOrder(buffer) /\ Before(items[t], buffer)
           /\ (\A u \in Threads \ {t} : items[u] = <<>>)
                 => Pending = Ids(items[t]) \cup Ids(buffer)
<1>1. items[t] \in Seq(Entry) /\ buffer \in Seq(Entry)
  BY DEF TypeOK
<1>2. InArrivalOrder(items[t]) /\ InArrivalOrder(buffer) /\ Before(items[t], buffer)
  BY <1>1, ConcatOrder DEF QueueHoldsPending
<1>3. ASSUME \A u \in Threads \ {t} : items[u] = <<>>
      PROVE  UNION {Ids(items[u]) : u \in Threads} = Ids(items[t])
  BY <1>3, EmptyOrder
<1> QED
  BY <1>1, <1>2, <1>3 DEF QueueHoldsPending

LEMMA QueueEnqueue ==
    ASSUME TypeOK, QueueHoldsPending, RetriesCounted, NEW i \in Items, Enqueue(i)
    PROVE  QueueHoldsPending'
<1> DEFINE e == [id |-> i, retryCount |-> 0, wait |-> 0]
<1>1. /\ e \in Entry /\ e.id = i /\ buffer' = Append(buffer, e) /\ items' = items
      /\ accepted' = i /\ outcome' = outcome /\ i = accepted + 1
  BY DEF Enqueue, locals, Entry
<1> HIDE DEF e
<1>2. \A j \in Pending : j < i
  BY <1>1 DEF Pending, TypeOK
<1>3. \A t \in Threads : Ids(items[t]) \subseteq Pending /\ Ids(buffer) \subseteq Pending
  BY DEF QueueHoldsPending
<1>4. Pending' = Pending \cup {i}
  <2>1. outcome[i] = "pending"
    BY <1>1 DEF RetriesCounted, TypeOK
  <2>2. \A j \in Int : j \in 1..i <=> j \in 1..accepted \/ j = i
    BY <1>1 DEF TypeOK, Items
  <2> QED
    BY <1>1, <2>1, <2>2 DEF Pending
<1>5. ASSUME NEW t \in Threads
      PROVE  InArrivalOrder(items'[t] \o buffer')
  <2>1. /\ items[t] \in Seq(Entry) /\ buffer \in Seq(Entry)
        /\ InArrivalOrder(items[t]) /\ InArrivalOrder(buffer) /\ Before(items[t], buffer)
    BY QueueParts
  <2>2. InArrivalOrder(buffer') /\ buffer' \in Seq(Entry)
    BY <1>1, <1>2, <1>3, <2>1, AppendOrder, AppendProperties
  <2>3. Before(items[t], buffer')
    <3> SUFFICES ASSUME NEW k \in DOMAIN items[t], NEW n \in DOMAIN buffer'
                 PROVE  items[t][k].id < buffer'[n].id
      BY DEF Before
    <3>1. items[t][k].id \in Pending
      BY <1>3 DEF Ids
    <3>2. CASE n \in DOMAIN buffer
      <4>1. buffer'[n] = buffer[n]
        BY <3>2, <2>1, <1>1, SeqDomain, AppendProperties
      <4> QED
        BY <3>2, <4>1, <2>1 DEF Before
    <3>3. CASE n \notin DOMAIN buffer
      <4>1. buffer'[n] = e
        BY <3>3, <2>1, <2>2, <1>1, SeqDomain, AppendProperties
      <4> QED
        BY <4>1, <3>1, <1>1, <1>2
    <3> QED
      BY <3>2, <3>3
  <2> QED
    BY <1>1, <2>1, <2>2, <2>3, ConcatOrder
<1>6. Ids(buffer') = Ids(buffer) \cup {i}
  <2>1. Ticker \in Threads
    BY DEF Threads
  <2>2. buffer \in Seq(Entry) /\ InArrivalOrder(buffer) /\ \A j \in Ids(buffer) : j < i
    BY <2>1, <1>2, <1>3, QueueParts
  <2> QED
    BY <2>2, <1>1, AppendOrder
<1> QED
  BY <1>1, <1>4, <1>5, <1>6 DEF QueueHoldsPending

(* The ready prefix and the rest make up the buffer.                       *)
LEMMA SplitBuffer ==
    ASSUME NEW s \in Seq(Entry), NEW n \in 1..Len(s)
    PROVE  LET h == SubSeq(s, 1, n)
               r == SubSeq(s, n + 1, Len(s))
           IN  /\ h \in Seq(Entry) /\ r \in Seq(Entry) /\ s = h \o r
               /\ \A k \in DOMAIN h : k \in DOMAIN s /\ h[k] = s[k]
               /\ \A k \in DOMAIN r : k + n \in DOMAIN s /\ r[k] = s[k + n]
<1> DEFINE h == SubSeq(s, 1, n)
           r == SubSeq(s, n + 1, Len(s))
<1>1. /\ Len(s) \in Nat /\ n \in Nat /\ n <= Len(s) /\ 1 <= n
      /\ DOMAIN s = 1..Len(s) /\ \A k \in 1..Len(s) : s[k] \in Entry
  BY SeqDomain
<1>2. h \in Seq(Entry) /\ Len(h) = n /\ \A k \in 1..n : h[k] = s[k]
  <2>1. \A k \in 1..n : s[k] \in Entry
    BY <1>1
  <2>2. n - 1 + 1 = n /\ \A k \in 1..n : 1 + k - 1 = k
    BY <1>1
  <2> QED
    BY <1>1, <2>1, <2>2, SubSeqProperties
<1>3. r \in Seq(Entry) /\ Len(r) = Len(s) - n /\ \A k \in 1..(Len(s) - n) : r[k] = s[k + n]
  <2>1. \A k \in (n + 1)..Len(s) : s[k] \in Entry
    BY <1>1
  <2>2. n + 1 \in Int /\ Len(s) \in Int
    BY <1>1
  <2>3. /\ r \in Seq(Entry)
        /\ Len(r) = IF n + 1 <= Len(s) THEN Len(s) - (n + 1) + 1 ELSE 0
        /\ \A k \in 1..(Len(s) - (n + 1) + 1) : r[k] = s[(n + 1) + k - 1]
    BY <2>1, <2>2, SubSeqProperties
  <2> HIDE DEF r
  <2>4. Len(s) - (n + 1) + 1 = Len(s) - n
    BY <1>1
  <2>5. Len(r) = Len(s) - n
    <3>1. CASE n + 1 <= Len(s)
      BY <3>1, <2>3, <2>4
    <3>2. CASE ~(n + 1 <= Len(s))
      <4>1. Len(s) - n = 0
        <5>1. Len(s) \in Int /\ n \in Int /\ n <= Len(s)
          BY <1>1
        <5> QED
          BY <3>2, <5>1
      <4>2. Len(r) = 0
        BY <3>2, <2>3
      <4> QED
        BY <4>1, <4>2
    <3> QED
      BY <3>1, <3>2
  <2>6. \A k \in 1..(Len(s) - n) : (n + 1) + k - 1 = k + n
    BY <1>1
  <2> QED
    BY <2>3, <2>4, <2>5, <2>6
<1>4. s = h \o r
  <2>1. 1 \in 1..(Len(s) + 1) /\ n \in (1 - 1)..Len(s) /\ Len(s) \in n..Len(s)
    BY <1>1
  <2> QED
    BY <2>1, ConcatAdjacentSubSeq, SubSeqFull
<1> HIDE DEF h, r
<1>5. DOMAIN h = 1..n /\ DOMAIN r = 1..(Len(s) - n)
  BY <1>2, <1>3, SeqDomain
<1>6. \A k \in 1..n : k \in DOMAIN s
  BY <1>1
<1>7. \A k \in 1..(Len(s) - n) : k + n \in DOMAIN s
  BY <1>1
<1> QED
  BY <1>2, <1>3, <1>4, <1>5, <1>6, <1>7 DEF h, r

LEMMA QueueDequeue ==
    ASSUME IInv, NEW t \in Threads, Dequeue(t)
    PROVE  QueueHoldsPending'
<1>0. TypeOK /\ SingleFlight /\ QueueHoldsPending /\ RetriesCounted
  BY DEF IInv
<1>1. PICK n \in 1..Len(buffer) :
         /\ items' = [items EXCEPT ![t] = SubSeq(buffer, 1, n)]
         /\ buffer' = SubSeq(buffer, n + 1, Len(buffer))
  BY DEF Dequeue
<1>2. items[t] = <<>> /\ \A u \in Threads \ {t} : items[u] = <<>>
  BY <1>0, OnlyOwnerHolds DEF Dequeue, RetriesCounted, InFlight
<1>3. buffer \in Seq(Entry) /\ InArrivalOrder(buffer) /\ Pending = Ids(buffer)
  BY <1>0, <1>2, QueueParts, EmptyOrder
<1> DEFINE h == SubSeq(buffer, 1, n)
<1>4. h \in Seq(Entry) /\ buffer' \in Seq(Entry) /\ buffer = h \o buffer'
  BY <1>1, <1>3, SplitBuffer
<1> HIDE DEF h
<1>5. /\ InArrivalOrder(h) /\ InArrivalOrder(buffer') /\ Before(h, buffer')
      /\ Ids(buffer) = Ids(h) \cup Ids(buffer')
  BY <1>3, <1>4, ConcatOrder
<1>6. Pending' = Pending
  BY DEF Dequeue, Pending
<1>7. items' = [items EXCEPT ![t] = h]
  BY <1>1 DEF h
<1> QED
  BY <1>0, <1>2, <1>3, <1>4, <1>5, <1>6, <1>7, FlushMoves

(* A batch and what waits behind it share no item.                         *)
LEMMA BeforeDisjoint ==
    ASSUME NEW s \in Seq(Entry), NEW u \in Seq(Entry), Before(s, u)
    PROVE  Ids(s) \cap Ids(u) = {}
<1> SUFFICES ASSUME NEW k \in DOMAIN s, NEW n \in DOMAIN u, s[k].id = u[n].id PROVE FALSE
  BY DEF Ids
<1>1. s[k].id \in Int /\ s[k].id < u[n].id
  BY SeqDomain DEF Before
<1> QED
  BY <1>1

LEMMA QueueAcked ==
    ASSUME IInv, NEW t \in Threads, PublishAcked(t)
    PROVE  QueueHoldsPending'
<1>0. TypeOK /\ SingleFlight /\ QueueHoldsPending /\ RetriesCounted
  BY DEF IInv
<1>1. \A u \in Threads \ {t} : items[u] = <<>>
  BY <1>0, OnlyOwnerHolds DEF PublishAcked, InFlight
<1>2. /\ items[t] \in Seq(Entry) /\ buffer \in Seq(Entry) /\ InArrivalOrder(buffer)
      /\ Before(items[t], buffer) /\ Pending = Ids(items[t]) \cup Ids(buffer)
  BY <1>0, <1>1, QueueParts
<1>3. Ids(items[t]) \cap Ids(buffer) = {} /\ Ids(items[t]) \subseteq Items
  BY <1>2, BeforeDisjoint, IdsType
<1>4. Pending' = Pending \ Ids(items[t])
  BY <1>0, <1>3 DEF PublishAcked, Pending, TypeOK, Items
<1>5. /\ items' = [items EXCEPT ![t] = <<>>]
      /\ buffer' = buffer
      /\ Pending' = Ids(<<>>) \cup Ids(buffer)
  BY <1>2, <1>3, <1>4, EmptyOrder DEF PublishAcked
<1> QED
  BY <1>0, <1>1, <1>2, <1>5, EmptyOrder, FlushMoves

LEMMA QueueRequeue ==
    ASSUME IInv, NEW t \in Threads, Requeue(t)
    PROVE  QueueHoldsPending'
<1>0. TypeOK /\ SingleFlight /\ QueueHoldsPending /\ RetriesCounted
  BY DEF IInv
<1>1. \A u \in Threads \ {t} : items[u] = <<>>
  BY <1>0, OnlyOwnerHolds DEF Requeue, InFlight
<1>2. /\ items[t] \in Seq(Entry) /\ buffer \in Seq(Entry)
      /\ InArrivalOrder(items[t]) /\ InArrivalOrder(buffer) /\ Before(items[t], buffer)
      /\ Pending = Ids(items[t]) \cup Ids(buffer)
  BY <1>0, <1>1, QueueParts
<1> DEFINE b == items[t] \o buffer
<1>3. b \in Seq(Entry) /\ InArrivalOrder(b) /\ Pending = Ids(b)
  BY <1>2, ConcatOrder, ConcatProperties
<1>4. items' = [items EXCEPT ![t] = <<>>] /\ buffer' = b /\ Pending' = Pending
  BY DEF Requeue, history, Pending
<1> HIDE DEF b
<1>5. Pending' = Ids(<<>>) \cup Ids(b)
  BY <1>3, <1>4, EmptyOrder
<1> QED
  BY <1>0, <1>1, <1>3, <1>4, <1>5, EmptyOrder, FlushMoves

LEMMA SurvivorsOrder ==
    ASSUME NEW s \in Seq(Entry), InArrivalOrder(s),
           NEW m \in Nat, NEW f \in [1..m -> Kept(s)], Lists(f, Kept(s))
    PROVE  /\ InArrivalOrder(Survivors(s, m, f))
           /\ Ids(Survivors(s, m, f)) = Ids(s) \ DroppedIds(s)
           /\ \A u \in Seq(Entry) : Before(s, u) => Before(Survivors(s, m, f), u)
<1> DEFINE r == Survivors(s, m, f)
           dropped == {s[k].id : k \in DOMAIN s \ Kept(s)}
<1>1. /\ DOMAIN r = 1..m /\ DOMAIN f = 1..m /\ DOMAIN s = 1..Len(s) /\ Len(s) \in Nat
      /\ \A k \in 1..m : f[k] \in Kept(s) /\ f[k] \in DOMAIN s /\ r[k].id = s[f[k]].id
  BY SurvivorsType, SeqDomain
<1> HIDE DEF r
<1>2. InArrivalOrder(r)
  <2> SUFFICES ASSUME NEW k \in 1..m, NEW n \in 1..m, k < n PROVE r[k].id < r[n].id
    BY <1>1 DEF InArrivalOrder
  <2>1. f[k] < f[n]
    BY <1>1 DEF Lists
  <2>2. s[f[k]].id < s[f[n]].id
    BY <1>1, <2>1 DEF InArrivalOrder
  <2> QED
    BY <1>1, <2>2
<1>3. \A u \in Seq(Entry) : Before(s, u) => Before(r, u)
  BY <1>1 DEF Before
<1>4. \A j, k \in DOMAIN s : s[j].id = s[k].id => j = k
  <2> SUFFICES ASSUME NEW j \in DOMAIN s, NEW k \in DOMAIN s, s[j].id = s[k].id, j # k
               PROVE  FALSE
    OBVIOUS
  <2>1. j < k \/ k < j
    BY <1>1
  <2>2. s[j].id < s[k].id \/ s[k].id < s[j].id
    BY <2>1 DEF InArrivalOrder
  <2>3. s[j].id \in Int
    BY SeqDomain
  <2> QED
    BY <2>2, <2>3
<1>5. Ids(r) \subseteq Ids(s) \ dropped
  <2>1. ASSUME NEW k \in 1..m PROVE s[f[k]].id \in Ids(s) \ dropped
    BY <1>1, <1>4 DEF Ids
  <2> HIDE DEF dropped
  <2>2. \A k \in DOMAIN r : r[k].id \in Ids(s) \ dropped
    BY <1>1, <2>1
  <2>3. \A i \in Ids(r) : i \in Ids(s) \ dropped
    <3> SUFFICES ASSUME NEW k \in DOMAIN r PROVE r[k].id \in Ids(s) \ dropped
      BY DEF Ids
    <3> QED
      BY <2>2
  <2> QED
    BY <2>3
<1>6. Ids(s) \ dropped \subseteq Ids(r)
  <2> SUFFICES ASSUME NEW k \in Kept(s) PROVE s[k].id \in Ids(r)
    BY DEF Ids, Kept
  <2>1. PICK j \in 1..m : f[j] = k
    BY <1>1 DEF Lists
  <2> QED
    BY <2>1, <1>1 DEF Ids
<1>7. dropped = DroppedIds(s)
  BY DEF DroppedIds
<1> QED
  BY <1>2, <1>3, <1>5, <1>6, <1>7 DEF r

LEMMA QueueFails ==
    ASSUME IInv, NEW t \in Threads, PublishFails(t)
    PROVE  QueueHoldsPending'
<1>0. TypeOK /\ SingleFlight /\ QueueHoldsPending /\ RetriesCounted
  BY DEF IInv
<1>1. \A u \in Threads \ {t} : items[u] = <<>>
  BY <1>0, OnlyOwnerHolds DEF PublishFails, InFlight
<1>2. /\ items[t] \in Seq(Entry) /\ buffer \in Seq(Entry)
      /\ InArrivalOrder(items[t]) /\ InArrivalOrder(buffer) /\ Before(items[t], buffer)
      /\ Pending = Ids(items[t]) \cup Ids(buffer)
  BY <1>0, <1>1, QueueParts
<1>a. PICK m \in Nat : \E f \in [1..m -> Kept(items[t])] :
         /\ Lists(f, Kept(items[t]))
         /\ items' = [items EXCEPT ![t] = Survivors(items[t], m, f)]
  BY <1>2, FailureKeepsSurvivors
<1>3. PICK f \in [1..m -> Kept(items[t])] :
         /\ Lists(f, Kept(items[t]))
         /\ items' = [items EXCEPT ![t] = Survivors(items[t], m, f)]
  BY <1>a
<1> DEFINE s == items[t]
           r == Survivors(s, m, f)
           dropped == DroppedIds(s)
<1>4. s \in Seq(Entry) /\ InArrivalOrder(s) /\ Lists(f, Kept(s)) /\ f \in [1..m -> Kept(s)]
  BY <1>2, <1>3
<1>5. buffer' = buffer /\ items' = [items EXCEPT ![t] = r]
  BY <1>3 DEF PublishFails
<1>9. \A i \in Items : outcome'[i] = IF i \in dropped THEN "dropped" ELSE outcome[i]
  BY DEF PublishFails, DroppedIds
<1>7. Ids(s) \cap Ids(buffer) = {} /\ Ids(s) \subseteq Items
  BY <1>2, BeforeDisjoint, IdsType
<1> HIDE DEF s
<1>6. r \in Seq(Entry) /\ InArrivalOrder(r) /\ Ids(r) = Ids(s) \ dropped /\ Before(r, buffer)
  <2>1. r \in Seq(Entry)
    BY <1>4, SurvivorsType
  <2>2. /\ InArrivalOrder(r) /\ Ids(r) = Ids(s) \ dropped
        /\ \A u \in Seq(Entry) : Before(s, u) => Before(r, u)
    BY <1>4, SurvivorsOrder
  <2> QED
    BY <2>1, <2>2, <1>2 DEF s
<1>8. dropped \subseteq Ids(s)
  BY DEF DroppedIds, Ids
<1> HIDE DEF r, dropped
<1>10. Pending' = Pending \ dropped
  <2>1. accepted' = accepted /\ 1..accepted \subseteq Items
    BY <1>0 DEF PublishFails, TypeOK, Items
  <2> QED
    BY <2>1, <1>9 DEF Pending
<1>11. Pending' = Ids(r) \cup Ids(buffer)
  BY <1>2, <1>6, <1>7, <1>8, <1>10 DEF s
<1> QED
  BY <1>0, <1>1, <1>2, <1>5, <1>6, <1>11, FlushMoves

LEMMA QueueTimePasses ==
    ASSUME TypeOK, QueueHoldsPending, TimePasses
    PROVE  QueueHoldsPending'
<1>1. ASSUME NEW s \in Seq(Entry)
      PROVE  /\ Ids(Sooner(s)) = Ids(s)
             /\ InArrivalOrder(s) => InArrivalOrder(Sooner(s))
             /\ \A u \in Seq(Entry) : Before(s, u) => Before(Sooner(s), Sooner(u))
  <2>1. /\ DOMAIN Sooner(s) = DOMAIN s
        /\ \A k \in DOMAIN s : Sooner(s)[k].id = s[k].id
    BY SoonerType, SeqDomain
  <2>2. \A u \in Seq(Entry) : /\ DOMAIN Sooner(u) = DOMAIN u
                             /\ \A k \in DOMAIN u : Sooner(u)[k].id = u[k].id
    BY SoonerType, SeqDomain
  <2> QED
    BY <2>1, <2>2 DEF Ids, InArrivalOrder, Before
<1>2. buffer' = Sooner(buffer) /\ \A t \in Threads : items'[t] = Sooner(items[t])
  BY DEF TimePasses
<1>3. buffer \in Seq(Entry) /\ \A t \in Threads : items[t] \in Seq(Entry)
  BY DEF TypeOK
<1>4. Ids(buffer') = Ids(buffer) /\ \A t \in Threads : Ids(items'[t]) = Ids(items[t])
  BY <1>1, <1>2, <1>3
<1>5. Pending' = Pending
  BY DEF TimePasses, history, Pending
<1>6. ASSUME NEW t \in Threads PROVE InArrivalOrder(items'[t] \o buffer')
  <2>1. InArrivalOrder(items[t]) /\ InArrivalOrder(buffer) /\ Before(items[t], buffer)
    BY QueueParts
  <2>2. items'[t] \in Seq(Entry) /\ buffer' \in Seq(Entry)
    BY <1>2, <1>3, SoonerType
  <2>3. InArrivalOrder(items'[t]) /\ InArrivalOrder(buffer') /\ Before(items'[t], buffer')
    BY <1>1, <1>2, <1>3, <2>1
  <2> QED
    BY <2>2, <2>3, ConcatOrder
<1> QED
  BY <1>4, <1>5, <1>6 DEF QueueHoldsPending

-----------------------------------------------------------------------------
(* The retry counters.                                                     *)

(* What RetriesCounted says of one sequence of entries; n is the attempt   *)
(* under way, 1 or 0.                                                      *)
Counted(s, att, n) ==
    \A k \in DOMAIN s : s[k].retryCount <= MaxRetries /\ att[s[k].id] = s[k].retryCount + n

LEMMA CountedForm ==
    ASSUME TypeOK
    PROVE  RetriesCounted <=>
             /\ \A t \in Threads : pc[t] \notin InFlight \ {"finish"} => items[t] = <<>>
             /\ Counted(buffer, attempts, 0)
             /\ \A t \in Threads :
                   Counted(items[t], attempts, IF pc[t] = "requeue" THEN 0 ELSE 1)
             /\ \A i \in Items : i > accepted => attempts[i] = 0 /\ outcome[i] = "pending"
<1>1. \A k \in DOMAIN buffer : buffer[k].retryCount + 0 = buffer[k].retryCount
  <2>1. \A e \in Entry : e.retryCount \in Nat
    BY DEF Entry
  <2> QED
    BY <2>1, SeqDomain DEF TypeOK
<1> QED
  BY <1>1 DEF RetriesCounted, Counted

LEMMA CountedConcat ==
    ASSUME NEW s \in Seq(Entry), NEW u \in Seq(Entry), NEW att, NEW n \in Nat,
           Counted(s, att, n), Counted(u, att, n)
    PROVE  Counted(s \o u, att, n)
<1>1. /\ DOMAIN s = 1..Len(s) /\ Len(s) \in Nat
      /\ DOMAIN u = 1..Len(u) /\ Len(u) \in Nat
      /\ DOMAIN (s \o u) = 1..(Len(s) + Len(u))
  BY SeqDomain, ConcatProperties, LenProperties
<1>2. ASSUME NEW k \in DOMAIN (s \o u)
      PROVE  (\E j \in DOMAIN s : (s \o u)[k] = s[j]) \/ (\E j \in DOMAIN u : (s \o u)[k] = u[j])
  <2>1. CASE k <= Len(s)
    BY <1>1, <2>1, ConcatProperties
  <2>2. CASE k > Len(s)
    <3>1. k - Len(s) \in DOMAIN u
      BY <1>1, <2>2
    <3>2. (s \o u)[k] = u[k - Len(s)]
      BY <1>1, <2>2, ConcatProperties
    <3> QED
      BY <3>1, <3>2
  <2> QED
    BY <1>1, <2>1, <2>2
<1> QED
  BY <1>2 DEF Counted

(* Steps that change neither entries nor attempts, and move a thread only  *)
(* between points with the same demand on its batch.                       *)
LEMMA CountedKept ==
    ASSUME TypeOK, RetriesCounted, NEW t \in Threads, NEW p \in PCs, GoTo(t, p),
           p \notin InFlight \ {"finish"} => items[t] = <<>>,
           (p # "requeue" /\ pc[t] # "requeue") \/ items[t] = <<>>,
           items' = items, buffer' = buffer, attempts' = attempts, outcome' = outcome,
           accepted' = accepted
    PROVE  RetriesCounted'
<1>1. \A u \in Threads : pc'[u] = IF u = t THEN p ELSE pc[u]
  BY DEF GoTo, TypeOK
<1> QED
  BY <1>1 DEF RetriesCounted

LEMMA CountedEnqueue ==
    ASSUME TypeOK, RetriesCounted, NEW i \in Items, Enqueue(i)
    PROVE  RetriesCounted'
<1> DEFINE e == [id |-> i, retryCount |-> 0, wait |-> 0]
<1>1. /\ e \in Entry /\ e.id = i /\ e.retryCount = 0 /\ buffer' = Append(buffer, e)
      /\ items' = items /\ attempts' = attempts
      /\ accepted' = i /\ outcome' = outcome /\ i = accepted + 1 /\ GoTo(i, "setDepth")
      /\ pc[i] = "new"
  BY DEF Enqueue, locals, Entry
<1> HIDE DEF e
<1>2. \A u \in Threads : pc'[u] = IF u = i THEN "setDepth" ELSE pc[u]
  BY <1>1 DEF GoTo, TypeOK
<1>3. items[i] = <<>>
  BY <1>1 DEF RetriesCounted, InFlight, Threads
<1>4. attempts[i] = 0
  BY <1>1 DEF RetriesCounted, TypeOK
<1>5. ASSUME NEW k \in DOMAIN buffer'
      PROVE  buffer'[k].retryCount <= MaxRetries /\ attempts[buffer'[k].id] = buffer'[k].retryCount
  <2>1. buffer \in Seq(Entry)
    BY DEF TypeOK
  <2>2. DOMAIN buffer' = 1..(Len(buffer) + 1) /\ DOMAIN buffer = 1..Len(buffer) /\ Len(buffer) \in Nat
    BY <1>1, <2>1, AppendProperties, LenProperties
  <2>3. CASE k \in DOMAIN buffer
    <3>1. buffer'[k] = buffer[k]
      BY <1>1, <2>1, <2>2, <2>3, AppendProperties
    <3> QED
      BY <3>1, <2>3 DEF RetriesCounted
  <2>4. CASE k = Len(buffer) + 1
    <3>1. buffer'[k] = e
      BY <1>1, <2>1, <2>4, AppendProperties
    <3> QED
      BY <3>1, <1>1, <1>4
  <2> QED
    BY <2>2, <2>3, <2>4
<1>6. \A j \in Items : j > i => j > accepted
  BY <1>1 DEF TypeOK, Items
<1>7. \A u \in Threads : \A k \in DOMAIN items'[u] :
          /\ items'[u][k].retryCount <= MaxRetries
          /\ attempts'[items'[u][k].id] =
                items'[u][k].retryCount + IF pc'[u] = "requeue" THEN 0 ELSE 1
  BY <1>1, <1>2, <1>3 DEF RetriesCounted
<1>8. \A u \in Threads : pc'[u] \notin InFlight \ {"finish"} => items'[u] = <<>>
  BY <1>1, <1>2, <1>3 DEF RetriesCounted
<1> QED
  BY <1>1, <1>5, <1>6, <1>7, <1>8 DEF RetriesCounted

(* The step of a flush, as in FlushMoves.                                  *)
LEMMA FlushCounts ==
    ASSUME TypeOK, NEW t \in Threads, NEW s \in Seq(Entry), NEW b \in Seq(Entry),
           NEW p \in PCs,
           \A u \in Threads \ {t} : items[u] = <<>>,
           items' = [items EXCEPT ![t] = s], buffer' = b, GoTo(t, p),
           Counted(s, attempts', IF p = "requeue" THEN 0 ELSE 1),
           Counted(b, attempts', 0),
           p \notin InFlight \ {"finish"} => s = <<>>,
           \A i \in Items : i > accepted' => attempts'[i] = 0 /\ outcome'[i] = "pending"
    PROVE  RetriesCounted'
<1>1. /\ items'[t] = s /\ pc'[t] = p
      /\ \A u \in Threads \ {t} : items'[u] = <<>>
  BY DEF TypeOK, GoTo
<1>2. \A k \in DOMAIN b : b[k].retryCount \in Nat
  <2>1. \A e \in Entry : e.retryCount \in Nat
    BY DEF Entry
  <2> QED
    BY <2>1, SeqDomain
<1>3. \A k \in DOMAIN b :
         b[k].retryCount <= MaxRetries /\ attempts'[b[k].id] = b[k].retryCount
  BY <1>2 DEF Counted
<1>4. ASSUME NEW u \in Threads
      PROVE  /\ pc'[u] \notin InFlight \ {"finish"} => items'[u] = <<>>
             /\ \A k \in DOMAIN items'[u] :
                   /\ items'[u][k].retryCount <= MaxRetries
                   /\ attempts'[items'[u][k].id] =
                         items'[u][k].retryCount + IF pc'[u] = "requeue" THEN 0 ELSE 1
  <2>1. CASE u = t
    BY <2>1, <1>1 DEF Counted
  <2>2. CASE u # t
    BY <2>2, <1>1
  <2> QED
    BY <2>1, <2>2
<1> QED
  BY <1>3, <1>4 DEF RetriesCounted

LEMMA CountedEmpty == \A att, n : Counted(<<>>, att, n)
BY DEF Counted

LEMMA BoundedKept ==
    ASSUME RetriesBounded, attempts' = attempts, outcome' = outcome
    PROVE  RetriesBounded'
BY DEF RetriesBounded

LEMMA CountedDequeue ==
    ASSUME IInv, NEW t \in Threads, Dequeue(t)
    PROVE  RetriesCounted' /\ RetriesBounded'
<1>0. TypeOK /\ SingleFlight /\ QueueHoldsPending /\ RetriesCounted /\ RetriesBounded
  BY DEF IInv
<1>1. PICK n \in 1..Len(buffer) :
         /\ items' = [items EXCEPT ![t] = SubSeq(buffer, 1, n)]
         /\ buffer' = SubSeq(buffer, n + 1, Len(buffer))
  BY DEF Dequeue
<1>2. items[t] = <<>> /\ \A u \in Threads \ {t} : items[u] = <<>>
  BY <1>0, OnlyOwnerHolds DEF Dequeue, RetriesCounted, InFlight
<1>3. buffer \in Seq(Entry) /\ InArrivalOrder(buffer) /\ Pending = Ids(buffer)
  BY <1>0, <1>2, QueueParts, EmptyOrder
<1> DEFINE h == SubSeq(buffer, 1, n)
<1>4. /\ h \in Seq(Entry) /\ buffer' \in Seq(Entry) /\ buffer = h \o buffer'
      /\ \A k \in DOMAIN h : k \in DOMAIN buffer /\ h[k] = buffer[k]
      /\ \A k \in DOMAIN buffer' : k + n \in DOMAIN buffer /\ buffer'[k] = buffer[k + n]
  BY <1>1, <1>3, SplitBuffer
<1>5. items' = [items EXCEPT ![t] = h]
  BY <1>1 DEF h
<1> HIDE DEF h
<1>6. Ids(h) \cap Ids(buffer') = {} /\ Ids(h) \subseteq Pending
  BY <1>3, <1>4, ConcatOrder, BeforeDisjoint
<1>7. \A i \in Items : attempts'[i] = attempts[i] + IF i \in Ids(h) THEN 1 ELSE 0
  BY <1>0, <1>5 DEF Dequeue, TypeOK
<1>8. \A k \in DOMAIN buffer :
         /\ buffer[k].id \in Items
         /\ buffer[k].retryCount \in Nat
         /\ buffer[k].retryCount <= MaxRetries
         /\ attempts[buffer[k].id] = buffer[k].retryCount
  BY <1>0, <1>3, SeqDomain DEF RetriesCounted, Entry
<1>9. Counted(h, attempts', 1)
  <2> SUFFICES ASSUME NEW k \in DOMAIN h
               PROVE  h[k].retryCount <= MaxRetries /\ attempts'[h[k].id] = h[k].retryCount + 1
    BY DEF Counted
  <2>1. h[k].id \in Ids(h)
    BY DEF Ids
  <2>2. k \in DOMAIN buffer /\ h[k] = buffer[k]
    BY <1>4
  <2>3. /\ h[k].id \in Items
        /\ h[k].retryCount <= MaxRetries
        /\ attempts[h[k].id] = h[k].retryCount
    BY <2>2, <1>8
  <2> QED
    BY <2>1, <2>3, <1>7
<1>10. Counted(buffer', attempts', 0)
  <2> SUFFICES ASSUME NEW k \in DOMAIN buffer'
               PROVE  /\ buffer'[k].retryCount <= MaxRetries
                      /\ attempts'[buffer'[k].id] = buffer'[k].retryCount + 0
    BY DEF Counted
  <2>1. buffer'[k].id \notin Ids(h)
    BY <1>6 DEF Ids
  <2>2. k + n \in DOMAIN buffer /\ buffer'[k] = buffer[k + n]
    BY <1>4
  <2> QED
    BY <2>1, <2>2, <1>7, <1>8
<1>11. accepted' = accepted /\ outcome' = outcome /\ GoTo(t, "publish")
  BY DEF Dequeue
<1>12. \A i \in Items : i > accepted' => attempts'[i] = 0 /\ outcome'[i] = "pending"
  <2> SUFFICES ASSUME NEW i \in Items, i > accepted PROVE attempts'[i] = 0 /\ outcome[i] = "pending"
    BY <1>11
  <2>1. i \notin Ids(h)
    BY <1>0, <1>6 DEF Pending, TypeOK
  <2>2. attempts[i] = 0 /\ outcome[i] = "pending"
    BY <1>0 DEF RetriesCounted
  <2> QED
    BY <2>1, <2>2, <1>7
<1>13. RetriesCounted'
  <2>1. "publish" \in PCs /\ "publish" \in InFlight \ {"finish"}
    BY DEF PCs, InFlight
  <2> QED
    BY <2>1, <1>0, <1>2, <1>4, <1>5, <1>9, <1>10, <1>11, <1>12, FlushCounts
<1>14. RetriesBounded'
  <2> SUFFICES ASSUME NEW i \in Items
               PROVE  /\ attempts'[i] <= MaxRetries + 1
                      /\ outcome'[i] = "dropped" => attempts'[i] = MaxRetries + 1
    BY DEF RetriesBounded
  <2>1. CASE i \in Ids(h)
    <3>1. PICK k \in DOMAIN buffer : buffer[k].id = i
      BY <2>1, <1>4 DEF Ids
    <3>2. attempts'[i] <= MaxRetries + 1
      BY <3>1, <2>1, <1>7, <1>8
    <3>3. outcome'[i] = "pending"
      BY <2>1, <1>6, <1>11 DEF Pending
    <3> QED
      BY <3>2, <3>3
  <2>2. CASE i \notin Ids(h)
    BY <2>2, <1>0, <1>7, <1>11 DEF RetriesBounded, TypeOK
  <2> QED
    BY <2>1, <2>2
<1> QED
  BY <1>13, <1>14

LEMMA CountedAcked ==
    ASSUME IInv, NEW t \in Threads, PublishAcked(t)
    PROVE  RetriesCounted' /\ RetriesBounded'
<1>0. TypeOK /\ SingleFlight /\ QueueHoldsPending /\ RetriesCounted /\ RetriesBounded
  BY DEF IInv
<1>1. \A u \in Threads \ {t} : items[u] = <<>>
  BY <1>0, OnlyOwnerHolds DEF PublishAcked, InFlight
<1>2. /\ buffer \in Seq(Entry) /\ buffer' = buffer /\ attempts' = attempts
      /\ accepted' = accepted /\ items' = [items EXCEPT ![t] = <<>>] /\ GoTo(t, "finish")
  BY <1>0 DEF PublishAcked, TypeOK
<1>3. Counted(buffer, attempts', 0) /\ Counted(<<>>, attempts', 1)
  BY <1>0, <1>2, CountedForm, CountedEmpty
<1>4. \A i \in Items : i > accepted' => attempts'[i] = 0 /\ outcome'[i] = "pending"
  <2> SUFFICES ASSUME NEW i \in Items, i > accepted
               PROVE  attempts'[i] = 0 /\ outcome'[i] = "pending"
    BY <1>2
  <2>1. attempts[i] = 0 /\ outcome[i] = "pending"
    BY <1>0 DEF RetriesCounted
  <2>2. Ids(items[t]) \subseteq Pending
    BY <1>0, <1>1, QueueParts
  <2>3. i \notin Ids(items[t])
    BY <1>0, <2>2 DEF Pending, TypeOK
  <2> QED
    BY <1>2, <2>1, <2>3 DEF PublishAcked
<1>5. RetriesCounted'
  <2>1. "finish" \in PCs
    BY DEF PCs, InFlight
  <2> QED
    BY <2>1, <1>0, <1>1, <1>2, <1>3, <1>4, EmptyOrder, FlushCounts
<1>6. RetriesBounded'
  BY <1>0, <1>2 DEF PublishAcked, RetriesBounded
<1> QED
  BY <1>5, <1>6

LEMMA CountedFails ==
    ASSUME IInv, NEW t \in Threads, PublishFails(t)
    PROVE  RetriesCounted' /\ RetriesBounded'
<1>0. TypeOK /\ SingleFlight /\ QueueHoldsPending /\ RetriesCounted /\ RetriesBounded
  BY DEF IInv
<1>1. \A u \in Threads \ {t} : items[u] = <<>>
  BY <1>0, OnlyOwnerHolds DEF PublishFails, InFlight
<1>2. /\ items[t] \in Seq(Entry) /\ buffer \in Seq(Entry)
      /\ Pending = Ids(items[t]) \cup Ids(buffer)
  BY <1>0, <1>1, QueueParts
<1>a. PICK m \in Nat : \E f \in [1..m -> Kept(items[t])] :
         items' = [items EXCEPT ![t] = Survivors(items[t], m, f)]
  BY <1>2, FailureKeepsSurvivors
<1>3. PICK f \in [1..m -> Kept(items[t])] :
         items' = [items EXCEPT ![t] = Survivors(items[t], m, f)]
  BY <1>a
<1> DEFINE s == items[t]
           r == Survivors(s, m, f)
<1>5. s \in Seq(Entry) /\ f \in [1..m -> Kept(s)] /\ items' = [items EXCEPT ![t] = r]
  BY <1>2, <1>3
<1>6. \A k \in DOMAIN s :
         /\ s[k].id \in Items /\ s[k].retryCount \in Nat
         /\ s[k].retryCount <= MaxRetries
         /\ attempts[s[k].id] = s[k].retryCount + 1
  <2>1. pc[t] # "requeue"
    BY DEF PublishFails
  <2>2. \A e \in Entry : e.id \in Items /\ e.retryCount \in Nat
    BY DEF Entry
  <2>3. \A k \in DOMAIN s : s[k].retryCount <= MaxRetries /\ attempts[s[k].id] = s[k].retryCount + 1
    BY <1>0, <2>1 DEF RetriesCounted
  <2> QED
    BY <1>2, <2>2, <2>3, SeqDomain
<1>7. /\ buffer' = buffer /\ attempts' = attempts /\ accepted' = accepted
      /\ GoTo(t, "requeue")
      /\ \A i \in Items : outcome'[i] =
            IF \E k \in DOMAIN s \ Kept(s) : s[k].id = i THEN "dropped" ELSE outcome[i]
  BY DEF PublishFails
<1> HIDE DEF s
<1>8. /\ r \in Seq(Entry)
      /\ Len(r) = m
      /\ \A k \in 1..m : /\ f[k] \in 1..Len(s)
                          /\ r[k].id = s[f[k]].id
                          /\ r[k].retryCount = s[f[k]].retryCount + 1
                          /\ s[f[k]].retryCount < MaxRetries
  BY <1>5, SurvivorsType
<1> HIDE DEF r
<1>9. Counted(r, attempts', 0)
  <2> SUFFICES ASSUME NEW k \in DOMAIN r
               PROVE  r[k].retryCount <= MaxRetries /\ attempts'[r[k].id] = r[k].retryCount + 0
    BY DEF Counted
  <2>1. k \in 1..m /\ f[k] \in DOMAIN s
    BY <1>5, <1>8, SeqDomain
  <2> QED
    BY <2>1, <1>6, <1>7, <1>8
<1>10. Counted(buffer, attempts', 0)
  BY <1>0, <1>7, CountedForm
<1>11. \A i \in Items : i > accepted' => attempts'[i] = 0 /\ outcome'[i] = "pending"
  <2> SUFFICES ASSUME NEW i \in Items, i > accepted
               PROVE  attempts'[i] = 0 /\ outcome'[i] = "pending"
    BY <1>7
  <2>1. attempts[i] = 0 /\ outcome[i] = "pending"
    BY <1>0 DEF RetriesCounted
  <2>2. \A k \in DOMAIN s : s[k].id # i
    BY <1>6, <2>1
  <2> QED
    BY <1>7, <2>1, <2>2
<1>12. RetriesCounted'
  <2>1. "requeue" \in PCs /\ "requeue" \in InFlight \ {"finish"}
    BY DEF PCs, InFlight
  <2> QED
    BY <2>1, <1>0, <1>1, <1>2, <1>5, <1>7, <1>8, <1>9, <1>10, <1>11, FlushCounts
<1>13. RetriesBounded'
  <2> SUFFICES ASSUME NEW i \in Items
               PROVE  /\ attempts[i] <= MaxRetries + 1
                      /\ outcome'[i] = "dropped" => attempts[i] = MaxRetries + 1
    BY <1>7 DEF RetriesBounded
  <2>1. ASSUME NEW k \in DOMAIN s \ Kept(s), s[k].id = i PROVE attempts[i] = MaxRetries + 1
    <3>1. s[k].retryCount >= MaxRetries
      BY <2>1 DEF Kept, Exhausted
    <3> QED
      BY <2>1, <3>1, <1>6
  <2> QED
    BY <2>1, <1>0, <1>7 DEF RetriesBounded
<1> QED
  BY <1>12, <1>13

LEMMA CountedRequeue ==
    ASSUME IInv, NEW t \in Threads, Requeue(t)
    PROVE  RetriesCounted' /\ RetriesBounded'
<1>0. TypeOK /\ SingleFlight /\ QueueHoldsPending /\ RetriesCounted /\ RetriesBounded
  BY DEF IInv
<1>1. \A u \in Threads \ {t} : items[u] = <<>>
  BY <1>0, OnlyOwnerHolds DEF Requeue, InFlight
<1>2. items[t] \in Seq(Entry) /\ buffer \in Seq(Entry)
  BY <1>0 DEF TypeOK
<1> DEFINE b == items[t] \o buffer
<1>3. Counted(items[t], attempts, 0) /\ Counted(buffer, attempts, 0)
  BY <1>0, CountedForm DEF Requeue
<1>4. b \in Seq(Entry) /\ Counted(b, attempts, 0)
  BY <1>2, <1>3, CountedConcat, ConcatProperties
<1>5. /\ items' = [items EXCEPT ![t] = <<>>] /\ buffer' = b /\ GoTo(t, "report")
      /\ attempts' = attempts /\ accepted' = accepted /\ outcome' = outcome
  BY DEF Requeue, history
<1> HIDE DEF b
<1>6. "report" \in PCs /\ Counted(<<>>, attempts', 1)
  BY CountedEmpty DEF PCs
<1>7. \A i \in Items : i > accepted' => attempts'[i] = 0 /\ outcome'[i] = "pending"
  BY <1>0, <1>5 DEF RetriesCounted
<1>8. RetriesCounted'
  BY <1>0, <1>1, <1>4, <1>5, <1>6, <1>7, EmptyOrder, FlushCounts
<1> QED
  BY <1>0, <1>5, <1>8, BoundedKept

LEMMA CountedTimePasses ==
    ASSUME TypeOK, RetriesCounted, TimePasses
    PROVE  RetriesCounted'
<1>1. ASSUME NEW s \in Seq(Entry)
      PROVE  /\ DOMAIN Sooner(s) = DOMAIN s
             /\ \A k \in DOMAIN s : /\ Sooner(s)[k].id = s[k].id
                                    /\ Sooner(s)[k].retryCount = s[k].retryCount
             /\ s = <<>> => Sooner(s) = <<>>
  <2>1. /\ Sooner(s) \in Seq(Entry) /\ Len(Sooner(s)) = Len(s)
        /\ DOMAIN s = 1..Len(s) /\ DOMAIN Sooner(s) = 1..Len(s)
        /\ \A k \in 1..Len(s) : /\ Sooner(s)[k].id = s[k].id
                                /\ Sooner(s)[k].retryCount = s[k].retryCount
    BY <1>1, SoonerType, SeqDomain
  <2>2. s = <<>> => Sooner(s) = <<>>
    BY <2>1, EmptySeq
  <2> QED
    BY <2>1, <2>2
<1>2. /\ buffer' = Sooner(buffer) /\ \A t \in Threads : items'[t] = Sooner(items[t])
      /\ pc' = pc /\ attempts' = attempts /\ outcome' = outcome /\ accepted' = accepted
  BY DEF TimePasses, history
<1>3. buffer \in Seq(Entry) /\ \A t \in Threads : items[t] \in Seq(Entry)
  BY DEF TypeOK
<1>4. ASSUME NEW s \in Seq(Entry), NEW n, Counted(s, attempts, n)
      PROVE  Counted(Sooner(s), attempts', n)
  BY <1>1, <1>2, <1>4 DEF Counted
<1>5. Counted(buffer', attempts', 0)
  BY <1>2, <1>3, <1>4, CountedForm
<1>6. ASSUME NEW t \in Threads
      PROVE  Counted(items'[t], attempts', IF pc'[t] = "requeue" THEN 0 ELSE 1)
  BY <1>2, <1>3, <1>4, CountedForm
<1>7. ASSUME NEW t \in Threads, pc'[t] \notin InFlight \ {"finish"}
      PROVE  items'[t] = <<>>
  BY <1>1, <1>2, <1>3, <1>7, CountedForm
<1>8. \A i \in Items : i > accepted' => attempts'[i] = 0 /\ outcome'[i] = "pending"
  BY <1>2 DEF RetriesCounted
<1>9. \A k \in DOMAIN buffer' : buffer'[k].retryCount + 0 = buffer'[k].retryCount
  <2>1. \A e \in Entry : e.retryCount \in Nat
    BY DEF Entry
  <2>2. \A k \in DOMAIN buffer : buffer[k].retryCount \in Nat
    BY <1>3, <2>1, SeqDomain
  <2>3. \A k \in DOMAIN buffer' : buffer'[k].retryCount \in Nat
    BY <1>1, <1>2, <1>3, <2>2
  <2> QED
    BY <2>3
<1> QED
  BY <1>5, <1>6, <1>7, <1>8, <1>9 DEF RetriesCounted, Counted

-----------------------------------------------------------------------------
(* The inductive invariant.                                                *)

LEMMA IInvInit == Init => IInv
<1> SUFFICES ASSUME Init PROVE IInv
  OBVIOUS
<1>1. TypeOK
  BY TypeInit
<1>2. SingleFlight
  BY DEF Init, SingleFlight, InFlight, Threads
<1>3. /\ buffer = <<>> /\ accepted = 0 /\ \A t \in Threads : items[t] = <<>>
      /\ \A i \in Items : attempts[i] = 0 /\ outcome[i] = "pending"
  BY DEF Init
<1>4. QueueHoldsPending
  <2>1. Pending = {}
    BY <1>3 DEF Pending
  <2>2. <<>> \o <<>> = <<>>
    BY EmptyOrder, ConcatEmptySeq
  <2> QED
    BY <2>1, <2>2, <1>3, EmptyOrder DEF QueueHoldsPending
<1>5. RetriesCounted
  BY <1>3 DEF RetriesCounted
<1>6. RetriesBounded
  BY <1>3 DEF RetriesBounded
<1> QED
  BY <1>1, <1>2, <1>4, <1>5, <1>6 DEF IInv

LEMMA QueueKept ==
    ASSUME QueueHoldsPending, buffer' = buffer, items' = items, accepted' = accepted,
           outcome' = outcome
    PROVE  QueueHoldsPending'
BY DEF QueueHoldsPending, Pending

LEMMA IInvStep == IInv /\ [Next]_vars => IInv'
<1> SUFFICES ASSUME IInv, [Next]_vars PROVE IInv'
  OBVIOUS
<1>0. TypeOK /\ SingleFlight /\ QueueHoldsPending /\ RetriesCounted /\ RetriesBounded
  BY DEF IInv
<1>1. TypeOK' /\ SingleFlight'
  BY <1>0, TypeStep, SingleFlightStep
<1> SUFFICES QueueHoldsPending' /\ RetriesCounted' /\ RetriesBounded'
  BY <1>1 DEF IInv
<1> USE DEF locals, history
<1>2. /\ {"setDepth", "wait", "flush", "done", "await"} \subseteq PCs
      /\ Items \subseteq Threads /\ Ticker \in Threads
      /\ \A t \in Threads : pc[t] \notin InFlight \ {"finish"} => items[t] = <<>>
  BY <1>0 DEF PCs, InFlight, Threads, RetriesCounted
(* Steps that only move a thread that holds no items.                      *)
<1>3. ASSUME NEW t \in Threads, pc[t] \notin InFlight \ {"finish"}, NEW p \in PCs, GoTo(t, p),
             buffer' = buffer, items' = items, UNCHANGED history
      PROVE  QueueHoldsPending' /\ RetriesCounted' /\ RetriesBounded'
  BY <1>0, <1>2, <1>3, QueueKept, CountedKept, BoundedKept
<1>4. ASSUME NEW i \in Items, Enqueue(i)
      PROVE  QueueHoldsPending' /\ RetriesCounted' /\ RetriesBounded'
  <2>1. attempts' = attempts /\ outcome' = outcome
    BY <1>4 DEF Enqueue
  <2> QED
    BY <2>1, <1>0, <1>4, QueueEnqueue, CountedEnqueue, BoundedKept
<1>5. ASSUME NEW i \in Items, SetDepth(i)
      PROVE  QueueHoldsPending' /\ RetriesCounted' /\ RetriesBounded'
  <2>1. pc[i] \notin InFlight \ {"finish"}
    BY <1>5 DEF SetDepth, InFlight
  <2> QED
    BY <2>1, <1>2, <1>3, <1>5 DEF SetDepth
<1>6. ASSUME NEW t \in Threads, NothingToFlush(t) \/ FinishFlush(t) \/ ReportDepth(t)
      PROVE  QueueHoldsPending' /\ RetriesCounted' /\ RetriesBounded'
  <2>1. pc[t] \notin InFlight \ {"finish"}
    BY <1>6 DEF NothingToFlush, FinishFlush, ReportDepth, InFlight
  <2>2. GoTo(t, "wait") \/ GoTo(t, "done")
    BY <1>6 DEF NothingToFlush, FinishFlush, ReportDepth, FlushReturns
  <2> QED
    BY <2>1, <2>2, <1>2, <1>3, <1>6 DEF NothingToFlush, FinishFlush, ReportDepth
<1>7. ASSUME NEW t \in Threads, Dequeue(t)
      PROVE  QueueHoldsPending' /\ RetriesCounted' /\ RetriesBounded'
  BY <1>7, QueueDequeue, CountedDequeue
<1>8. ASSUME NEW t \in Threads, Send(t)
      PROVE  QueueHoldsPending' /\ RetriesCounted' /\ RetriesBounded'
  <2>1. "await" \in InFlight \ {"finish"} /\ pc[t] = "publish" /\ GoTo(t, "await")
    BY <1>8 DEF Send, InFlight
  <2>2. buffer' = buffer /\ items' = items /\ UNCHANGED history
    BY <1>8 DEF Send
  <2> QED
    BY <2>1, <2>2, <1>0, <1>2, QueueKept, CountedKept, BoundedKept
<1>9. ASSUME NEW t \in Threads, PublishAcked(t)
      PROVE  QueueHoldsPending' /\ RetriesCounted' /\ RetriesBounded'
  BY <1>9, QueueAcked, CountedAcked
<1>10. ASSUME NEW t \in Threads, PublishFails(t)
       PROVE  QueueHoldsPending' /\ RetriesCounted' /\ RetriesBounded'
  BY <1>10, QueueFails, CountedFails
<1>11. ASSUME NEW t \in Threads, Requeue(t)
       PROVE  QueueHoldsPending' /\ RetriesCounted' /\ RetriesBounded'
  BY <1>11, QueueRequeue, CountedRequeue
<1>12. CASE TickerFires \/ TickerStops
  <2>1. pc[Ticker] \notin InFlight \ {"finish"}
    BY <1>12 DEF TickerFires, TickerStops, InFlight
  <2> QED
    BY <2>1, <1>2, <1>3, <1>12 DEF TickerFires, TickerStops
<1>13. CASE TimePasses
  <2>1. attempts' = attempts /\ outcome' = outcome
    BY <1>13 DEF TimePasses
  <2> QED
    BY <2>1, <1>0, <1>13, QueueTimePasses, CountedTimePasses, BoundedKept
<1>14. CASE BrokerStores \/ RequestLost \/ Cancel \/ Exit \/ UNCHANGED vars
  <2>1. buffer' = buffer /\ items' = items /\ pc' = pc /\ UNCHANGED history
    BY <1>14 DEF BrokerStores, RequestLost, Cancel, Exit, vars
  <2>2. RetriesCounted'
    BY <2>1, <1>0 DEF RetriesCounted
  <2> QED
    BY <2>1, <2>2, <1>0, QueueKept, BoundedKept
<1> QED
  BY <1>4, <1>5, <1>6, <1>7, <1>8, <1>9, <1>10, <1>11, <1>12, <1>13, <1>14 DEF Next, FlushStep

THEOREM Invariant == Spec => []IInv
BY IInvInit, IInvStep, PTL DEF Spec

(* Every accepted item that is not settled is in the batch of the running  *)
(* flush or in the buffer, once, and in order of arrival.                  *)
THEOREM NothingLost == Spec => []QueueHoldsPending
<1>1. IInv => QueueHoldsPending
  BY DEF IInv
<1> QED
  BY <1>1, Invariant, PTL

(* No item is published more than MaxRetries + 1 times, and one that is    *)
(* dropped was published that often.                                       *)
THEOREM RetriesAreBounded == Spec => []RetriesBounded
<1>1. IInv => RetriesBounded
  BY DEF IInv
<1> QED
  BY <1>1, Invariant, PTL

-----------------------------------------------------------------------------
(* Settled items.                                                          *)

Settles == \A i \in Items : outcome[i] # "pending" =>
               outcome'[i] = outcome[i] /\ attempts'[i] = attempts[i]

LEMMA SettledStep == IInv /\ [Next]_vars => [Settles]_vars
<1> SUFFICES ASSUME IInv, Next PROVE Settles
  OBVIOUS
<1>0. TypeOK /\ SingleFlight /\ QueueHoldsPending /\ RetriesCounted
  BY DEF IInv
<1> USE DEF history
<1>1. ASSUME outcome' = outcome, attempts' = attempts PROVE Settles
  BY <1>1 DEF Settles
<1>2. \A t \in Threads : Ids(items[t]) \subseteq Pending
  BY <1>0 DEF QueueHoldsPending
<1>3. ASSUME NEW t \in Threads, Dequeue(t) PROVE Settles
  <2>1. PICK n \in 1..Len(buffer) :
           /\ items' = [items EXCEPT ![t] = SubSeq(buffer, 1, n)]
           /\ buffer' = SubSeq(buffer, n + 1, Len(buffer))
    BY <1>3 DEF Dequeue
  <2>2. items'[t] = SubSeq(buffer, 1, n) /\ buffer \in Seq(Entry)
    BY <1>0, <2>1 DEF TypeOK
  <2>3. \A k \in DOMAIN items'[t] : k \in DOMAIN buffer /\ items'[t][k] = buffer[k]
    BY <2>2, SplitBuffer
  <2>4. Ids(items'[t]) \subseteq Ids(buffer)
    BY <2>3 DEF Ids
  <2>5. Ids(items'[t]) \subseteq Pending
    BY <1>0, <2>4 DEF QueueHoldsPending
  <2>6. \A i \in Items : outcome[i] # "pending" => i \notin Ids(items'[t])
    BY <2>5 DEF Pending
  <2>7. outcome' = outcome /\ \A i \in Items : attempts'[i] =
           attempts[i] + IF i \in Ids(items'[t]) THEN 1 ELSE 0
    BY <1>3 DEF Dequeue
  <2> QED
    BY <1>0, <2>6, <2>7 DEF Settles, TypeOK
<1>4. ASSUME NEW t \in Threads, PublishAcked(t) PROVE Settles
  BY <1>2, <1>4 DEF PublishAcked, Settles, Pending
<1>5. ASSUME NEW t \in Threads, PublishFails(t) PROVE Settles
  <2>1. \A k \in DOMAIN items[t] : items[t][k].id \in Pending
    BY <1>2 DEF Ids
  <2> QED
    BY <1>5, <2>1 DEF PublishFails, Settles, Pending
<1>6. ASSUME NEW i \in Items, Enqueue(i) \/ SetDepth(i) PROVE Settles
  BY <1>1, <1>6 DEF Enqueue, SetDepth
<1>7. ASSUME NEW t \in Threads, NothingToFlush(t) \/ Send(t) \/ FinishFlush(t) \/ Requeue(t)
                                \/ ReportDepth(t)
      PROVE  Settles
  BY <1>1, <1>7 DEF NothingToFlush, Send, FinishFlush, Requeue, ReportDepth
<1>8. CASE \/ TickerFires \/ TickerStops \/ TimePasses \/ BrokerStores \/ RequestLost
           \/ Cancel \/ Exit
  BY <1>1, <1>8 DEF TickerFires, TickerStops, TimePasses, BrokerStores, RequestLost, Cancel, Exit
<1> QED
  BY <1>3, <1>4, <1>5, <1>6, <1>7, <1>8 DEF Next, FlushStep

(* No late reply, timer or retry touches an item that was delivered or     *)
(* dropped.                                                                *)
THEOREM SettledStaysSettled == Spec => SettledForGood
<1>1. IInv /\ [Next]_vars => [Settles]_vars
  BY SettledStep
<1>2. Spec => [][Settles]_vars
  BY <1>1, Invariant, PTL DEF Spec
<1> QED
  BY <1>2 DEF SettledForGood, Settles

=============================================================================
