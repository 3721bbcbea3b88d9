----------------------- MODULE PublisherRelay_proofs -----------------------
(***************************************************************************)
(* What the broker sees of the publisher, and that the publisher           *)
(* implements TelemetryRelay, for every number of items, flush count,      *)
(* retry limit and backoff.                                                *)
(***************************************************************************)
EXTENDS BufferedPublisher_proofs, FiniteSetTheorems

USE ConstantsAssumption DEF MayFlush, Rest, Restored

-----------------------------------------------------------------------------
(* Requests in a sequence.                                                 *)

(* The positions of a sequence of requests, and what is found there.       *)
LEMMA RequestSeq ==
    ASSUME NEW q \in Seq(Message)
    PROVE  /\ DOMAIN q = 1..Len(q) /\ Len(q) \in Nat
           /\ \A k \in DOMAIN q : q[k] \in Message /\ q[k].tid \in Nat /\ q[k].ids \subseteq Items
<1>1. DOMAIN q = 1..Len(q) /\ Len(q) \in Nat /\ \A k \in 1..Len(q) : q[k] \in Message
  BY ElementOfSeq, LenProperties
<1>2. \A m \in Message : m.tid \in Nat /\ m.ids \subseteq Items
  BY DEF Message
<1> QED
  BY <1>1, <1>2

(* A request that joins the end of a sequence.                             *)
LEMMA RequestAppended ==
    ASSUME NEW q \in Seq(Message), NEW m \in Message
    PROVE  /\ DOMAIN Append(q, m) = DOMAIN q \cup {Len(q) + 1}
           /\ Len(q) + 1 \notin DOMAIN q
           /\ \A k \in DOMAIN q : k < Len(q) + 1 /\ Append(q, m)[k] = q[k]
           /\ Append(q, m)[Len(q) + 1] = m
<1>1. /\ DOMAIN q = 1..Len(q) /\ Len(q) \in Nat
      /\ DOMAIN Append(q, m) = 1..(Len(q) + 1)
  BY RequestSeq, AppendProperties, LenProperties
<1>2. /\ \A k \in 1..Len(q) : Append(q, m)[k] = q[k]
      /\ Append(q, m)[Len(q) + 1] = m
  BY AppendProperties
<1>3. 1..(Len(q) + 1) = 1..Len(q) \cup {Len(q) + 1} /\ Len(q) + 1 \notin 1..Len(q)
  BY <1>1
<1> QED
  BY <1>1, <1>2, <1>3

(* The first request leaves a sequence.                                    *)
LEMMA RequestTaken ==
    ASSUME NEW q \in Seq(Message), q # <<>>
    PROVE  /\ 1 \in DOMAIN q /\ Head(q) = q[1] /\ Head(q) \in Message
           /\ Tail(q) \in Seq(Message)
           /\ DOMAIN q = {1} \cup {k + 1 : k \in DOMAIN Tail(q)}
           /\ \A k \in DOMAIN Tail(q) :
                 k \in Nat \ {0} /\ k + 1 \in DOMAIN q /\ Tail(q)[k] = q[k + 1]
<1>1. /\ DOMAIN q = 1..Len(q) /\ Len(q) \in Nat /\ Len(q) # 0
  BY RequestSeq, EmptySeq
<1>2. /\ Head(q) \in Message /\ Tail(q) \in Seq(Message)
      /\ Len(Tail(q)) = Len(q) - 1
      /\ \A k \in 1..Len(Tail(q)) : Tail(q)[k] = q[k + 1]
  BY HeadTailProperties
<1>3. DOMAIN Tail(q) = 1..(Len(q) - 1)
  BY <1>2, RequestSeq
<1>4. \A k \in 1..(Len(q) - 1) : k \in Nat \ {0} /\ k + 1 \in 1..Len(q)
  BY <1>1
<1>5. \A n \in 1..Len(q) : n = 1 \/ (n - 1 \in 1..(Len(q) - 1) /\ (n - 1) + 1 = n)
  BY <1>1
<1>6. 1..Len(q) = {1} \cup {k + 1 : k \in 1..(Len(q) - 1)}
  <2>1. 1 \in 1..Len(q)
    BY <1>1
  <2>2. 1..Len(q) \subseteq {1} \cup {k + 1 : k \in 1..(Len(q) - 1)}
    BY <1>5
  <2> QED
    BY <2>1, <2>2, <1>4
<1>7. Head(q) = q[1]
  OBVIOUS
<1>8. 1 \in 1..Len(q)
  BY <1>1
<1> QED
  BY <1>1, <1>2, <1>3, <1>4, <1>6, <1>7, <1>8

-----------------------------------------------------------------------------
(* The order of what is sent.                                              *)

(* What a step may do to the requests: one is sent, one is stored, one is  *)
(* lost, or they stay.                                                     *)
LEMMA RequestsMove ==
    ASSUME [Next]_vars
    PROVE  \/ \E t \in Threads : Send(t)
           \/ BrokerStores
           \/ RequestLost
           \/ wire' = wire /\ stream' = stream
<1> USE DEF network
<1>1. ASSUME NEW i \in Items, Enqueue(i) \/ SetDepth(i)
      PROVE  wire' = wire /\ stream' = stream
  BY <1>1 DEF Enqueue, SetDepth
<1>2. ASSUME NEW t \in Threads, NothingToFlush(t) \/ Dequeue(t) \/ PublishAcked(t)
             \/ FinishFlush(t) \/ PublishFails(t) \/ Requeue(t) \/ ReportDepth(t)
      PROVE  wire' = wire /\ stream' = stream
  BY <1>2 DEF NothingToFlush, Dequeue, PublishAcked, FinishFlush, PublishFails, Requeue,
     ReportDepth
<1>3. CASE TickerFires \/ TickerStops \/ TimePasses \/ Cancel \/ Exit \/ UNCHANGED vars
  BY <1>3 DEF TickerFires, TickerStops, TimePasses, Cancel, Exit, vars
<1> QED
  BY <1>1, <1>2, <1>3 DEF Next, FlushStep

(* A request that is sent is in turn after all that were sent before.      *)
LEMMA SentRequestInTurn ==
    ASSUME IInv, SentWhenDue, NEW t \in Threads, Send(t), NEW m \in Sent
    PROVE  InTurn(m, [tid |-> tid[t], ids |-> Ids(items[t])])
<1>1. Ids(items[t]) \subseteq Pending
  BY DEF IInv, QueueHoldsPending
<1> SUFFICES ASSUME NEW i \in m.ids, NEW j \in Ids(items[t]), j < i
             PROVE  j \in m.ids
  BY DEF InTurn
<1>2. j \in Items /\ outcome[j] = "pending"
  BY <1>1 DEF Pending, IInv, TypeOK, Items
<1> QED
  BY <1>2 DEF SentWhenDue

(* What is stored and on its way stays in turn.                            *)
LEMMA InTurnStep ==
    ASSUME IInv, SentInTurn, SentWhenDue, [Next]_vars
    PROVE  SentInTurn'
<1>0. wire \in Seq(Message) /\ stream \in Seq(Message)
  BY DEF IInv, TypeOK
<1>1. ASSUME NEW t \in Threads, Send(t) PROVE SentInTurn'
  <2> DEFINE new == [tid |-> tid[t], ids |-> Ids(items[t])]
  <2>1. wire' = Append(wire, new) /\ stream' = stream
    BY <1>1 DEF Send
  <2>2. new \in Message
    <3>1. items[t] \in Seq(Entry) /\ tid[t] \in Nat
      BY DEF IInv, TypeOK
    <3> QED
      BY <3>1, IdsType DEF Message
  <2>3. \A m \in Sent : InTurn(m, new)
    BY <1>1, SentRequestInTurn
  <2> HIDE DEF new
  <2>4. /\ DOMAIN wire' = DOMAIN wire \cup {Len(wire) + 1}
        /\ \A k \in DOMAIN wire : k < Len(wire) + 1 /\ wire'[k] = wire[k]
        /\ wire'[Len(wire) + 1] = new
        /\ \A k \in DOMAIN wire' : k <= Len(wire) + 1
    BY <2>1, <2>2, <1>0, RequestAppended, RequestSeq
  <2>5. NeverOvertakes'
    BY <2>1 DEF NeverOvertakes, SentInTurn
  <2>6. ASSUME NEW m \in DOMAIN wire', NEW n \in DOMAIN wire', m < n
        PROVE  InTurn(wire'[m], wire'[n])
    <3>1. m \in DOMAIN wire
      BY <2>4, <2>6, <1>0, RequestSeq
    <3>2. CASE n \in DOMAIN wire
      BY <3>1, <3>2, <2>4, <2>6 DEF SentInTurn
    <3>3. CASE n = Len(wire) + 1
      BY <3>1, <3>3, <2>3, <2>4 DEF Sent
    <3> QED
      BY <3>2, <3>3, <2>4
  <2>7. ASSUME NEW m \in DOMAIN stream', NEW n \in DOMAIN wire'
        PROVE  InTurn(stream'[m], wire'[n])
    <3>1. CASE n \in DOMAIN wire
      BY <3>1, <2>1, <2>4 DEF SentInTurn
    <3>2. CASE n = Len(wire) + 1
      BY <3>2, <2>1, <2>3, <2>4 DEF Sent
    <3> QED
      BY <3>1, <3>2, <2>4
  <2> QED
    BY <2>5, <2>6, <2>7 DEF SentInTurn, InTurn
<1>2. ASSUME wire # <<>>, wire' = Tail(wire)
      PROVE  /\ \A m, n \in DOMAIN wire' : m < n => InTurn(wire'[m], wire'[n])
             /\ \A m \in DOMAIN stream, n \in DOMAIN wire' : InTurn(stream[m], wire'[n])
             /\ \A n \in DOMAIN wire' : InTurn(wire[1], wire'[n])
  <2>1. \A k \in DOMAIN wire' : k \in Nat \ {0} /\ k + 1 \in DOMAIN wire /\ wire'[k] = wire[k + 1]
    BY <1>0, <1>2, RequestTaken
  <2>2. 1 \in DOMAIN wire
    BY <1>0, <1>2, RequestTaken
  <2>3. \A m, n \in DOMAIN wire' : m < n => m + 1 < n + 1
    BY <2>1
  <2>4. \A n \in DOMAIN wire' : 1 < n + 1
    BY <2>1
  <2> QED
    BY <2>1, <2>2, <2>3, <2>4 DEF SentInTurn
<1>3. CASE BrokerStores
  <2>1. wire # <<>> /\ wire' = Tail(wire) /\ stream' = Append(stream, Head(wire))
    BY <1>3 DEF BrokerStores
  <2>2. 1 \in DOMAIN wire /\ Head(wire) = wire[1] /\ Head(wire) \in Message
    BY <1>0, <2>1, RequestTaken
  <2>3. /\ DOMAIN stream' = DOMAIN stream \cup {Len(stream) + 1}
        /\ \A k \in DOMAIN stream : k < Len(stream) + 1 /\ stream'[k] = stream[k]
        /\ stream'[Len(stream) + 1] = wire[1]
    BY <1>0, <2>1, <2>2, RequestAppended
  <2>4. ASSUME NEW m \in DOMAIN stream', NEW n \in DOMAIN stream', m < n
        PROVE  InTurn(stream'[m], stream'[n])
    <3>1. m \in DOMAIN stream
      BY <2>3, <2>4, <1>0, RequestSeq
    <3>2. CASE n \in DOMAIN stream
      BY <3>1, <3>2, <2>3, <2>4 DEF SentInTurn, NeverOvertakes
    <3>3. CASE n = Len(stream) + 1
      BY <3>1, <3>3, <2>2, <2>3 DEF SentInTurn
    <3> QED
      BY <3>2, <3>3, <2>3
  <2>5. ASSUME NEW m \in DOMAIN stream', NEW n \in DOMAIN wire'
        PROVE  InTurn(stream'[m], wire'[n])
    BY <1>2, <2>1, <2>3
  <2>6. \A m, n \in DOMAIN wire' : m < n => InTurn(wire'[m], wire'[n])
    BY <1>2, <2>1
  <2> QED
    BY <2>4, <2>5, <2>6 DEF SentInTurn, NeverOvertakes, InTurn
<1>4. CASE RequestLost
  <2>1. wire # <<>> /\ wire' = Tail(wire) /\ stream' = stream
    BY <1>4 DEF RequestLost
  <2> QED
    BY <1>2, <2>1 DEF SentInTurn, NeverOvertakes, InTurn
<1>5. CASE wire' = wire /\ stream' = stream
  BY <1>5 DEF SentInTurn, NeverOvertakes, InTurn
<1> QED
  BY <1>1, <1>3, <1>4, <1>5, RequestsMove

-----------------------------------------------------------------------------
(* What every request was sent with.                                       *)

(* The requests after a step are those before it and the one it sends.     *)
LEMMA SentStep ==
    ASSUME TypeOK, [Next]_vars, NEW m \in Sent'
    PROVE  \/ m \in Sent
           \/ \E t \in Threads : Send(t) /\ m = [tid |-> tid[t], ids |-> Ids(items[t])]
<1>0. wire \in Seq(Message) /\ stream \in Seq(Message)
  BY DEF TypeOK
<1>1. ASSUME NEW t \in Threads, Send(t)
      PROVE  m \in Sent \/ m = [tid |-> tid[t], ids |-> Ids(items[t])]
  <2> DEFINE new == [tid |-> tid[t], ids |-> Ids(items[t])]
  <2>1. wire' = Append(wire, new) /\ stream' = stream
    BY <1>1 DEF Send
  <2>2. new \in Message
    <3>1. items[t] \in Seq(Entry) /\ tid[t] \in Nat
      BY DEF TypeOK
    <3> QED
      BY <3>1, IdsType DEF Message
  <2> HIDE DEF new
  <2>3. \A k \in DOMAIN wire' : (k \in DOMAIN wire /\ wire'[k] = wire[k]) \/ wire'[k] = new
    BY <2>1, <2>2, <1>0, RequestAppended
  <2>4. m \in Sent \/ m = new
    BY <2>1, <2>3 DEF Sent
  <2> QED
    BY <2>4 DEF new
<1>2. ASSUME wire # <<>>, wire' = Tail(wire), NEW k \in DOMAIN wire'
      PROVE  wire'[k] \in Sent
  BY <1>0, <1>2, RequestTaken DEF Sent
<1>3. CASE BrokerStores
  <2>1. wire # <<>> /\ wire' = Tail(wire) /\ stream' = Append(stream, Head(wire))
    BY <1>3 DEF BrokerStores
  <2>2. Head(wire) \in Message /\ Head(wire) \in Sent
    BY <2>1, <1>0, RequestTaken DEF Sent
  <2>3. \A k \in DOMAIN stream' :
           (k \in DOMAIN stream /\ stream'[k] = stream[k]) \/ stream'[k] = Head(wire)
    BY <2>1, <2>2, <1>0, RequestAppended
  <2> QED
    BY <2>1, <2>2, <2>3, <1>2 DEF Sent
<1>4. CASE RequestLost
  <2>1. wire # <<>> /\ wire' = Tail(wire) /\ stream' = stream
    BY <1>4 DEF RequestLost
  <2> QED
    BY <2>1, <1>2 DEF Sent
<1>5. CASE wire' = wire /\ stream' = stream
  BY <1>5 DEF Sent
<1> QED
  BY <1>1, <1>3, <1>4, <1>5, RequestsMove

(* No step undoes the acceptance or the settlement of an item, or goes     *)
(* back with the transmission ids.                                         *)
LEMMA NothingUndone ==
    ASSUME IInv, [Next]_vars
    PROVE  /\ accepted' >= accepted
           /\ nextTid' >= nextTid
           /\ \A i \in Items : outcome[i] # "pending" => outcome'[i] = outcome[i]
<1>0. accepted \in Nat /\ nextTid \in Nat
  BY DEF IInv, TypeOK
<1> USE DEF history
<1>1. accepted' >= accepted /\ nextTid' >= nextTid
  <2>1. ASSUME NEW i \in Items, Enqueue(i) \/ SetDepth(i)
        PROVE  accepted' >= accepted /\ nextTid' >= nextTid
    BY <1>0, <2>1 DEF Enqueue, SetDepth
  <2>2. ASSUME NEW t \in Threads, NothingToFlush(t) \/ Dequeue(t) \/ Send(t) \/ PublishAcked(t)
               \/ FinishFlush(t) \/ PublishFails(t) \/ Requeue(t) \/ ReportDepth(t)
        PROVE  accepted' >= accepted /\ nextTid' >= nextTid
    BY <1>0, <2>2 DEF NothingToFlush, Dequeue, Send, PublishAcked, FinishFlush, PublishFails,
       Requeue, ReportDepth
  <2>3. CASE TickerFires \/ TickerStops \/ TimePasses \/ BrokerStores \/ RequestLost
             \/ Cancel \/ Exit \/ UNCHANGED vars
    BY <1>0, <2>3 DEF TickerFires, TickerStops, TimePasses, BrokerStores, RequestLost,
       Cancel, Exit, vars
  <2> QED
    BY <2>1, <2>2, <2>3 DEF Next, FlushStep
<1>2. Settles \/ UNCHANGED vars
  BY SettledStep
<1> QED
  BY <1>1, <1>2 DEF Settles, vars

(* A thread that publishes after a step has just taken its batch, or did   *)
(* so before, with the same batch and id.                                  *)
LEMMA PublishingStep ==
    ASSUME IInv, [Next]_vars, NEW t \in Publishing'
    PROVE  \/ Dequeue(t)
           \/ /\ t \in Publishing
              /\ tid'[t] = tid[t] /\ Ids(items'[t]) = Ids(items[t])
              /\ pc'[t] = pc[t] \/ (pc'[t] = "await" /\ Send(t))
<1>0. TypeOK /\ SingleFlight
  BY DEF IInv
<1>a. t \in Threads /\ pc'[t] \in {"publish", "await"}
  BY DEF Publishing
<1> DEFINE Same == /\ t \in Publishing
                   /\ tid'[t] = tid[t] /\ Ids(items'[t]) = Ids(items[t])
                   /\ pc'[t] = pc[t]
<1> USE DEF locals
(* A step that moves some thread to a point outside of Publish.            *)
<1>1. ASSUME NEW u \in Threads, NEW p \in PCs, GoTo(u, p), p \notin {"publish", "await"},
             \A v \in Threads \ {u} : tid'[v] = tid[v] /\ items'[v] = items[v]
      PROVE  Same
  <2>1. pc' = [pc EXCEPT ![u] = p] /\ pc \in [Threads -> PCs]
    BY <1>0, <1>1 DEF GoTo, TypeOK
  <2>2. t # u /\ pc'[t] = pc[t]
    BY <1>1, <1>a, <2>1
  <2> QED
    BY <1>1, <1>a, <2>2 DEF Publishing
<1>b. /\ {"setDepth", "flush", "done", "wait", "finish", "requeue", "report"} \subseteq PCs
      /\ {"setDepth", "flush", "done", "wait", "finish", "requeue", "report"}
            \cap {"publish", "await"} = {}
      /\ Items \subseteq Threads /\ Ticker \in Threads
      /\ items \in [Threads -> Seq(Entry)] /\ tid \in [Threads -> Nat]
  BY <1>0 DEF PCs, InFlight, Threads, TypeOK
<1>2. ASSUME NEW i \in Items, Enqueue(i) PROVE Same
  <2>1. GoTo(i, "setDepth") /\ tid' = tid /\ items' = items
    BY <1>2 DEF Enqueue
  <2> QED
    BY <2>1, <1>1, <1>b
<1>3. ASSUME NEW i \in Items, SetDepth(i) PROVE Same
  <2>1. (GoTo(i, "flush") \/ GoTo(i, "done")) /\ tid' = tid /\ items' = items
    BY <1>3 DEF SetDepth
  <2> QED
    BY <2>1, <1>1, <1>b
<1>4. ASSUME NEW u \in Threads, NothingToFlush(u) \/ FinishFlush(u) \/ ReportDepth(u) PROVE Same
  <2>1. (GoTo(u, "wait") \/ GoTo(u, "done")) /\ tid' = tid /\ items' = items
    BY <1>4 DEF NothingToFlush, FinishFlush, ReportDepth, FlushReturns
  <2> QED
    BY <2>1, <1>1, <1>b
<1>5. ASSUME NEW u \in Threads, PublishAcked(u) PROVE Same
  <2>1. /\ GoTo(u, "finish")
        /\ \A v \in Threads \ {u} : tid'[v] = tid[v] /\ items'[v] = items[v]
    BY <1>5, <1>b DEF PublishAcked
  <2> QED
    BY <2>1, <1>1, <1>b
<1>6. ASSUME NEW u \in Threads, PublishFails(u) PROVE Same
  <2>1. /\ GoTo(u, "requeue") /\ tid' = [tid EXCEPT ![u] = 0]
        /\ \E s : items' = [items EXCEPT ![u] = s]
    BY <1>6 DEF PublishFails
  <2>2. \A v \in Threads \ {u} : tid'[v] = tid[v] /\ items'[v] = items[v]
    BY <2>1, <1>b
  <2> QED
    BY <2>1, <2>2, <1>1, <1>b
<1>7. ASSUME NEW u \in Threads, Requeue(u) PROVE Same
  <2>1. /\ GoTo(u, "report") /\ tid' = tid
        /\ \A v \in Threads \ {u} : items'[v] = items[v]
    BY <1>7, <1>b DEF Requeue
  <2> QED
    BY <2>1, <1>1, <1>b
<1>8. ASSUME NEW u \in Threads, Dequeue(u) PROVE Dequeue(t)
  <2>1. pc' = [pc EXCEPT ![u] = "publish"] /\ ~flushing
    BY <1>8 DEF Dequeue, GoTo
  <2>2. pc[t] \notin {"publish", "await"}
    BY <2>1, <1>0, <1>a DEF SingleFlight, InFlight
  <2>3. t = u
    BY <2>1, <2>2, <1>0, <1>a DEF TypeOK
  <2> QED
    BY <2>3, <1>8
<1>9. ASSUME NEW u \in Threads, Send(u)
      PROVE  Same \/ (t \in Publishing /\ tid'[t] = tid[t] /\ Ids(items'[t]) = Ids(items[t])
                         /\ pc'[t] = "await" /\ Send(t))
  <2>1. pc' = [pc EXCEPT ![u] = "await"] /\ tid' = tid /\ items' = items /\ pc[u] = "publish"
    BY <1>9 DEF Send, GoTo
  <2>2. CASE t = u
    BY <2>1, <2>2, <1>0, <1>9, <1>a DEF TypeOK, Publishing
  <2>3. CASE t # u
    BY <2>1, <2>3, <1>0, <1>a DEF TypeOK, Publishing
  <2> QED
    BY <2>2, <2>3
<1>10. CASE TickerFires \/ TickerStops
  <2>1. GoTo(Ticker, "flush") /\ tid' = tid /\ items' = items
    BY <1>10 DEF TickerFires, TickerStops
  <2> QED
    BY <2>1, <1>1, <1>b
<1>11. CASE TimePasses
  <2>1. pc' = pc /\ tid' = tid /\ items'[t] = Sooner(items[t]) /\ items[t] \in Seq(Entry)
    BY <1>11, <1>a, <1>b DEF TimePasses
  <2>2. /\ DOMAIN Sooner(items[t]) = DOMAIN items[t]
        /\ \A k \in DOMAIN items[t] : Sooner(items[t])[k].id = items[t][k].id
    BY <2>1, SoonerType, SeqDomain
  <2>3. Ids(items'[t]) = Ids(items[t])
    BY <2>1, <2>2 DEF Ids
  <2> QED
    BY <2>1, <2>3, <1>a DEF Publishing
<1>12. CASE BrokerStores \/ RequestLost \/ Cancel \/ Exit \/ UNCHANGED vars
  <2>1. pc' = pc /\ tid' = tid /\ items' = items
    BY <1>12 DEF BrokerStores, RequestLost, Cancel, Exit, vars
  <2> QED
    BY <2>1, <1>a DEF Publishing
<1> QED
  BY <1>2, <1>3, <1>4, <1>5, <1>6, <1>7, <1>8, <1>9, <1>10, <1>11, <1>12 DEF Next, FlushStep

(* Requests stay known by their ids, and sent when due.                    *)
LEMMA WhenDueStep ==
    ASSUME IInv, SentWhenDue, [Next]_vars
    PROVE  SentWhenDue'
<1>0. TypeOK /\ SingleFlight /\ QueueHoldsPending /\ RetriesCounted
  BY DEF IInv
<1>1. /\ accepted' >= accepted /\ nextTid' >= nextTid
      /\ \A i \in Items : outcome[i] # "pending" => outcome'[i] = outcome[i]
      /\ accepted \in Nat /\ nextTid \in Nat /\ accepted' \in Nat /\ nextTid' \in Nat
  BY <1>0, NothingUndone, TypeStep DEF TypeOK
<1>2. ASSUME NEW t \in Threads, Dequeue(t)
      PROVE  tid'[t] = nextTid /\ nextTid' = nextTid + 1
  BY <1>0, <1>2 DEF Dequeue, TypeOK
<1>3. ASSUME NEW t \in Publishing' PROVE tid'[t] < nextTid'
  <2>1. CASE Dequeue(t)
    BY <2>1, <1>1, <1>2 DEF Publishing
  <2>2. CASE t \in Publishing /\ tid'[t] = tid[t]
    <3>1. tid[t] < nextTid /\ tid[t] \in Nat
      BY <2>2, <1>0 DEF SentWhenDue, Publishing, TypeOK
    <3> QED
      BY <3>1, <2>2, <1>1
  <2> QED
    BY <2>1, <2>2, PublishingStep
(* A request that was there before.                                        *)
<1>4. ASSUME NEW m \in Sent
      PROVE  /\ m.tid < nextTid'
             /\ \A i \in m.ids : /\ i <= accepted'
                                 /\ \A j \in Items : j < i => j \in m.ids \/ outcome'[j] # "pending"
             /\ \A t \in Publishing' :
                   m.tid = tid'[t] => pc'[t] = "await" /\ m.ids = Ids(items'[t])
  <2>1. /\ m.tid < nextTid /\ m.tid \in Nat /\ m.ids \subseteq Items
        /\ \A i \in m.ids : /\ i <= accepted
                            /\ \A j \in Items : j < i => j \in m.ids \/ outcome[j] # "pending"
        /\ \A t \in Publishing : m.tid = tid[t] => pc[t] = "await" /\ m.ids = Ids(items[t])
    BY <1>0, RequestSeq DEF SentWhenDue, Sent, TypeOK
  <2>2. m.tid < nextTid'
    BY <2>1, <1>1
  <2>3. \A i \in m.ids : i <= accepted'
    BY <2>1, <1>1 DEF Items
  <2>4. ASSUME NEW t \in Publishing', m.tid = tid'[t]
        PROVE  pc'[t] = "await" /\ m.ids = Ids(items'[t])
    <3>1. ~Dequeue(t)
      BY <2>1, <2>4, <1>1, <1>2 DEF Publishing
    <3>2. /\ t \in Publishing /\ tid'[t] = tid[t] /\ Ids(items'[t]) = Ids(items[t])
          /\ pc'[t] = pc[t] \/ pc'[t] = "await"
      BY <3>1, PublishingStep
    <3> QED
      BY <3>2, <2>1, <2>4
  <2>5. \A i \in m.ids : \A j \in Items : j < i => j \in m.ids \/ outcome'[j] # "pending"
    BY <2>1, <1>1
  <2> QED
    BY <2>2, <2>3, <2>4, <2>5
(* The request that this step sends.                                       *)
<1>5. ASSUME NEW t \in Threads, Send(t), NEW m, m = [tid |-> tid[t], ids |-> Ids(items[t])]
      PROVE  /\ m.tid < nextTid'
             /\ \A i \in m.ids : /\ i <= accepted'
                                 /\ \A j \in Items : j < i => j \in m.ids \/ outcome'[j] # "pending"
             /\ \A u \in Publishing' :
                   m.tid = tid'[u] => pc'[u] = "await" /\ m.ids = Ids(items'[u])
  <2>1. /\ pc[t] = "publish" /\ pc' = [pc EXCEPT ![t] = "await"]
        /\ tid' = tid /\ items' = items /\ outcome' = outcome /\ accepted' = accepted
        /\ nextTid' = nextTid
    BY <1>5 DEF Send, GoTo, locals, history
  <2>2. m.tid = tid[t] /\ m.ids = Ids(items[t])
    BY <1>5
  <2>3. t \in Publishing
    BY <2>1 DEF Publishing
  <2>4. \A u \in Publishing' : u = t
    BY <2>1, <1>0 DEF Publishing, SingleFlight, InFlight, TypeOK
  <2>5. pc'[t] = "await"
    BY <2>1, <1>0 DEF TypeOK
  <2>6. \A u \in Threads \ {t} : items[u] = <<>>
    BY <2>1, <1>0, OnlyOwnerHolds DEF InFlight
  <2>7. /\ Pending = Ids(items[t]) \cup Ids(buffer) /\ Before(items[t], buffer)
        /\ items[t] \in Seq(Entry) /\ buffer \in Seq(Entry)
    BY <2>6, <1>0, QueueParts
  <2>8. ASSUME NEW i \in Ids(items[t])
        PROVE  /\ i <= accepted
               /\ \A j \in Items : j < i => j \in Ids(items[t]) \/ outcome[j] # "pending"
    <3>1. i \in 1..accepted
      BY <2>7 DEF Pending
    <3>2. ASSUME NEW j \in Items, j < i, outcome[j] = "pending" PROVE j \in Ids(items[t])
      <4>1. j \in 1..accepted
        BY <3>1, <3>2, <1>1 DEF Items
      <4>2. j \in Pending
        BY <4>1, <3>2 DEF Pending
      <4>3. j \notin Ids(buffer)
        <5> SUFFICES ASSUME NEW n \in DOMAIN buffer, buffer[n].id = j PROVE FALSE
          BY DEF Ids
        <5>1. i < j
          BY <2>7 DEF Before, Ids
        <5> QED
          BY <5>1, <3>1, <3>2 DEF Items
      <4> QED
        BY <4>2, <4>3, <2>7
    <3> QED
      BY <3>1, <3>2
  <2>9. tid[t] < nextTid
    BY <2>3 DEF SentWhenDue
  <2> QED
    BY <2>1, <2>2, <2>4, <2>5, <2>8, <2>9
<1>6. ASSUME NEW m \in Sent'
      PROVE  /\ m.tid < nextTid'
             /\ \A i \in m.ids : /\ i <= accepted'
                                 /\ \A j \in Items : j < i => j \in m.ids \/ outcome'[j] # "pending"
             /\ \A t \in Publishing' :
                   m.tid = tid'[t] => pc'[t] = "await" /\ m.ids = Ids(items'[t])
  BY <1>0, <1>4, <1>5, SentStep
<1> QED
  BY <1>3, <1>6 DEF SentWhenDue

-----------------------------------------------------------------------------
(* The number of copies.                                                   *)

(* How many requests of a sequence carry an item.                          *)
LEMMA CarryingFinite ==
    ASSUME NEW q \in Seq(Message), NEW i \in Items
    PROVE  IsFiniteSet(Carrying(q, i)) /\ Cardinality(Carrying(q, i)) \in Nat
<1>1. DOMAIN q = 1..Len(q) /\ Len(q) \in Nat
  BY RequestSeq
<1>2. IsFiniteSet(1..Len(q))
  BY <1>1, FS_Interval
<1>3. Carrying(q, i) \in SUBSET (1..Len(q))
  BY <1>1 DEF Carrying
<1>4. IsFiniteSet(Carrying(q, i))
  BY <1>2, <1>3, FS_Subset
<1> QED
  BY <1>4, FS_CardinalityType

(* A request that joins counts for the items it carries.                   *)
LEMMA CarryingAppended ==
    ASSUME NEW q \in Seq(Message), NEW m \in Message, NEW i \in Items
    PROVE  /\ Carrying(q, i) \subseteq Carrying(Append(q, m), i)
           /\ i \in m.ids => Carrying(Append(q, m), i) # {}
           /\ Cardinality(Carrying(Append(q, m), i)) =
                 Cardinality(Carrying(q, i)) + IF i \in m.ids THEN 1 ELSE 0
<1> DEFINE a == Append(q, m)
           l == Len(q) + 1
<1>1. /\ DOMAIN a = DOMAIN q \cup {l} /\ l \notin DOMAIN q
      /\ \A k \in DOMAIN q : a[k] = q[k]
      /\ a[l] = m
  BY RequestAppended
<1>2. IsFiniteSet(Carrying(q, i)) /\ Cardinality(Carrying(q, i)) \in Nat /\ l \notin Carrying(q, i)
  BY <1>1, CarryingFinite DEF Carrying
<1> HIDE DEF a, l
<1>3. CASE i \in m.ids
  <2>1. Carrying(a, i) = Carrying(q, i) \cup {l}
    BY <1>1, <1>3 DEF Carrying
  <2>2. Cardinality(Carrying(a, i)) = Cardinality(Carrying(q, i)) + 1
    BY <2>1, <1>2, FS_AddElement
  <2> QED
    BY <2>1, <2>2, <1>3 DEF a
<1>4. CASE i \notin m.ids
  <2>1. Carrying(a, i) = Carrying(q, i)
    BY <1>1, <1>4 DEF Carrying
  <2> QED
    BY <2>1, <1>2, <1>4 DEF a
<1> QED
  BY <1>3, <1>4

(* The first request counted for the items it carries.                     *)
LEMMA CarryingTaken ==
    ASSUME NEW q \in Seq(Message), q # <<>>, NEW i \in Items
    PROVE  Cardinality(Carrying(q, i)) =
              Cardinality(Carrying(Tail(q), i)) + IF i \in Head(q).ids THEN 1 ELSE 0
<1> DEFINE r == Tail(q)
           S == Carrying(r, i)
           T == {k + 1 : k \in S}
           f == [k \in S |-> k + 1]
<1>1. /\ 1 \in DOMAIN q /\ Head(q) = q[1] /\ r \in Seq(Message)
      /\ DOMAIN q = {1} \cup {k + 1 : k \in DOMAIN r}
      /\ \A k \in DOMAIN r : k \in Nat \ {0} /\ k + 1 \in DOMAIN q /\ r[k] = q[k + 1]
  BY RequestTaken
<1> HIDE DEF r
<1>2. S \subseteq DOMAIN r /\ IsFiniteSet(S) /\ Cardinality(S) \in Nat
  BY <1>1, CarryingFinite DEF Carrying
<1>3. T \subseteq DOMAIN q /\ 1 \notin T
  <2>1. \A k \in S : k + 1 \in DOMAIN q /\ k + 1 # 1
    BY <1>1, <1>2
  <2> QED
    BY <2>1
<1>4. \A k \in DOMAIN q : i \in q[k].ids <=> k \in T \/ (k = 1 /\ i \in Head(q).ids)
  <2>1. ASSUME NEW k \in DOMAIN r PROVE i \in q[k + 1].ids <=> k + 1 \in T
    <3>1. i \in q[k + 1].ids <=> k \in S
      BY <1>1, <2>1 DEF Carrying
    <3>2. ASSUME NEW n \in S, n + 1 = k + 1 PROVE k \in S
      <4>1. n \in Nat /\ k \in Nat
        BY <1>1, <1>2, <2>1
      <4> QED
        BY <4>1, <3>2
    <3> QED
      BY <3>1, <3>2
  <2>2. \A k \in DOMAIN r : k + 1 # 1
    BY <1>1
  <2> QED
    BY <1>1, <1>3, <2>1, <2>2
<1>5. Cardinality(T) = Cardinality(S) /\ IsFiniteSet(T)
  <2>1. \A j, k \in S : f[j] = f[k] => j = k
    <3>1. \A k \in S : k \in Nat
      BY <1>1, <1>2
    <3> QED
      BY <3>1
  <2>2. f \in Bijection(S, T)
    BY <2>1 DEF Bijection, Injection, Surjection, IsInjective
  <2>3. ExistsBijection(S, T)
    BY <2>2 DEF ExistsBijection
  <2> QED
    BY <2>3, <1>2, FS_Bijection
<1> HIDE DEF T, S
<1>6. CASE i \in Head(q).ids
  <2>1. Carrying(q, i) = T \cup {1}
    BY <1>1, <1>3, <1>4, <1>6 DEF Carrying
  <2>2. Cardinality(Carrying(q, i)) = Cardinality(S) + 1
    BY <2>1, <1>3, <1>5, FS_AddElement
  <2> QED
    BY <2>2, <1>6 DEF S, r
<1>7. CASE i \notin Head(q).ids
  <2>1. Carrying(q, i) = T
    BY <1>1, <1>3, <1>4, <1>7 DEF Carrying
  <2>2. Cardinality(Carrying(q, i)) = Cardinality(S) + 0
    BY <2>1, <1>2, <1>5
  <2> QED
    BY <2>2, <1>7 DEF S, r
<1> QED
  BY <1>6, <1>7

(* Only a flush that takes its batch has something more to send.           *)
LEMMA UnsentStep ==
    ASSUME IInv, [Next]_vars, \A t \in Threads : ~Dequeue(t), NEW i \in Items, Unsent(i)'
    PROVE  Unsent(i)
<1>1. PICK t \in Threads : pc'[t] = "publish" /\ i \in Ids(items'[t])
  BY DEF Unsent, Ids
<1>2. t \in Publishing'
  BY <1>1 DEF Publishing
<1>3. Ids(items'[t]) = Ids(items[t]) /\ pc'[t] = pc[t]
  BY <1>1, <1>2, PublishingStep
<1> QED
  BY <1>1, <1>3 DEF Unsent

(* The steps that send, store, lose or confirm nothing, and begin no       *)
(* attempt.                                                                *)
LEMMA CopiesUntouched ==
    ASSUME IInv, [Next]_vars,
           \A t \in Threads : ~Dequeue(t) /\ ~Send(t) /\ ~PublishAcked(t),
           ~BrokerStores, ~RequestLost
    PROVE  /\ wire' = wire /\ stream' = stream /\ attempts' = attempts
           /\ \A i \in Items : outcome'[i] = "delivered" => outcome[i] = "delivered"
<1> USE DEF network, history
<1>1. ASSUME wire' = wire, stream' = stream, attempts' = attempts, outcome' = outcome
      PROVE  /\ wire' = wire /\ stream' = stream /\ attempts' = attempts
             /\ \A i \in Items : outcome'[i] = "delivered" => outcome[i] = "delivered"
  BY <1>1
<1>2. ASSUME NEW i \in Items, Enqueue(i) \/ SetDepth(i)
      PROVE  wire' = wire /\ stream' = stream /\ attempts' = attempts /\ outcome' = outcome
  BY <1>2 DEF Enqueue, SetDepth
<1>3. ASSUME NEW t \in Threads,
             NothingToFlush(t) \/ FinishFlush(t) \/ Requeue(t) \/ ReportDepth(t)
      PROVE  wire' = wire /\ stream' = stream /\ attempts' = attempts /\ outcome' = outcome
  BY <1>3 DEF NothingToFlush, FinishFlush, Requeue, ReportDepth
<1>4. ASSUME NEW t \in Threads, PublishFails(t)
      PROVE  /\ wire' = wire /\ stream' = stream /\ attempts' = attempts
             /\ \A i \in Items : outcome'[i] = "delivered" => outcome[i] = "delivered"
  BY <1>4 DEF PublishFails
<1>5. CASE TickerFires \/ TickerStops \/ TimePasses \/ Cancel \/ Exit \/ UNCHANGED vars
  BY <1>1, <1>5 DEF TickerFires, TickerStops, TimePasses, Cancel, Exit, vars
<1> QED
  BY <1>1, <1>2, <1>3, <1>4, <1>5 DEF Next, FlushStep

(* What the count of one item says, with numbers for its parts.            *)
LEMMA CountsType ==
    ASSUME TypeOK, NEW i \in Items
    PROVE  /\ Cardinality(Copies(i)) \in Nat
           /\ Cardinality(Carrying(wire, i)) \in Nat
           /\ attempts[i] \in Nat
BY CarryingFinite DEF TypeOK, Copies

(* Each attempt makes at most one copy, and confirmed items have one.      *)
LEMMA CopiesStep ==
    ASSUME IInv, SentWhenDue, CopiesCounted, [Next]_vars
    PROVE  CopiesCounted'
<1>0. /\ TypeOK /\ TypeOK' /\ SingleFlight /\ SingleFlight'
      /\ wire \in Seq(Message) /\ stream \in Seq(Message)
  BY TypeStep, SingleFlightStep DEF IInv, TypeOK
<1> SUFFICES ASSUME NEW i \in Items
             PROVE  /\ outcome'[i] = "delivered" => Copies(i)' # {}
                    /\ Cardinality(Copies(i)') + Cardinality(Carrying(wire', i))
                          + (IF Unsent(i)' THEN 1 ELSE 0) <= attempts'[i]
  BY DEF CopiesCounted, Carrying
<1> DEFINE s == Cardinality(Carrying(stream, i))
           w == Cardinality(Carrying(wire, i))
           u == IF Unsent(i) THEN 1 ELSE 0
           u2 == IF Unsent(i)' THEN 1 ELSE 0
<1>1. /\ s \in Nat /\ w \in Nat /\ attempts[i] \in Nat /\ attempts'[i] \in Nat
      /\ u \in {0, 1} /\ u2 \in {0, 1} /\ s + w + u <= attempts[i]
      /\ outcome[i] = "delivered" => Carrying(stream, i) # {}
      /\ Copies(i)' = Carrying(stream', i)
  BY <1>0, CountsType DEF CopiesCounted, Copies, TypeOK, Carrying
<1>2. ASSUME \A t \in Threads : ~Dequeue(t)
      PROVE  u2 <= u
  BY <1>2, UnsentStep
<1> HIDE DEF s, w, u, u2
<1> SUFFICES /\ outcome'[i] = "delivered" => Carrying(stream', i) # {}
             /\ Cardinality(Carrying(stream', i)) + Cardinality(Carrying(wire', i)) + u2
                   <= attempts'[i]
  BY <1>1 DEF u2
<1>3. ASSUME NEW t \in Threads, Dequeue(t)
      PROVE  /\ outcome'[i] = "delivered" => Carrying(stream', i) # {}
             /\ Cardinality(Carrying(stream', i)) + Cardinality(Carrying(wire', i)) + u2
                   <= attempts'[i]
  <2>1. /\ wire' = wire /\ stream' = stream /\ outcome' = outcome
        /\ attempts' = [j \in Items |-> attempts[j] + IF j \in Ids(items'[t]) THEN 1 ELSE 0]
        /\ pc' = [pc EXCEPT ![t] = "publish"]
    BY <1>3 DEF Dequeue, network, GoTo
  <2>2. pc'[t] = "publish"
    BY <2>1, <1>0 DEF TypeOK
  <2>3. ASSUME Unsent(i)' PROVE i \in Ids(items'[t])
    <3>1. PICK v \in Threads : pc'[v] = "publish" /\ i \in Ids(items'[v])
      BY <2>3 DEF Unsent, Ids
    <3>2. v = t
      BY <2>2, <3>1, <1>0 DEF SingleFlight, InFlight
    <3> QED
      BY <3>1, <3>2
  <2>4. attempts'[i] >= attempts[i] + u2
    BY <2>1, <2>3, <1>1 DEF u2
  <2>5. s + w + u2 <= attempts'[i]
    BY <2>4, <1>1
  <2> QED
    BY <2>1, <2>5, <1>1 DEF s, w
<1>4. ASSUME NEW t \in Threads, Send(t)
      PROVE  /\ outcome'[i] = "delivered" => Carrying(stream', i) # {}
             /\ Cardinality(Carrying(stream', i)) + Cardinality(Carrying(wire', i)) + u2
                   <= attempts'[i]
  <2> DEFINE new == [tid |-> tid[t], ids |-> Ids(items[t])]
  <2>1. /\ stream' = stream /\ outcome' = outcome /\ attempts' = attempts
        /\ wire' = Append(wire, new) /\ pc[t] = "publish" /\ pc' = [pc EXCEPT ![t] = "await"]
    BY <1>4 DEF Send, network, history, GoTo
  <2>2. new \in Message /\ new.ids = Ids(items[t])
    <3>1. items[t] \in Seq(Entry) /\ tid[t] \in Nat
      BY <1>0 DEF TypeOK
    <3> QED
      BY <3>1, IdsType DEF Message
  <2> HIDE DEF new
  <2>3. Cardinality(Carrying(wire', i)) = w + IF i \in Ids(items[t]) THEN 1 ELSE 0
    BY <2>1, <2>2, <1>0, CarryingAppended DEF w
  <2>4. u2 = 0
    <3>1. pc'[t] = "await"
      BY <2>1, <1>0 DEF TypeOK
    <3>2. \A v \in Threads : pc'[v] # "publish"
      BY <3>1, <1>0 DEF SingleFlight, InFlight
    <3> QED
      BY <3>2 DEF u2, Unsent
  <2>5. i \in Ids(items[t]) => u = 1
    BY <2>1 DEF u, Unsent
  <2>6. s + Cardinality(Carrying(wire', i)) + u2 <= attempts[i]
    BY <2>3, <2>4, <2>5, <1>1
  <2> QED
    BY <2>1, <2>6, <1>1 DEF s
<1>5. CASE BrokerStores
  <2>1. /\ wire # <<>> /\ wire' = Tail(wire) /\ stream' = Append(stream, Head(wire))
        /\ outcome' = outcome /\ attempts' = attempts /\ pc' = pc
    BY <1>5 DEF BrokerStores, history
  <2>2. \A t \in Threads : ~Dequeue(t)
    BY <2>1, <1>0, <1>5 DEF Dequeue, network, BrokerStores
  <2>3. Head(wire) \in Message
    BY <2>1, <1>0, RequestTaken
  <2> DEFINE d == IF i \in Head(wire).ids THEN 1 ELSE 0
             w2 == Cardinality(Carrying(wire', i))
             s2 == Cardinality(Carrying(stream', i))
  <2>4. w = w2 + d
    BY <2>1, <1>0, CarryingTaken DEF w
  <2>5. s2 = s + d /\ Carrying(stream, i) \subseteq Carrying(stream', i)
    BY <2>1, <2>3, <1>0, CarryingAppended DEF s
  <2>6. wire' \in Seq(Message)
    BY <1>0 DEF TypeOK
  <2>7. w2 \in Nat
    BY <2>6, CarryingFinite
  <2>8. d \in {0, 1}
    OBVIOUS
  <2> HIDE DEF d, w2, s2
  <2>9. s2 + w2 + u2 <= attempts[i]
    BY <2>2, <2>4, <2>5, <2>7, <2>8, <1>1, <1>2
  <2> QED
    BY <2>1, <2>5, <2>9, <1>1 DEF s2, w2
<1>6. CASE RequestLost
  <2>1. /\ wire # <<>> /\ wire' = Tail(wire) /\ stream' = stream
        /\ outcome' = outcome /\ attempts' = attempts
    BY <1>6 DEF RequestLost, history
  <2>2. \A t \in Threads : ~Dequeue(t)
    BY <1>0, <1>6 DEF Dequeue, RequestLost
  <2> DEFINE w2 == Cardinality(Carrying(wire', i))
  <2>3. w = w2 + IF i \in Head(wire).ids THEN 1 ELSE 0
    BY <2>1, <1>0, CarryingTaken DEF w
  <2>4. wire' \in Seq(Message)
    BY <1>0 DEF TypeOK
  <2>5. w2 \in Nat
    BY <2>4, CarryingFinite
  <2> HIDE DEF w2
  <2>6. s + w2 + u2 <= attempts[i]
    BY <2>2, <2>3, <2>5, <1>1, <1>2
  <2> QED
    BY <2>1, <2>6, <1>1 DEF s, w2
<1>7. ASSUME NEW t \in Threads, PublishAcked(t)
      PROVE  /\ outcome'[i] = "delivered" => Carrying(stream', i) # {}
             /\ Cardinality(Carrying(stream', i)) + Cardinality(Carrying(wire', i)) + u2
                   <= attempts'[i]
  <2>1. /\ wire' = wire /\ stream' = stream /\ attempts' = attempts
        /\ outcome'[i] = IF i \in Ids(items[t]) THEN "delivered" ELSE outcome[i]
        /\ pc[t] = "await" /\ Confirmed(t)
    BY <1>7 DEF PublishAcked, network
  <2>2. PICK k \in DOMAIN stream : stream[k].tid = tid[t]
    BY <2>1 DEF Confirmed
  <2>3. t \in Publishing /\ stream[k] \in Sent
    BY <2>1 DEF Publishing, Sent
  <2>4. stream[k].ids = Ids(items[t])
    BY <2>2, <2>3 DEF SentWhenDue
  <2>5. i \in Ids(items[t]) => k \in Carrying(stream, i)
    BY <2>4 DEF Carrying
  <2>6. \A v \in Threads : ~Dequeue(v)
    BY <2>1, <1>0 DEF Dequeue, SingleFlight, InFlight
  <2>7. s + w + u2 <= attempts[i]
    BY <2>6, <1>1, <1>2
  <2> QED
    BY <2>1, <2>5, <2>7, <1>1 DEF s, w
<1>8. CASE /\ \A t \in Threads : ~Dequeue(t) /\ ~Send(t) /\ ~PublishAcked(t)
           /\ ~BrokerStores /\ ~RequestLost
  <2>1. /\ wire' = wire /\ stream' = stream /\ attempts' = attempts
        /\ outcome'[i] = "delivered" => outcome[i] = "delivered"
    BY <1>8, CopiesUntouched
  <2>2. s + w + u2 <= attempts[i]
    BY <1>1, <1>2, <1>8
  <2> QED
    BY <2>1, <2>2, <1>1 DEF s, w
<1> QED
  BY <1>3, <1>4, <1>5, <1>6, <1>7, <1>8

-----------------------------------------------------------------------------
(* The invariant of what the broker sees.                                  *)

(* The invariant holds at the start and in every step.                     *)
LEMMA BrokerInit == Init => BrokerInv
<1> SUFFICES ASSUME Init PROVE BrokerInv
  OBVIOUS
<1>1. /\ DOMAIN stream = {} /\ DOMAIN wire = {}
      /\ \A t \in Threads : pc[t] \notin {"publish", "await"}
      /\ \A i \in Items : outcome[i] = "pending" /\ attempts[i] = 0
  BY DEF Init
<1>2. Sent = {} /\ Publishing = {}
  BY <1>1 DEF Sent, Publishing
<1>3. \A i \in Items : ~Unsent(i) /\ Carrying(wire, i) = {} /\ Copies(i) = {}
  BY <1>1 DEF Unsent, Carrying, Copies
<1>4. Cardinality({}) = 0
  BY FS_EmptySet
<1>5. ASSUME NEW i \in Items
      PROVE  /\ outcome[i] # "delivered"
             /\ Cardinality(Copies(i)) + Cardinality(Carrying(wire, i))
                   + (IF Unsent(i) THEN 1 ELSE 0) <= attempts[i]
  <2>1. Cardinality(Copies(i)) = 0 /\ Cardinality(Carrying(wire, i)) = 0
    BY <1>3, <1>4
  <2>2. ~Unsent(i) /\ attempts[i] = 0 /\ outcome[i] = "pending"
    BY <1>1, <1>3
  <2> HIDE DEF Copies, Carrying, Unsent
  <2> QED
    BY <2>1, <2>2
<1>6. CopiesCounted
  BY <1>5 DEF CopiesCounted
<1> QED
  BY <1>1, <1>2, <1>6 DEF BrokerInv, SentInTurn, NeverOvertakes, SentWhenDue

LEMMA BrokerStep == IInv /\ BrokerInv /\ [Next]_vars => BrokerInv'
BY InTurnStep, WhenDueStep, CopiesStep DEF BrokerInv

(* What was sent and stored stays in turn, and each attempt makes at most  *)
(* one copy, whatever is lost or late.                                     *)
THEOREM BrokerInvariant == Spec => []BrokerInv
BY BrokerInit, BrokerStep, Invariant, PTL DEF Spec

(* The broker never holds an item in a batch after one with a later item,  *)
(* except both were sent together (buffered.go:181-236).                   *)
THEOREM NothingOvertakes == Spec => []NeverOvertakes
<1>1. BrokerInv => NeverOvertakes
  BY DEF BrokerInv, SentInTurn
<1> QED
  BY <1>1, BrokerInvariant, PTL

(* What Publish confirmed is stored, and an item is stored no more often   *)
(* than it was published.                                                  *)
THEOREM ConfirmedIsStored == Spec => []StoredAsPublished
<1>1. TypeOK /\ BrokerInv => StoredAsPublished
  <2> SUFFICES ASSUME TypeOK, BrokerInv, NEW i \in Items
               PROVE  /\ outcome[i] = "delivered" => Copies(i) # {}
                      /\ Cardinality(Copies(i)) <= attempts[i]
    BY DEF StoredAsPublished
  <2>1. /\ outcome[i] = "delivered" => Copies(i) # {}
        /\ Cardinality(Copies(i)) + Cardinality(Carrying(wire, i))
              + (IF Unsent(i) THEN 1 ELSE 0) <= attempts[i]
    BY DEF BrokerInv, CopiesCounted
  <2> QED
    BY <2>1, CountsType
<1> QED
  BY <1>1, TypeCorrect, BrokerInvariant, PTL

-----------------------------------------------------------------------------
(* The refinement of TelemetryRelay.                                       *)

Status   == [i \in Items |-> IF i > accepted THEN "unseen" ELSE outcome[i]]
CopyNums == [i \in Items |-> Cardinality(Copies(i))]

(* The relay's names, spelled out for the publisher.                       *)
LEMMA RelayNames ==
    /\ Relay!Items = Items
    /\ Relay!Pending = {i \in Items : Status[i] = "pending"}
    /\ Relay!vars = <<Status, attempts, CopyNums, Relayed>>
BY DEF Relay!Items, Relay!Pending, Relay!vars, Items, Status, CopyNums

(* The relay counts as the publisher does.                                 *)
LEMMA SameCardinality ==
    ASSUME NEW S
    PROVE  Relay!Cardinality(S) = Cardinality(S)
BY DEF Cardinality, Relay!Cardinality

(* Pending items of the publisher are pending in the relay.                *)
LEMMA SamePending ==
    ASSUME TypeOK
    PROVE  Pending = {i \in Items : Status[i] = "pending"}
<1>1. \A i \in Items : i \in 1..accepted <=> ~(i > accepted)
  BY DEF TypeOK, Items
<1>2. 1..accepted \subseteq Items
  BY DEF TypeOK, Items
<1> QED
  BY <1>1, <1>2 DEF Pending, Status

(* The publisher starts where the relay starts.                            *)
LEMMA RelayInit == Init => Relay!Init
<1> SUFFICES ASSUME Init PROVE Relay!Init
  OBVIOUS
<1>1. Status = [i \in Items |-> "unseen"]
  BY DEF Init, Status, Items
<1>2. \A i \in Items : Cardinality(Copies(i)) = 0
  <2>1. \A i \in Items : Copies(i) = {}
    BY DEF Init, Copies, Carrying
  <2> QED
    BY <2>1, FS_EmptySet
<1>3. Relayed = {}
  BY DEF Init, Relayed, Publishing
<1>4. attempts = [i \in Items |-> 0]
  BY DEF Init
<1> QED
  BY <1>1, <1>2, <1>3, <1>4, RelayNames DEF Relay!Init, Status

(* While a thread publishes, its batch is the relay's; else there is none. *)
LEMMA RelayedIs ==
    ASSUME SingleFlight
    PROVE  /\ \A t \in Publishing : Relayed = Ids(items[t])
           /\ Publishing = {} => Relayed = {}
<1>1. \A t, u \in Publishing : t = u
  BY DEF SingleFlight, Publishing, InFlight
<1>2. ASSUME NEW t \in Publishing PROVE Relayed = Ids(items[t])
  <2>1. Publishing = {t}
    BY <1>1, <1>2
  <2> QED
    BY <2>1 DEF Relayed
<1> QED
  BY <1>2 DEF Relayed

(* A step that takes no batch, and after which the same thread publishes,  *)
(* leaves the relay's batch alone.                                         *)
LEMMA RelayedKept ==
    ASSUME IInv, [Next]_vars, \A t \in Threads : ~Dequeue(t), Publishing \subseteq Publishing'
    PROVE  Relayed' = Relayed
<1>1. SingleFlight /\ SingleFlight'
  BY SingleFlightStep DEF IInv
<1>2. ASSUME NEW t \in Publishing'
      PROVE  t \in Publishing /\ Ids(items'[t]) = Ids(items[t])
  BY <1>2, PublishingStep DEF Publishing
<1>3. Publishing' = Publishing
  BY <1>2
<1>4. CASE Publishing = {}
  BY <1>3, <1>4 DEF Relayed
<1>5. ASSUME NEW t \in Publishing PROVE Relayed' = Relayed
  <2>1. Relayed = Ids(items[t]) /\ Ids(items'[t]) = Ids(items[t])
    BY <1>1, <1>2, <1>3, RelayedIs
  <2>2. Publishing' = {t}
    BY <1>1, <1>3, <1>5 DEF SingleFlight, Publishing, InFlight
  <2>3. Relayed' = UNION {Ids(items'[u]) : u \in Publishing'}
    BY DEF Relayed, Ids
  <2>4. Relayed' = Ids(items'[t])
    BY <2>2, <2>3
  <2> QED
    BY <2>1, <2>4
<1> QED
  BY <1>4, <1>5

(* The end of a publish empties the relay's batch.                         *)
LEMMA RelayedEnds ==
    ASSUME IInv, [Next]_vars, NEW t \in Publishing, PublishAcked(t) \/ PublishFails(t)
    PROVE  Relayed' = {}
<1>1. TypeOK /\ SingleFlight
  BY DEF IInv
<1>2. (pc' = [pc EXCEPT ![t] = "finish"] \/ pc' = [pc EXCEPT ![t] = "requeue"])
  BY DEF PublishAcked, PublishFails, GoTo
<1>3. \A u \in Threads : u = t \/ pc[u] \notin {"publish", "await"}
  BY <1>1 DEF SingleFlight, Publishing, InFlight
<1>4. \A u \in Threads : pc'[u] \notin {"publish", "await"}
  BY <1>1, <1>2, <1>3 DEF TypeOK, Publishing
<1>5. Publishing' = {}
  BY <1>4 DEF Publishing
<1> QED
  BY <1>5 DEF Relayed

(* What the relay sees of variables that a step leaves alone.              *)
LEMMA SeenKept ==
    /\ accepted' = accepted /\ outcome' = outcome => Status' = Status
    /\ stream' = stream => CopyNums' = CopyNums
BY DEF Status, CopyNums, Copies, Carrying, Items

(* Steps that the relay does not see.                                      *)
LEMMA RelayStutters ==
    ASSUME IInv, [Next]_vars, \A t \in Threads : ~Dequeue(t), Publishing \subseteq Publishing',
           accepted' = accepted, outcome' = outcome, attempts' = attempts, stream' = stream
    PROVE  UNCHANGED Relay!vars
<1>1. Status' = Status /\ CopyNums' = CopyNums /\ Relayed' = Relayed
  BY SeenKept, RelayedKept
<1> QED
  BY <1>1 DEF Relay!vars, Status, CopyNums

(* Enqueue is the acceptance of an item.                                   *)
LEMMA RelayAccepts ==
    ASSUME IInv, [Next]_vars, NEW i \in Items, Enqueue(i)
    PROVE  Relay!Accept(i)
<1>0. TypeOK /\ RetriesCounted
  BY DEF IInv
<1>1. /\ accepted' = i /\ i = accepted + 1 /\ accepted \in Nat /\ outcome' = outcome
      /\ attempts' = attempts /\ stream' = stream
      /\ pc[i] = "new" /\ pc' = [pc EXCEPT ![i] = "setDepth"]
  BY <1>0 DEF Enqueue, network, GoTo, TypeOK
<1>2. Status[i] = "unseen" /\ \A j \in Items : j < i => Status[j] # "unseen"
  <2>1. \A j \in Items : j < i => ~(j > accepted)
    BY <1>1 DEF Items
  <2>2. \A j \in Items : outcome[j] # "unseen"
    BY <1>0 DEF TypeOK
  <2> QED
    BY <1>1, <2>1, <2>2 DEF Status, Items
<1>3. Status' = [Status EXCEPT ![i] = "pending"]
  <2>1. outcome[i] = "pending"
    BY <1>0, <1>1 DEF RetriesCounted, Items
  <2>2. \A j \in Items : j > i <=> j > accepted /\ j # i
    BY <1>1 DEF Items
  <2>3. Status' = [j \in Items |-> IF j > i THEN "unseen" ELSE outcome[j]]
    BY <1>1 DEF Status, Items
  <2> QED
    BY <2>1, <2>2, <2>3, <1>1 DEF Status, Items
<1>4. Relayed' = Relayed
  <2>1. \A t \in Threads : ~Dequeue(t)
    <3> SUFFICES ASSUME NEW t \in Threads, Dequeue(t) PROVE FALSE
      OBVIOUS
    <3>1. accepted' = accepted
      BY DEF Dequeue
    <3> QED
      BY <3>1, <1>1
  <2>2. Publishing \subseteq Publishing'
    BY <1>0, <1>1 DEF Publishing, TypeOK
  <2> QED
    BY <2>1, <2>2, RelayedKept
<1>5. CopyNums' = CopyNums
  BY <1>1, SeenKept
<1> QED
  BY <1>1, <1>2, <1>3, <1>4, <1>5, RelayNames DEF Relay!Accept, Status, CopyNums

(* The first n entries of a sequence name at most n items.                 *)
LEMMA PrefixNames ==
    ASSUME NEW s \in Seq(Entry), NEW n \in Nat, Len(s) = n
    PROVE  Cardinality(Ids(s)) <= n
<1> DEFINE f == [k \in 1..n |-> s[k].id]
<1>1. Ids(s) = {s[k].id : k \in 1..n}
  BY SeqDomain DEF Ids
<1>2. f \in Surjection(1..n, Ids(s))
  BY <1>1 DEF Surjection
<1>3. ExistsSurjection(1..n, Ids(s))
  BY <1>2 DEF ExistsSurjection
<1> QED
  BY <1>3, FS_SurjCardinalityBound

(* Taking a batch from the buffer is an attempt.                           *)
LEMMA RelayAttempts ==
    ASSUME IInv, [Next]_vars, NEW t \in Threads, Dequeue(t)
    PROVE  \E S \in SUBSET Items : Relay!Attempt(S)
<1>0. /\ TypeOK /\ SingleFlight /\ QueueHoldsPending /\ RetriesCounted
      /\ TypeOK' /\ SingleFlight'
  BY TypeStep, SingleFlightStep DEF IInv
<1>1. PICK n \in 1..Len(buffer) :
         /\ ReadyCount(n)
         /\ items' = [items EXCEPT ![t] = SubSeq(buffer, 1, n)]
         /\ buffer' = SubSeq(buffer, n + 1, Len(buffer))
  BY DEF Dequeue
<1> DEFINE h == SubSeq(buffer, 1, n)
           S == Ids(h)
<1>2. /\ buffer \in Seq(Entry) /\ Len(buffer) \in Nat /\ n \in Nat /\ 1 <= n
      /\ n <= FlushCount
  BY <1>0, <1>1, LenProperties DEF TypeOK, ReadyCount
<1>3. /\ items[t] = <<>> /\ \A u \in Threads \ {t} : items[u] = <<>>
      /\ ~flushing /\ pc' = [pc EXCEPT ![t] = "publish"]
  BY <1>0, OnlyOwnerHolds DEF Dequeue, RetriesCounted, InFlight, GoTo
<1>4. InArrivalOrder(buffer) /\ Pending = Ids(buffer)
  BY <1>0, <1>2, <1>3, QueueParts, EmptyOrder
<1>5. /\ h \in Seq(Entry) /\ buffer' \in Seq(Entry) /\ buffer = h \o buffer'
      /\ \A k \in DOMAIN h : k \in DOMAIN buffer /\ h[k] = buffer[k]
  BY <1>1, <1>2, SplitBuffer
<1>6. Len(h) = n
  <2>1. \A k \in 1..n : buffer[k] \in Entry
    BY <1>1, <1>2, SeqDomain
  <2> QED
    BY <1>2, <2>1, SubSeqProperties
<1>7. items'[t] = h
  BY <1>0, <1>1 DEF TypeOK
<1> HIDE DEF h
<1>8. /\ Before(h, buffer') /\ Pending = S \cup Ids(buffer')
      /\ S \in SUBSET Items
  BY <1>4, <1>5, ConcatOrder, IdsType
<1>9. S # {}
  <2>1. 1 \in DOMAIN h
    BY <1>2, <1>5, <1>6, SeqDomain
  <2>2. h[1].id \in S
    BY <2>1 DEF Ids
  <2> QED
    BY <2>2
<1>10. Cardinality(S) <= FlushCount
  <2>1. Cardinality(S) <= n
    BY <1>2, <1>5, <1>6, PrefixNames
  <2>2. IsFiniteSet(Items)
    BY FS_Interval DEF Items
  <2>3. Cardinality(S) \in Nat
    BY <1>8, <2>2, FS_Subset, FS_CardinalityType
  <2> HIDE DEF S
  <2> QED
    BY <2>1, <2>3, <1>2
<1>11. \A i \in S, j \in Pending : j < i => j \in S
  <2> SUFFICES ASSUME NEW i \in S, NEW j \in Ids(buffer'), j < i PROVE FALSE
    BY <1>8
  <2>1. i < j
    BY <1>8 DEF Before, Ids
  <2>2. i \in Int /\ j \in Int
    BY <1>8 DEF Pending, Items
  <2> QED
    BY <2>1, <2>2
<1>12. \A i \in S : attempts[i] < MaxRetries + 1
  <2>1. \A k \in DOMAIN h : attempts[h[k].id] <= MaxRetries /\ h[k].id \in Items
    BY <1>0, <1>5, SeqDomain DEF RetriesCounted
  <2>2. \A i \in Items : attempts[i] \in Nat
    BY <1>0 DEF TypeOK
  <2>3. \A k \in DOMAIN h : attempts[h[k].id] < MaxRetries + 1
    BY <2>1, <2>2
  <2> QED
    BY <2>3 DEF Ids
<1>13. Relayed = {}
  <2>1. Publishing = {}
    BY <1>0, <1>3 DEF SingleFlight, Publishing, InFlight
  <2> QED
    BY <2>1, <1>0, RelayedIs
<1>14. Relayed' = S
  <2>1. \A u \in Threads : pc'[u] \in {"publish", "await"} <=> u = t
    BY <1>0, <1>3 DEF SingleFlight, InFlight, TypeOK
  <2>2. Publishing' = {t}
    BY <2>1 DEF Publishing
  <2>3. Relayed' = UNION {Ids(items'[u]) : u \in Publishing'}
    BY DEF Relayed, Ids
  <2> QED
    BY <2>2, <2>3, <1>7
<1>15. /\ attempts' = [i \in Items |-> IF i \in S THEN attempts[i] + 1 ELSE attempts[i]]
       /\ accepted' = accepted /\ outcome' = outcome /\ stream' = stream
  <2>1. attempts' = [i \in Items |-> attempts[i] + IF i \in S THEN 1 ELSE 0]
    BY <1>7 DEF Dequeue
  <2>2. \A i \in Items : attempts[i] + 0 = attempts[i]
    BY <1>0 DEF TypeOK
  <2>3. accepted' = accepted /\ outcome' = outcome /\ stream' = stream
    BY DEF Dequeue, network
  <2> QED
    BY <2>1, <2>2, <2>3
<1>16. Status' = Status /\ CopyNums' = CopyNums
  BY <1>15, SeenKept
<1> HIDE DEF S
<1>17. Relay!Oldest(S) /\ S \subseteq Relay!Pending
  BY <1>0, <1>8, <1>11, SamePending, RelayNames DEF Relay!Oldest
<1>18. Relay!Attempt(S)
  BY <1>9, <1>10, <1>12, <1>13, <1>14, <1>15, <1>16, <1>17, RelayNames, SameCardinality
     DEF Relay!Attempt, Status, CopyNums
<1> QED
  BY <1>8, <1>18

(* The broker's storing of a request is the relay's, unless it is empty.   *)
LEMMA RelayStores ==
    ASSUME IInv, BrokerInv, [Next]_vars, BrokerStores
    PROVE  (\E S \in SUBSET Items : Relay!Store(S)) \/ UNCHANGED Relay!vars
<1>0. /\ TypeOK /\ wire \in Seq(Message) /\ stream \in Seq(Message)
      /\ SentWhenDue /\ CopiesCounted
  BY DEF IInv, TypeOK, BrokerInv
<1> DEFINE S == Head(wire).ids
<1>1. /\ wire # <<>> /\ stream' = Append(stream, Head(wire)) /\ pc' = pc
      /\ accepted' = accepted /\ outcome' = outcome /\ attempts' = attempts
  BY DEF BrokerStores, history
<1>2. Head(wire) \in Message /\ S \in SUBSET Items
  BY <1>0, <1>1, RequestTaken DEF Message
<1>3. Relayed' = Relayed
  <2>1. \A t \in Threads : ~Dequeue(t)
    BY <1>0, <1>1 DEF Dequeue, GoTo, TypeOK
  <2>2. Publishing \subseteq Publishing'
    BY <1>1 DEF Publishing
  <2> QED
    BY <2>1, <2>2, RelayedKept
<1>4. Status' = Status
  BY <1>1, SeenKept
<1>5. ASSUME NEW i \in Items
      PROVE  /\ Cardinality(Copies(i)') = Cardinality(Copies(i)) + IF i \in S THEN 1 ELSE 0
             /\ Cardinality(Copies(i)) \in Nat
  <2>1. Copies(i) = Carrying(stream, i) /\ Copies(i)' = Carrying(Append(stream, Head(wire)), i)
    BY <1>1 DEF Copies, Carrying
  <2> QED
    BY <2>1, <1>0, <1>2, CarryingAppended, CarryingFinite
<1>6. \A i \in S : Cardinality(Copies(i)) < attempts[i]
  <2> SUFFICES ASSUME NEW i \in Items, i \in S PROVE Cardinality(Copies(i)) < attempts[i]
    BY <1>2
  <2>1. Cardinality(Carrying(wire, i)) = Cardinality(Carrying(Tail(wire), i)) + 1
    BY <1>0, <1>1, CarryingTaken
  <2>2. Tail(wire) \in Seq(Message)
    BY <1>0, <1>1, RequestTaken
  <2>3. Cardinality(Carrying(Tail(wire), i)) \in Nat
    BY <2>2, CarryingFinite
  <2>4. Cardinality(Copies(i)) + Cardinality(Carrying(wire, i))
           + (IF Unsent(i) THEN 1 ELSE 0) <= attempts[i]
    BY <1>0 DEF CopiesCounted
  <2>5. Cardinality(Copies(i)) \in Nat /\ attempts[i] \in Nat
    BY <1>0, CountsType
  <2>6. ASSUME NEW c \in Nat, NEW w \in Nat, NEW a \in Nat, NEW u \in {0, 1},
               c + (w + 1) + u <= a
        PROVE  c < a
    BY <2>6
  <2> QED
    BY <2>1, <2>3, <2>4, <2>5, <2>6
<1>7. CopyNums' = [i \in Items |-> IF i \in S THEN Cardinality(Copies(i)) + 1
                                   ELSE Cardinality(Copies(i))]
  <2>1. \A i \in Items : Cardinality(Copies(i)') = IF i \in S THEN Cardinality(Copies(i)) + 1
                                                   ELSE Cardinality(Copies(i))
    BY <1>5
  <2>2. CopyNums' = [i \in Items |-> Cardinality(Copies(i)')]
    BY DEF CopyNums, Copies, Carrying, Items
  <2> QED
    BY <2>1, <2>2
<1> HIDE DEF S
<1>8. CASE S # {}
  <2>1. /\ \A i \in S : CopyNums[i] < attempts[i]
        /\ CopyNums' = [i \in Items |-> IF i \in S THEN CopyNums[i] + 1 ELSE CopyNums[i]]
    BY <1>2, <1>6, <1>7 DEF CopyNums
  <2>2. Relay!Store(S)
    BY <2>1, <1>1, <1>3, <1>4, <1>8, RelayNames DEF Relay!Store, Status, CopyNums
  <2> QED
    BY <2>2, <1>2
<1>9. CASE S = {}
  <2>1. CopyNums' = CopyNums
    BY <1>7, <1>9 DEF CopyNums
  <2> QED
    BY <2>1, <1>1, <1>3, <1>4 DEF Relay!vars, Status, CopyNums
<1> QED
  BY <1>8, <1>9

(* An acknowledged batch is delivered.                                     *)
LEMMA RelayDelivers ==
    ASSUME IInv, BrokerInv, [Next]_vars, NEW t \in Threads, PublishAcked(t)
    PROVE  Relay!Deliver \/ UNCHANGED Relay!vars
<1>0. TypeOK /\ SingleFlight /\ QueueHoldsPending /\ SentWhenDue /\ CopiesCounted
  BY DEF IInv, BrokerInv
<1>1. /\ stream' = stream /\ attempts' = attempts /\ accepted' = accepted
      /\ outcome' = [i \in Items |-> IF i \in Ids(items[t]) THEN "delivered" ELSE outcome[i]]
      /\ pc[t] = "await" /\ Confirmed(t)
  BY DEF PublishAcked, network
<1>2. t \in Publishing
  BY <1>1 DEF Publishing
<1>3. Relayed = Ids(items[t]) /\ Relayed' = {}
  BY <1>0, <1>2, RelayedIs, RelayedEnds
<1>4. Relayed \subseteq Pending
  BY <1>0, <1>3 DEF QueueHoldsPending
<1>5. \A i \in Relayed : i \in Items /\ CopyNums[i] > 0
  <2> SUFFICES ASSUME NEW i \in Relayed PROVE i \in Items /\ CopyNums[i] > 0
    OBVIOUS
  <2>1. i \in Items
    BY <1>0, <1>4 DEF Pending, TypeOK, Items
  <2>2. PICK k \in DOMAIN stream : stream[k].tid = tid[t]
    BY <1>1 DEF Confirmed
  <2>3. stream[k].ids = Ids(items[t])
    BY <1>0, <1>2, <2>2 DEF SentWhenDue, Sent
  <2>4. Copies(i) # {}
    BY <1>3, <2>3 DEF Copies, Carrying
  <2>5. IsFiniteSet(Copies(i)) /\ Cardinality(Copies(i)) \in Nat
    BY <1>0, <2>1, CarryingFinite DEF Copies, TypeOK
  <2>6. Cardinality(Copies(i)) # 0
    BY <2>4, <2>5, FS_EmptySet
  <2> QED
    BY <2>1, <2>5, <2>6 DEF CopyNums
<1>6. Status' = [i \in Items |-> IF i \in Relayed THEN "delivered" ELSE Status[i]]
  <2>1. \A i \in Relayed : ~(i > accepted)
    BY <1>0, <1>4 DEF Pending, TypeOK
  <2> QED
    BY <2>1, <1>1, <1>3 DEF Status, Items
<1>7. CopyNums' = CopyNums
  BY <1>1, SeenKept
<1>8. CASE Relayed # {}
  <2>1. Relay!Deliver
    BY <1>1, <1>3, <1>5, <1>6, <1>7, <1>8, RelayNames DEF Relay!Deliver, Status, CopyNums
  <2> QED
    BY <2>1
<1>9. CASE Relayed = {}
  <2>1. Status' = Status
    BY <1>6, <1>9 DEF Status
  <2> QED
    BY <2>1, <1>1, <1>3, <1>7, <1>9 DEF Relay!vars, Status, CopyNums
<1> QED
  BY <1>8, <1>9

(* A failed publish fails the batch: it drops what has no attempt left.    *)
LEMMA RelayFails ==
    ASSUME IInv, [Next]_vars, NEW t \in Threads, PublishFails(t)
    PROVE  Relay!Fail \/ UNCHANGED Relay!vars
<1>0. TypeOK /\ SingleFlight /\ QueueHoldsPending /\ RetriesCounted
  BY DEF IInv
<1> DEFINE s == items[t]
<1>1. /\ stream' = stream /\ attempts' = attempts /\ accepted' = accepted
      /\ outcome' = [i \in Items |-> IF i \in DroppedIds(s) THEN "dropped" ELSE outcome[i]]
      /\ pc[t] \in {"publish", "await"}
  <2>1. outcome' = [i \in Items |->
           IF \E k \in DOMAIN s \ Kept(s) : s[k].id = i THEN "dropped" ELSE outcome[i]]
    BY DEF PublishFails
  <2>2. \A i : i \in DroppedIds(s) <=> \E k \in DOMAIN s \ Kept(s) : s[k].id = i
    BY DEF DroppedIds
  <2> QED
    BY <2>1, <2>2 DEF PublishFails, network
<1>2. t \in Publishing
  BY <1>1 DEF Publishing
<1>3. Relayed = Ids(s) /\ Relayed' = {}
  BY <1>0, <1>2, RelayedIs, RelayedEnds
<1>4. Relayed \subseteq Pending
  BY <1>0, <1>3 DEF QueueHoldsPending
<1>5. \A i \in Items : i \in DroppedIds(s) <=> i \in Relayed /\ attempts[i] = MaxRetries + 1
  <2>1. s \in Seq(Entry) /\ \A k \in DOMAIN s : s[k] \in Entry
    BY <1>0, SeqDomain DEF TypeOK
  <2>2. \A e \in Entry : e.retryCount \in Nat
    BY DEF Entry
  <2>3. pc[t] # "requeue"
    BY <1>1
  <2>4. \A k \in DOMAIN s : /\ s[k].retryCount \in Nat
                            /\ s[k].retryCount <= MaxRetries
                            /\ attempts[s[k].id] = s[k].retryCount + 1
    BY <1>0, <2>1, <2>2, <2>3 DEF RetriesCounted
  <2> HIDE DEF s
  <2>5. \A k \in DOMAIN s : k \notin Kept(s) <=> attempts[s[k].id] = MaxRetries + 1
    BY <2>4 DEF Kept, Exhausted
  <2> QED
    BY <2>5, <1>3 DEF DroppedIds, Ids
<1>6. Status' = [i \in Items |->
         IF i \in Relayed /\ attempts[i] = MaxRetries + 1 THEN "dropped" ELSE Status[i]]
  <2>1. \A i \in Relayed : ~(i > accepted)
    BY <1>0, <1>4 DEF Pending, TypeOK
  <2> HIDE DEF s
  <2> QED
    BY <2>1, <1>1, <1>5 DEF Status, Items
<1>7. CopyNums' = CopyNums
  BY <1>1, SeenKept
<1>8. CASE Relayed # {}
  <2>1. Relay!Fail
    BY <1>1, <1>3, <1>6, <1>7, <1>8, RelayNames DEF Relay!Fail, Status, CopyNums
  <2> QED
    BY <2>1
<1>9. CASE Relayed = {}
  <2>1. Status' = Status
    BY <1>6, <1>9 DEF Status
  <2> QED
    BY <2>1, <1>1, <1>3, <1>7, <1>9 DEF Relay!vars, Status, CopyNums
<1> QED
  BY <1>8, <1>9

(* Every step of the publisher is a step of the relay or leaves it alone.  *)
LEMMA RelayStep ==
    ASSUME IInv, BrokerInv, [Next]_vars
    PROVE  [Relay!Next]_(Relay!vars)
<1>0. TypeOK /\ SingleFlight
  BY DEF IInv
<1> USE DEF history, network
<1>1. ASSUME NEW i \in Items, Enqueue(i) PROVE Relay!Next
  BY <1>1, RelayAccepts, RelayNames DEF Relay!Next
<1>2. ASSUME NEW t \in Threads, Dequeue(t) PROVE Relay!Next
  BY <1>2, RelayAttempts, RelayNames DEF Relay!Next
<1>3. CASE BrokerStores
  BY <1>3, RelayStores, RelayNames DEF Relay!Next
<1>4. ASSUME NEW t \in Threads, PublishAcked(t) PROVE [Relay!Next]_(Relay!vars)
  BY <1>4, RelayDelivers DEF Relay!Next
<1>5. ASSUME NEW t \in Threads, PublishFails(t) PROVE [Relay!Next]_(Relay!vars)
  BY <1>5, RelayFails DEF Relay!Next
(* A thread moves that does not publish, or goes on to.                    *)
<1>6. ASSUME NEW t \in Threads, NEW p, GoTo(t, p), pc[t] \notin {"publish", "await"} \/ p = "await",
             \A u \in Threads : ~Dequeue(u),
             accepted' = accepted, outcome' = outcome, attempts' = attempts, stream' = stream
      PROVE  UNCHANGED Relay!vars
  <2>1. Publishing \subseteq Publishing'
    BY <1>0, <1>6 DEF GoTo, Publishing, TypeOK
  <2> QED
    BY <2>1, <1>6, RelayStutters
<1>7. ASSUME NEW i \in Items, SetDepth(i), \A u \in Threads : ~Dequeue(u)
      PROVE  UNCHANGED Relay!vars
  <2>1. i \in Threads /\ pc[i] \notin {"publish", "await"} /\ \E p : GoTo(i, p)
    BY <1>7 DEF SetDepth, Threads
  <2> QED
    BY <2>1, <1>6, <1>7 DEF SetDepth
<1>8. ASSUME NEW t \in Threads, \A u \in Threads : ~Dequeue(u),
             NothingToFlush(t) \/ FinishFlush(t) \/ Requeue(t) \/ ReportDepth(t)
      PROVE  UNCHANGED Relay!vars
  <2>1. pc[t] \notin {"publish", "await"} /\ \E p : GoTo(t, p)
    BY <1>8 DEF NothingToFlush, FinishFlush, Requeue, ReportDepth, FlushReturns
  <2>2. accepted' = accepted /\ outcome' = outcome /\ attempts' = attempts /\ stream' = stream
    BY <1>8 DEF NothingToFlush, FinishFlush, Requeue, ReportDepth
  <2> QED
    BY <2>1, <2>2, <1>6, <1>8
<1>9. ASSUME NEW t \in Threads, Send(t), \A u \in Threads : ~Dequeue(u)
      PROVE  UNCHANGED Relay!vars
  <2>1. /\ GoTo(t, "await")
        /\ accepted' = accepted /\ outcome' = outcome /\ attempts' = attempts /\ stream' = stream
    BY <1>9 DEF Send
  <2> QED
    BY <2>1, <1>6, <1>9
<1>10. ASSUME TickerFires \/ TickerStops, \A u \in Threads : ~Dequeue(u)
       PROVE  UNCHANGED Relay!vars
  <2>1. Ticker \in Threads /\ pc[Ticker] \notin {"publish", "await"} /\ GoTo(Ticker, "flush")
    BY <1>10 DEF TickerFires, TickerStops, Threads
  <2>2. accepted' = accepted /\ outcome' = outcome /\ attempts' = attempts /\ stream' = stream
    BY <1>10 DEF TickerFires, TickerStops
  <2> QED
    BY <2>1, <2>2, <1>6, <1>10
<1>11. ASSUME TimePasses \/ RequestLost \/ Cancel \/ Exit \/ UNCHANGED vars,
              \A u \in Threads : ~Dequeue(u)
       PROVE  UNCHANGED Relay!vars
  <2>1. /\ pc' = pc
        /\ accepted' = accepted /\ outcome' = outcome /\ attempts' = attempts /\ stream' = stream
    BY <1>11 DEF TimePasses, RequestLost, Cancel, Exit, vars
  <2>2. Publishing \subseteq Publishing'
    BY <2>1 DEF Publishing
  <2> QED
    BY <2>1, <2>2, <1>11, RelayStutters
<1> QED
  BY <1>1, <1>2, <1>3, <1>4, <1>5, <1>7, <1>8, <1>9, <1>10, <1>11 DEF Next, FlushStep

(* The publisher implements the relay: it accepts items in order, attempts *)
(* the oldest pending ones within the limits on batches and attempts, and  *)
(* settles a batch as delivered only if it is stored (buffered.go:75-199,  *)
(* jetstream_publisher.go:79-123).                                         *)
THEOREM PublisherImplementsRelay == Spec => RelaySpec
<1>1. Init => Relay!Init
  BY RelayInit
<1>2. IInv /\ BrokerInv /\ [Next]_vars => [Relay!Next]_(Relay!vars)
  BY RelayStep
<1>3. Spec => Relay!Init /\ [][Relay!Next]_(Relay!vars)
  BY <1>1, <1>2, Invariant, BrokerInvariant, PTL DEF Spec
<1> QED
  BY <1>3 DEF RelaySpec, Relay!Spec

(* What is proved of the relay, read with the publisher's state.           *)
Promised == INSTANCE TelemetryRelay_proofs WITH
    BatchLimit <- FlushCount,
    AttemptLimit <- MaxRetries + 1,
    status <- [i \in Items |-> IF i > accepted THEN "unseen" ELSE outcome[i]],
    attempts <- attempts,
    copies <- [i \in Items |-> Cardinality(Copies(i))],
    batch <- Relayed

(* The publisher keeps the relay's promise: items are attempted in the     *)
(* order of their arrival, the broker stores at most one copy per attempt, *)
(* and an item is dropped only after MaxRetries + 1 attempts               *)
(* (buffered.go:110-199).                                                  *)
THEOREM PublisherKeepsPromise == Spec => []Promised!Promise
<1>1. NumItems \in Nat /\ MaxRetries + 1 \in Nat
  BY ConstantsAssumption
<1>2. Promised!Spec => []Promised!Promise
  BY <1>1, Promised!RelayKeepsPromise
<1>3. Relay!Init => Promised!Init
  BY DEF Relay!Init, Promised!Init, Relay!Items, Promised!Items
<1>4. [Relay!Next]_(Relay!vars) => [Promised!Next]_(Promised!vars)
  <2>1. Relay!Items = Promised!Items /\ Relay!Pending = Promised!Pending
    BY DEF Relay!Items, Promised!Items, Relay!Pending, Promised!Pending
  <2>2. \A i : Relay!Accept(i) => Promised!Accept(i)
    BY <2>1 DEF Relay!Accept, Promised!Accept
  <2>3. \A S : Relay!Attempt(S) => Promised!Attempt(S)
    <3>1. \A S : Relay!Oldest(S) => Promised!Oldest(S)
      BY <2>1 DEF Relay!Oldest, Promised!Oldest
    <3>2. \A S : Relay!Cardinality(S) = Promised!Cardinality(S)
      BY DEF Relay!Cardinality, Promised!Cardinality
    <3> QED
      BY <2>1, <3>1, <3>2 DEF Relay!Attempt, Promised!Attempt
  <2>4. \A S : Relay!Store(S) => Promised!Store(S)
    BY <2>1 DEF Relay!Store, Promised!Store
  <2>5. Relay!Deliver => Promised!Deliver
    BY <2>1 DEF Relay!Deliver, Promised!Deliver
  <2>6. Relay!Fail => Promised!Fail
    BY <2>1 DEF Relay!Fail, Promised!Fail
  <2>7. Relay!Next => Promised!Next
    BY <2>1, <2>2, <2>3, <2>4, <2>5, <2>6 DEF Relay!Next, Promised!Next
  <2> QED
    BY <2>7 DEF Relay!vars, Promised!vars
<1>5. RelaySpec => Promised!Spec
  BY <1>3, <1>4, PTL DEF RelaySpec, Relay!Spec, Promised!Spec
<1> QED
  BY <1>2, <1>5, PublisherImplementsRelay, PTL

=============================================================================
