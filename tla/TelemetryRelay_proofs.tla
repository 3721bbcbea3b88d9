----------------------- MODULE TelemetryRelay_proofs -----------------------
(***************************************************************************)
(* What a user of the relay may count on, for every number of items, every *)
(* batch limit and every limit on attempts.  As the publisher implements   *)
(* the relay, all of it is true of the publisher.                          *)
(***************************************************************************)
EXTENDS TelemetryRelay, TLAPS

Statuses == {"unseen", "pending", "delivered", "dropped"}

TypeOK ==
    /\ status \in [Items -> Statuses]
    /\ attempts \in [Items -> Nat]
    /\ copies \in [Items -> Nat]
    /\ batch \in SUBSET Items

(* The batch is the oldest part of what is pending, and was attempted.     *)
BatchIsOldest ==
    /\ batch \subseteq Pending
    /\ Oldest(batch)
    /\ \A i \in batch : attempts[i] > 0

(* Items are accepted in order, and only accepted ones are attempted.      *)
AcceptedInOrder ==
    \A i \in Items : status[i] = "unseen" =>
        /\ attempts[i] = 0
        /\ \A j \in Items : i < j => status[j] = "unseen"

(* At-least-once delivery and its price: an item is stored at most once    *)
(* per attempt, what counts as delivered is stored, and an item is given   *)
(* up only after all its attempts (README.md:98).                          *)
AtLeastOnce ==
    \A i \in Items :
        /\ copies[i] <= attempts[i]
        /\ attempts[i] <= AttemptLimit
        /\ status[i] = "delivered" => copies[i] > 0
        /\ status[i] = "dropped" => attempts[i] = AttemptLimit

(* First in, first out: when an item is attempted for the first time,      *)
(* every older one was attempted before it or goes along.                  *)
OldestFirst ==
    \A i, j \in Items : i < j /\ attempts[j] > 0 => attempts[i] > 0

(* What keeps OldestFirst: a settled item was attempted.                   *)
SettledWasAttempted ==
    \A i \in Items : status[i] \in {"delivered", "dropped"} => attempts[i] > 0

Promise == TypeOK /\ BatchIsOldest /\ AcceptedInOrder /\ AtLeastOnce
             /\ OldestFirst /\ SettledWasAttempted

(* What is settled stays so, and only the batch under way is settled.      *)
SettledByItsBatch ==
    \A i \in Items :
        /\ status[i] \in {"delivered", "dropped"} => status'[i] = status[i]
        /\ status'[i] # status[i] /\ status[i] = "pending" => i \in batch

SettledOnce == [][SettledByItsBatch]_vars

-----------------------------------------------------------------------------

LEMMA PromiseInit ==
    ASSUME NumItems \in Nat, AttemptLimit \in Nat, Init
    PROVE  Promise
BY SMT DEF Init, Promise, TypeOK, BatchIsOldest, AcceptedInOrder, AtLeastOnce, OldestFirst,
           SettledWasAttempted, Statuses, Oldest, Pending, Items

LEMMA PromiseStep ==
    ASSUME NumItems \in Nat, AttemptLimit \in Nat, Promise, [Next]_vars
    PROVE  Promise'
<1> USE DEF Promise, Pending, Statuses
<1>0. Items \subseteq Int
  BY DEF Items
<1>1. ASSUME NEW i \in Items, Accept(i) PROVE Promise'
  <2>1. /\ status[i] = "unseen" /\ \A j \in Items : j < i => status[j] # "unseen"
        /\ status' = [status EXCEPT ![i] = "pending"]
        /\ attempts' = attempts /\ copies' = copies /\ batch' = batch
    BY <1>1 DEF Accept
  <2>2. /\ status'[i] = "pending"
        /\ \A j \in Items : j # i => status'[j] = status[j]
        /\ TypeOK'
    BY <2>1 DEF TypeOK
  <2>3. \A j \in Items : status[j] # "unseen" => j < i
    BY <1>0, <2>1 DEF AcceptedInOrder
  <2>4. BatchIsOldest'
    BY <1>0, <2>1, <2>2, <2>3 DEF BatchIsOldest, Oldest, TypeOK
  <2>5. AcceptedInOrder'
    BY <1>0, <2>1, <2>2 DEF AcceptedInOrder
  <2>6. AtLeastOnce' /\ OldestFirst' /\ SettledWasAttempted'
    BY <2>1, <2>2 DEF AtLeastOnce, OldestFirst, SettledWasAttempted
  <2> QED
    BY <2>2, <2>4, <2>5, <2>6
<1>2. ASSUME NEW S \in SUBSET Items, Attempt(S) PROVE Promise'
  <2>1. /\ S \subseteq Pending /\ Oldest(S)
        /\ \A i \in S : attempts[i] < AttemptLimit
        /\ batch' = S
        /\ \A i \in Items : attempts'[i] = IF i \in S THEN attempts[i] + 1 ELSE attempts[i]
        /\ status' = status /\ copies' = copies
    BY <1>2 DEF Attempt
  <2>2. TypeOK'
    BY <1>2, <2>1 DEF Attempt, TypeOK
  <2>3. \A i \in Items : attempts'[i] >= attempts[i] /\ (i \in S => attempts'[i] > 0)
    BY <2>1 DEF TypeOK
  <2>4. BatchIsOldest' /\ AcceptedInOrder' /\ SettledWasAttempted'
    BY <2>1, <2>3 DEF BatchIsOldest, Oldest, AcceptedInOrder, SettledWasAttempted, TypeOK
  <2>5. AtLeastOnce'
    BY <2>1 DEF AtLeastOnce, TypeOK
  <2>6. OldestFirst'
    <3> SUFFICES ASSUME NEW i \in Items, NEW j \in Items, i < j, attempts'[j] > 0
                 PROVE  attempts'[i] > 0
      BY DEF OldestFirst
    <3>1. CASE j \in S
      <4>1. status[i] # "unseen"
        BY <3>1, <2>1 DEF AcceptedInOrder
      <4>2. CASE status[i] = "pending"
        BY <4>2, <3>1, <2>1, <2>3 DEF Oldest
      <4>3. CASE status[i] \in {"delivered", "dropped"}
        BY <4>3, <2>1, <2>3 DEF SettledWasAttempted, TypeOK
      <4> QED
        BY <4>1, <4>2, <4>3 DEF TypeOK
    <3>2. CASE j \notin S
      BY <3>2, <2>1, <2>3 DEF OldestFirst, TypeOK
    <3> QED
      BY <3>1, <3>2
  <2> QED
    BY <2>2, <2>4, <2>5, <2>6
<1>3. ASSUME NEW S \in SUBSET Items, Store(S) PROVE Promise'
  <2>1. /\ \A i \in S : copies[i] < attempts[i]
        /\ \A i \in Items : copies'[i] = IF i \in S THEN copies[i] + 1 ELSE copies[i]
        /\ status' = status /\ attempts' = attempts /\ batch' = batch
    BY <1>3 DEF Store
  <2>2. TypeOK'
    BY <1>3, <2>1 DEF Store, TypeOK
  <2>3. BatchIsOldest' /\ AcceptedInOrder' /\ OldestFirst' /\ SettledWasAttempted'
    BY <2>1 DEF BatchIsOldest, Oldest, AcceptedInOrder, OldestFirst, SettledWasAttempted
  <2>4. AtLeastOnce'
    BY <2>1 DEF AtLeastOnce, TypeOK
  <2> QED
    BY <2>2, <2>3, <2>4
<1>4. ASSUME Deliver PROVE Promise'
  <2>1. /\ \A i \in batch : copies[i] > 0
        /\ \A i \in Items : status'[i] = IF i \in batch THEN "delivered" ELSE status[i]
        /\ attempts' = attempts /\ copies' = copies /\ batch' = {}
    BY <1>4 DEF Deliver
  <2>2. TypeOK'
    BY <1>4, <2>1 DEF Deliver, TypeOK
  <2>3. BatchIsOldest' /\ AtLeastOnce' /\ OldestFirst' /\ SettledWasAttempted'
    BY <2>1 DEF BatchIsOldest, Oldest, AtLeastOnce, OldestFirst, SettledWasAttempted
  <2>4. AcceptedInOrder'
    BY <2>1 DEF AcceptedInOrder, BatchIsOldest, TypeOK
  <2> QED
    BY <2>2, <2>3, <2>4
<1>5. ASSUME Fail PROVE Promise'
  <2>1. /\ \A i \in Items : status'[i] = IF i \in batch /\ attempts[i] = AttemptLimit
                                         THEN "dropped" ELSE status[i]
        /\ attempts' = attempts /\ copies' = copies /\ batch' = {}
    BY <1>5 DEF Fail
  <2>2. TypeOK'
    BY <1>5, <2>1 DEF Fail, TypeOK
  <2>3. BatchIsOldest' /\ AtLeastOnce' /\ OldestFirst' /\ SettledWasAttempted'
    BY <2>1 DEF BatchIsOldest, Oldest, AtLeastOnce, OldestFirst, SettledWasAttempted
  <2>4. AcceptedInOrder'
    BY <2>1 DEF AcceptedInOrder, BatchIsOldest, TypeOK
  <2> QED
    BY <2>2, <2>3, <2>4
<1>6. ASSUME UNCHANGED vars PROVE Promise'
  BY <1>6 DEF vars, TypeOK, BatchIsOldest, Oldest, AcceptedInOrder, AtLeastOnce, OldestFirst,
              SettledWasAttempted
<1> QED
  BY <1>1, <1>2, <1>3, <1>4, <1>5, <1>6 DEF Next

(* The relay keeps its promise: items are accepted and attempted in order, *)
(* stored at most once per attempt, and dropped only after all attempts    *)
(* (buffered.go:75-199, as far as TelemetryRelay abstracts it).            *)
THEOREM RelayKeepsPromise ==
    ASSUME NumItems \in Nat, AttemptLimit \in Nat
    PROVE  Spec => []Promise
<1>1. Init => Promise
  BY PromiseInit
<1>2. Promise /\ [Next]_vars => Promise'
  BY PromiseStep
<1> QED
  BY <1>1, <1>2, PTL DEF Spec

(* In the relay an item is settled once, by the batch that carried it: a   *)
(* late store or a batch of others never changes what became of it.        *)
THEOREM RelaySettlesOnce ==
    ASSUME NumItems \in Nat, AttemptLimit \in Nat
    PROVE  Spec => SettledOnce
<1>1. Promise /\ [Next]_vars => [SettledByItsBatch]_vars
  <2> SUFFICES ASSUME Promise, Next PROVE SettledByItsBatch
    BY DEF SettledByItsBatch
  <2>1. \A i \in batch : status[i] = "pending"
    BY DEF Promise, BatchIsOldest, Pending
  <2>2. ASSUME NEW i \in Items, Accept(i) PROVE SettledByItsBatch
    BY <2>2 DEF Accept, SettledByItsBatch, Promise, TypeOK
  <2>3. ASSUME NEW S \in SUBSET Items, Attempt(S) \/ Store(S) PROVE SettledByItsBatch
    BY <2>3 DEF Attempt, Store, SettledByItsBatch
  <2>4. ASSUME Deliver PROVE SettledByItsBatch
    BY <2>1, <2>4 DEF Deliver, SettledByItsBatch
  <2>5. ASSUME Fail PROVE SettledByItsBatch
    BY <2>1, <2>5 DEF Fail, SettledByItsBatch
  <2> QED
    BY <2>2, <2>3, <2>4, <2>5 DEF Next
<1> QED
  BY <1>1, RelayKeepsPromise, PTL DEF Spec, SettledOnce

=============================================================================
