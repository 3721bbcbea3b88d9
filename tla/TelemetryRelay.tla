--------------------------- MODULE TelemetryRelay ---------------------------
(***************************************************************************)
(* What the publisher promises to the ingest service, without buffer,      *)
(* timers, goroutines or transmission ids: items are accepted one after    *)
(* the other; the oldest pending ones are attempted, one batch at a time;  *)
(* an attempted item may be stored once per attempt, also after the        *)
(* attempt was given up; a batch ends delivered, if it was stored, or      *)
(* failed, and a failure drops the items that have no attempt left.        *)
(***************************************************************************)
EXTENDS Integers, FiniteSets

CONSTANTS NumItems, BatchLimit, AttemptLimit

Items == 1..NumItems

VARIABLES status, attempts, copies, batch

vars == <<status, attempts, copies, batch>>

Pending == {i \in Items : status[i] = "pending"}

Init ==
    /\ status = [i \in Items |-> "unseen"]
    /\ attempts = [i \in Items |-> 0]
    /\ copies = [i \in Items |-> 0]
    /\ batch = {}

Accept(i) ==
    /\ status[i] = "unseen"
    /\ \A j \in Items : j < i => status[j] # "unseen"
    /\ status' = [status EXCEPT ![i] = "pending"]
    /\ UNCHANGED <<attempts, copies, batch>>

Oldest(S) == \A i \in S, j \in Pending : j < i => j \in S

Attempt(S) ==
    /\ batch = {}
    /\ S # {} /\ S \subseteq Pending /\ Oldest(S)
    /\ Cardinality(S) <= BatchLimit
    /\ \A i \in S : attempts[i] < AttemptLimit
    /\ batch' = S
    /\ attempts' = [i \in Items |-> IF i \in S THEN attempts[i] + 1 ELSE attempts[i]]
    /\ UNCHANGED <<status, copies>>

Store(S) ==
    /\ S # {}
    /\ \A i \in S : copies[i] < attempts[i]
    /\ copies' = [i \in Items |-> IF i \in S THEN copies[i] + 1 ELSE copies[i]]
    /\ UNCHANGED <<status, attempts, batch>>

Deliver ==
    /\ batch # {}
    /\ \A i \in batch : copies[i] > 0
    /\ status' = [i \in Items |-> IF i \in batch THEN "delivered" ELSE status[i]]
    /\ batch' = {}
    /\ UNCHANGED <<attempts, copies>>

Fail ==
    /\ batch # {}
    /\ status' = [i \in Items |->
          IF i \in batch /\ attempts[i] = AttemptLimit THEN "dropped" ELSE status[i]]
    /\ batch' = {}
    /\ UNCHANGED <<attempts, copies>>

Next ==
    \/ \E i \in Items : Accept(i)
    \/ \E S \in SUBSET Items : Attempt(S) \/ Store(S)
    \/ Deliver
    \/ Fail

Spec == Init /\ [][Next]_vars

=============================================================================
