--------------------------- MODULE Syncer_proofs ---------------------------
(***************************************************************************)
(* Proofs about Syncer, for every poll interval and every time that a      *)
(* request may take.                                                       *)
(***************************************************************************)
EXTENDS Syncer, TLAPS

USE TimeAssumption

-----------------------------------------------------------------------------

(* An age grows by one or stays past its limit.                            *)
LEMMA OlderAge ==
    ASSUME NEW limit \in Nat, NEW age \in 0..(limit + 1)
    PROVE  /\ Older(age, limit) \in 0..(limit + 1)
           /\ Older(age, limit) <= age + 1
           /\ age <= limit => Older(age, limit) = age + 1
           /\ Older(age, limit) <= limit => age <= limit
BY DEF Older

(* The limits of the two ages.                                             *)
LEMMA Limits == StaleAfter \in Nat /\ AgeLimit \in Nat /\ AgeLimit >= CallTime
BY DEF StaleAfter, AgeLimit

(* Every step keeps the types.                                             *)
LEMMA TypeStep ==
    TypeOK /\ AnswerOnItsWay /\ [Next]_vars => TypeOK'
<1> SUFFICES ASSUME TypeOK, AnswerOnItsWay, [Next]_vars
             PROVE  TypeOK'
  OBVIOUS
<1> USE Limits DEF TypeOK, AnswerOnItsWay, Calling, Arriving, Polling
<1>1. CASE DevicesAnswered
  BY <1>1 DEF DevicesAnswered, status, timer, world
<1>2. CASE LoadDevices
  BY <1>2 DEF LoadDevices, Ask, status, timer, world
<1>3. CASE LoadUpdates
  <2>1. /\ pollErr' \in BOOLEAN /\ initialLoadDone' \in BOOLEAN /\ failed' \in BOOLEAN
        /\ tick' \in BOOLEAN /\ ctxDone' \in BOOLEAN
        /\ devicesUp' \in BOOLEAN /\ updatesUp' \in BOOLEAN
    BY <1>3, Zenon DEF LoadUpdates, MarkSyncSuccess, status, timer, world
  <2>2. /\ pc' \in Calling \cup Arriving \cup {"loaded", "idle", "stopped", "exited"}
        /\ left' \in 0..CallTime /\ answerAge' \in 0..CallTime
    BY <1>3 DEF LoadUpdates, MarkSyncSuccess
  <2>3. /\ syncAge' \in 0..(StaleAfter + 1) /\ cacheAge' \in 0..(AgeLimit + 1)
        /\ toTick' \in 1..PollInterval
    BY <1>3 DEF LoadUpdates, MarkSyncSuccess, status, timer
  <2> QED
    BY <2>1, <2>2, <2>3
<1>4. CASE StartupFails
  BY <1>4 DEF StartupFails, status, timer, world
<1>5. CASE Start
  BY <1>5 DEF Start, status, timer, world
<1>6. CASE Poll
  <2>1. /\ pollErr' \in BOOLEAN /\ initialLoadDone' \in BOOLEAN /\ failed' \in BOOLEAN
        /\ tick' \in BOOLEAN /\ ctxDone' \in BOOLEAN
        /\ devicesUp' \in BOOLEAN /\ updatesUp' \in BOOLEAN
    BY <1>6, Zenon DEF Poll, Ask, status, timer, world
  <2>2. /\ pc' \in Calling \cup Arriving \cup {"loaded", "idle", "stopped", "exited"}
        /\ left' \in 0..CallTime /\ answerAge' \in 0..CallTime
    BY <1>6 DEF Poll, Ask
  <2>3. /\ syncAge' \in 0..(StaleAfter + 1) /\ cacheAge' \in 0..(AgeLimit + 1)
        /\ toTick' \in 1..PollInterval
    BY <1>6 DEF Poll, Ask, status, timer
  <2> QED
    BY <2>1, <2>2, <2>3
<1>7. CASE PollDevices
  BY <1>7 DEF PollDevices, Ask, status, timer, world
<1>8. CASE PollDevicesFails
  BY <1>8 DEF PollDevicesFails, Ask, status, timer, world
<1>9. CASE PollUpdates
  <2>1. /\ pollErr' \in BOOLEAN /\ initialLoadDone' \in BOOLEAN /\ failed' \in BOOLEAN
        /\ tick' \in BOOLEAN /\ ctxDone' \in BOOLEAN
        /\ devicesUp' \in BOOLEAN /\ updatesUp' \in BOOLEAN
    BY <1>9, Zenon DEF PollUpdates, EndPoll, MarkSyncSuccess, MarkSyncError, status, timer, world
  <2>2. /\ pc' \in Calling \cup Arriving \cup {"loaded", "idle", "stopped", "exited"}
        /\ left' \in 0..CallTime /\ answerAge' \in 0..CallTime
    BY <1>9 DEF PollUpdates, EndPoll, MarkSyncSuccess, MarkSyncError
  <2>3. /\ syncAge' \in 0..(StaleAfter + 1) /\ cacheAge' \in 0..(AgeLimit + 1)
        /\ toTick' \in 1..PollInterval
    BY <1>9 DEF PollUpdates, EndPoll, MarkSyncSuccess, MarkSyncError, status, timer
  <2> QED
    BY <2>1, <2>2, <2>3
<1>10. CASE PollUpdatesFails
  <2>1. /\ pollErr' \in BOOLEAN /\ initialLoadDone' \in BOOLEAN /\ failed' \in BOOLEAN
        /\ tick' \in BOOLEAN /\ ctxDone' \in BOOLEAN
        /\ devicesUp' \in BOOLEAN /\ updatesUp' \in BOOLEAN
    BY <1>10, Zenon DEF PollUpdatesFails, EndPoll, MarkSyncError, status, timer, world
  <2>2. /\ pc' \in Calling \cup Arriving \cup {"loaded", "idle", "stopped", "exited"}
        /\ left' \in 0..CallTime /\ answerAge' \in 0..CallTime
    BY <1>10 DEF PollUpdatesFails, EndPoll, MarkSyncError
  <2>3. /\ syncAge' \in 0..(StaleAfter + 1) /\ cacheAge' \in 0..(AgeLimit + 1)
        /\ toTick' \in 1..PollInterval
    BY <1>10 DEF PollUpdatesFails, EndPoll, MarkSyncError, status, timer
  <2> QED
    BY <2>1, <2>2, <2>3
<1>11. CASE Stop
  BY <1>11 DEF Stop, status, timer, world
<1>12. CASE Pass
  <2>1. syncAge' \in 0..(StaleAfter + 1)
    <3>1. Older(syncAge, StaleAfter) \in 0..(StaleAfter + 1)
      BY OlderAge
    <3> QED
      BY <1>12, <3>1 DEF Pass
  <2>2. cacheAge' \in 0..(AgeLimit + 1)
    BY <1>12, OlderAge DEF Pass
  <2>3. left' \in 0..CallTime /\ answerAge' \in 0..CallTime
    BY <1>12 DEF Pass
  <2>4. toTick' \in 1..PollInterval /\ tick' \in BOOLEAN
    BY <1>12 DEF Pass
  <2>5. UNCHANGED <<pc, pollErr, initialLoadDone, failed, world>>
    BY <1>12 DEF Pass
  <2> QED
    BY <2>1, <2>2, <2>3, <2>4, <2>5 DEF world
<1>13. CASE Cancel
  BY <1>13 DEF Cancel, status, timer, world
<1>14. CASE DevicesSwitch
  BY <1>14 DEF DevicesSwitch, status, timer, world
<1>15. CASE UpdatesSwitch
  BY <1>15 DEF UpdatesSwitch, status, timer, world
<1>16. CASE UNCHANGED vars
  BY <1>16 DEF vars, status, timer, world
<1> QED
  BY <1>1, <1>2, <1>3, <1>4, <1>5, <1>6, <1>7, <1>8, <1>9, <1>10, <1>11, <1>12, <1>13, <1>14,
     <1>15, <1>16 DEF Next, Step

(* Every step keeps the rest of the invariant.                             *)
LEMMA AgesStep ==
    IInv /\ [Next]_vars => (AnswerOnItsWay /\ FirstHalfRecent /\ CacheKeepsUp)'
<1> SUFFICES ASSUME IInv, [Next]_vars
             PROVE  (AnswerOnItsWay /\ FirstHalfRecent /\ CacheKeepsUp)'
  OBVIOUS
<1> USE Limits DEF IInv, TypeOK, AnswerOnItsWay, FirstHalfRecent, CacheKeepsUp, Ready,
                   Calling, Arriving
<1>1. CASE DevicesAnswered
  BY <1>1 DEF DevicesAnswered, status, timer, world
<1>2. CASE LoadDevices
  BY <1>2 DEF LoadDevices, Ask, status, timer, world
<1>3. CASE LoadUpdates
  BY <1>3 DEF LoadUpdates, MarkSyncSuccess, status, timer, world
<1>4. CASE StartupFails
  BY <1>4 DEF StartupFails, status, timer, world
<1>5. CASE Start
  BY <1>5 DEF Start, status, timer, world
<1>6. CASE Poll
  BY <1>6 DEF Poll, Ask, status, timer, world
<1>7. CASE PollDevices
  BY <1>7 DEF PollDevices, Ask, status, timer, world
<1>8. CASE PollDevicesFails
  BY <1>8 DEF PollDevicesFails, Ask, status, timer, world
<1>9. CASE PollUpdates
  BY <1>9 DEF PollUpdates, EndPoll, MarkSyncSuccess, MarkSyncError, status, timer, world
<1>10. CASE PollUpdatesFails
  BY <1>10 DEF PollUpdatesFails, EndPoll, MarkSyncError, status, timer, world
<1>11. CASE Stop
  BY <1>11 DEF Stop, status, timer, world
<1>12. CASE Pass
  <2>1. AnswerOnItsWay'
    BY <1>12 DEF Pass
  <2>2. cacheAge' \in Nat /\ cacheAge' <= cacheAge + 1
    BY <1>12, OlderAge DEF Pass
  <2>3. FirstHalfRecent'
    BY <1>12, <2>2 DEF Pass
  <2>4. ASSUME Ready'
        PROVE  Ready /\ syncAge' = syncAge + 1
    BY <1>12, <2>4, OlderAge DEF Pass
  <2>5. CacheKeepsUp'
    BY <2>2, <2>4
  <2> QED
    BY <2>1, <2>3, <2>5
<1>13. CASE Cancel
  BY <1>13 DEF Cancel, status, timer, world
<1>14. CASE DevicesSwitch
  BY <1>14 DEF DevicesSwitch, status, timer, world
<1>15. CASE UpdatesSwitch
  BY <1>15 DEF UpdatesSwitch, status, timer, world
<1>16. CASE UNCHANGED vars
  BY <1>16 DEF vars, status, timer, world
<1> QED
  BY <1>1, <1>2, <1>3, <1>4, <1>5, <1>6, <1>7, <1>8, <1>9, <1>10, <1>11, <1>12, <1>13, <1>14,
     <1>15, <1>16 DEF Next, Step

(* The inductive invariant holds: types, and how the age of the cache is   *)
(* bounded by that of the last good sync.                                  *)
THEOREM SyncerInvariant == Spec => []IInv
<1>1. Init => IInv
  <2> SUFFICES ASSUME Init
               PROVE  IInv
    OBVIOUS
  <2>1. /\ pollErr \in BOOLEAN /\ initialLoadDone \in BOOLEAN /\ failed \in BOOLEAN
        /\ tick \in BOOLEAN /\ ctxDone \in BOOLEAN
        /\ devicesUp \in BOOLEAN /\ updatesUp \in BOOLEAN
    BY Zenon DEF Init
  <2>2. /\ pc \in Calling /\ left \in 0..CallTime /\ answerAge \in 0..CallTime
        /\ syncAge \in 0..(StaleAfter + 1) /\ cacheAge \in 0..(AgeLimit + 1)
        /\ toTick \in 1..PollInterval
    BY Limits DEF Init, Calling
  <2>3. pc \notin Arriving /\ pc \notin {"loadUpdates", "pollUpdates"} /\ ~initialLoadDone
    BY DEF Init, Arriving
  <2> QED
    BY <2>1, <2>2, <2>3, Zenon DEF IInv, TypeOK, AnswerOnItsWay, FirstHalfRecent,
                                   CacheKeepsUp, Ready
<1>2. IInv /\ [Next]_vars => IInv'
  BY TypeStep, AgesStep DEF IInv
<1> QED
  BY <1>1, <1>2, PTL DEF Spec

(* Every variable of the syncer keeps its type, and each age its bound.    *)
THEOREM SyncerTypes == Spec => []TypeOK
<1>1. IInv => TypeOK
  BY DEF IInv
<1> QED
  BY <1>1, SyncerInvariant, PTL

(* A service that is ready has a recent cache: for every interval and      *)
(* every duration of a request, whatever fails in whatever order.          *)
THEOREM ReadyIsRecent == Spec => []ReadyMeansRecent
<1>1. IInv => ReadyMeansRecent
  BY Limits DEF IInv, TypeOK, CacheKeepsUp, Ready, ReadyMeansRecent
<1> QED
  BY <1>1, SyncerInvariant, PTL

=============================================================================
