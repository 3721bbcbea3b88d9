------------------------ MODULE IngestService_proofs ------------------------
(***************************************************************************)
(* Proofs about IngestService, for any devices, handlers and tags, any     *)
(* number of changes in the API and of restarts.                           *)
(*                                                                         *)
(* TypeOK and RecordsSound are inductive together (TypeStep); the API, the *)
(* cache, the answers on their way and the handlers' locals each have a    *)
(* lemma of their own.  On them rest the invariants of the lookup, of the  *)
(* cursor and of what is published (InvStep).                              *)
(***************************************************************************)
EXTENDS IngestService, WellFoundedInduction, TLAPS

(* A set of natural numbers has a least element.                           *)
LEMMA Minimum ==
    ASSUME NEW T, T \subseteq Nat, T # {}
    PROVE  \E x \in T : \A y \in T : x <= y
<1> DEFINE R == OpToRel(<, Nat)
<1>1. IsWellFoundedOn(R, Nat)
  BY NatLessThanWellFounded
<1> HIDE DEF R
<1>2. PICK x \in T : \A y \in T : ~ (<<y, x>> \in R)
  BY <1>1, WFMin, Zenon
<1>3. \A a, b \in Nat : <<a, b>> \in R <=> a < b
  BY DEF R, OpToRel
<1>4. \A y \in T : ~ (y < x)
  BY <1>2, <1>3
<1> QED
  BY <1>2, <1>4

(* A bounded set of natural numbers has a greatest element.                *)
LEMMA Maximum ==
    ASSUME NEW b \in Nat, NEW T, T \subseteq 0..b, T # {}
    PROVE  \E x \in T : \A y \in T : y <= x
<1> DEFINE Below == {b - y : y \in T}
<1>1. Below # {} /\ Below \subseteq Nat
  <2>1. PICK y \in T : TRUE
    OBVIOUS
  <2> QED
    BY <2>1
<1>2. PICK d \in Below : \A e \in Below : d <= e
  BY <1>1, Minimum
<1>3. PICK x \in T : d = b - x
  BY <1>2
<1>4. \A y \in T : b - x <= b - y
  BY <1>2, <1>3
<1> QED
  BY <1>3, <1>4

(* Dating a record changes its time stamp only, and only if it has none.   *)
LEMMA DatedRecord ==
    ASSUME NEW r \in Records, NEW now \in Nat
    PROVE  /\ Dated(r, now) \in Records
           /\ Dated(r, now).key = r.key
           /\ Dated(r, now).deployment = r.deployment
           /\ Dated(r, now).channels = r.channels
           /\ Dated(r, now).updatedAt \in {r.updatedAt, now}
           /\ r.updatedAt > 0 => Dated(r, now) = r
BY DEF Dated, Records

(* The cursor is the latest of the old one and the time stamps stored.     *)
LEMMA CursorLatest ==
    ASSUME NEW b \in Nat, NEW now \in 0..b, NEW c \in Caches, c.updatedAt <= b,
           NEW records \in SUBSET Records, \A r \in records : r.updatedAt <= b
    PROVE  /\ Cursor(c, records, now) \in c.updatedAt..b
           /\ \A r \in records : Cursor(c, records, now) >= Dated(r, now).updatedAt
           /\ \/ Cursor(c, records, now) = c.updatedAt
              \/ \E r \in records : Cursor(c, records, now) = Dated(r, now).updatedAt
<1> DEFINE T == {c.updatedAt} \cup {Dated(r, now).updatedAt : r \in records}
<1>1. \A r \in records : Dated(r, now).updatedAt \in 0..b
  <2> TAKE r \in records
  <2>1. r.updatedAt \in 0..b
    BY DEF Records
  <2>2. Dated(r, now).updatedAt \in {r.updatedAt, now}
    BY DatedRecord
  <2> QED
    BY <2>1, <2>2
<1>2. c.updatedAt \in 0..b
  BY DEF Caches
<1>3. T \subseteq 0..b /\ T # {}
  BY <1>1, <1>2
<1>4. \E t \in T : \A y \in T : y <= t
  BY <1>3, Maximum
<1>5. \E t \in T : t >= c.updatedAt /\ \A r \in records : t >= Dated(r, now).updatedAt
  BY <1>3, <1>4
<1>6. /\ Cursor(c, records, now) \in T
      /\ Cursor(c, records, now) >= c.updatedAt
      /\ \A r \in records : Cursor(c, records, now) >= Dated(r, now).updatedAt
  BY <1>5, Zenon DEF Cursor
<1> QED
  BY <1>2, <1>3, <1>6

(* What UpsertMany leaves in the cache, for records and a time of the call *)
(* that are at most b.                                                     *)
LEMMA UpsertManyResult ==
    ASSUME NEW b \in Nat, NEW now \in 0..b, NEW c \in Caches, c.updatedAt <= b,
           NEW records \in SUBSET Records, \A r \in records : r.updatedAt <= b,
           NEW d, d = UpsertMany(c, records, now)
    PROVE  /\ d \in Caches
           /\ d.updatedAt \in c.updatedAt..b
           /\ \/ d.updatedAt = c.updatedAt
              \/ \E r \in records : d.updatedAt = Dated(r, now).updatedAt
           /\ \A r \in records : d.updatedAt >= Dated(r, now).updatedAt
           /\ \A k \in Keys :
                \/ d.byKey[k] = c.byKey[k] /\ \A r \in records : r.key # k
                \/ \E r \in records : r.key = k /\ d.byKey[k] = Dated(r, now)
<1> DEFINE Latest == Cursor(c, records, now)
           Of(k) == CHOOSE r \in records : r.key = k
           Map == [k \in Keys |-> IF \E r \in records : r.key = k THEN Dated(Of(k), now)
                                                                ELSE c.byKey[k]]
<1>1. d = [byKey |-> Map, updatedAt |-> Latest]
  BY Zenon DEF UpsertMany
<1>2. /\ Latest \in c.updatedAt..b
      /\ \A r \in records : Latest >= Dated(r, now).updatedAt
      /\ Latest = c.updatedAt \/ \E r \in records : Latest = Dated(r, now).updatedAt
  BY CursorLatest
<1>3. \A k \in Keys : (\E r \in records : r.key = k) => Of(k) \in records /\ Of(k).key = k
  BY Zenon
<1>4. \A r \in records : Dated(r, now) \in Records
  BY DatedRecord
<1>5. c.byKey \in [Keys -> Records \cup {NoRecord}] /\ c.updatedAt \in Nat
  BY DEF Caches
<1> HIDE DEF Latest, Of
<1>6. Map \in [Keys -> Records \cup {NoRecord}]
  BY <1>3, <1>4, <1>5
<1>7. \A k \in Keys :
        \/ Map[k] = c.byKey[k] /\ \A r \in records : r.key # k
        \/ \E r \in records : r.key = k /\ Map[k] = Dated(r, now)
  BY <1>3
<1> HIDE DEF Map
<1>8. d.byKey = Map /\ d.updatedAt = Latest
  BY <1>1
<1>9. d \in Caches
  BY <1>1, <1>2, <1>5, <1>6 DEF Caches
<1> QED
  BY <1>2, <1>7, <1>8, <1>9

(* UpsertChannelMapping changes one mapping of one record.                 *)
LEMMA NewMapping ==
    ASSUME NEW c \in Caches, NEW k \in Keys, Has(c, k), NEW tag \in Tags, NEW owner \in Deployments,
           NEW d, d = UpsertChannelMapping(c, k, tag, owner)
    PROVE  /\ d \in Caches
           /\ d.updatedAt = c.updatedAt
           /\ d.byKey[k] = [c.byKey[k] EXCEPT !.channels[tag] = owner]
           /\ \A j \in Keys \ {k} : d.byKey[j] = c.byKey[j]
<1> DEFINE r == [c.byKey[k] EXCEPT !.channels[tag] = owner]
<1>1. c.byKey \in [Keys -> Records \cup {NoRecord}] /\ c.updatedAt \in Nat
  BY DEF Caches
<1>2. c.byKey[k] \in Records
  BY <1>1 DEF Has
<1>3. r \in Records
  BY <1>2 DEF Records
<1>4. d = [byKey |-> [c.byKey EXCEPT ![k] = r], updatedAt |-> c.updatedAt]
  BY DEF UpsertChannelMapping, Caches
<1> QED
  BY <1>1, <1>3, <1>4 DEF Caches

(* A record with one more mapping.                                         *)
LEMMA ExtendedRecord ==
    ASSUME NEW r \in Records, NEW tag \in Tags, NEW owner \in Deployments
    PROVE  LET q == [r EXCEPT !.channels[tag] = owner] IN
           /\ q \in Records
           /\ q.key = r.key /\ q.deployment = r.deployment /\ q.updatedAt = r.updatedAt
           /\ q.channels[tag] = owner
           /\ \A t \in Tags \ {tag} : q.channels[t] = r.channels[t]
BY DEF Records

(* Decoding a record changes its time stamp only.                          *)
LEMMA DecodedRecord ==
    ASSUME NEW r \in Records
    PROVE  /\ Decoded(r) \in Records
           /\ Decoded(r).key = r.key
           /\ Decoded(r).deployment = r.deployment
           /\ Decoded(r).channels = r.channels
           /\ Decoded(r).updatedAt \in {r.updatedAt, r.deployment.since, 0}
           /\ Stamp[r.key] # "none" => Decoded(r).updatedAt \in {r.updatedAt, r.deployment.since}
<1>1. \E n \in Nat : /\ n \in {r.updatedAt, r.deployment.since, 0}
                     /\ Stamp[r.key] # "none" => n \in {r.updatedAt, r.deployment.since}
                     /\ Decoded(r) = [r EXCEPT !.updatedAt = n]
  <2>1. r.updatedAt \in Nat /\ r.deployment.since \in Nat
    BY DEF Records, Deployments
  <2>2. [r EXCEPT !.updatedAt = r.updatedAt] = r
    BY DEF Records
  <2>3. Stamp[r.key] \in {"sync_updated_at", "properties_updated_at", "none"}
    BY IngestAssumption DEF Records
  <2> QED
    BY <2>1, <2>2, <2>3 DEF Decoded
<1>2. PICK n \in Nat : /\ n \in {r.updatedAt, r.deployment.since, 0}
                       /\ Stamp[r.key] # "none" => n \in {r.updatedAt, r.deployment.since}
                       /\ Decoded(r) = [r EXCEPT !.updatedAt = n]
  BY <1>1
<1> QED
  BY <1>2 DEF Records

(* However the API lists the devices, the same ones are read.              *)
LEMMA AnswerIsList ==
    ASSUME NEW S, NEW A \in Answers(S)
    PROVE  A = {Decoded(r) : r \in S}
<1> DEFINE D == {Decoded(r) : r \in S}
<1>1. PICK body \in {[items |-> D, devices |-> {}], [items |-> {}, devices |-> D]} : A = DevicesIn(body)
  BY Zenon DEF Answers, Bodies
<1> QED
  BY <1>1 DEF DevicesIn

(* The invariants hold at the start.                                       *)
LEMMA Initially == Init => IInv
<1> SUFFICES ASSUME Init PROVE IInv
  OBVIOUS
<1>1. \A k \in Keys : /\ FirstRecord(k, 1) \in Records
                      /\ FirstRecord(k, 1).key = k /\ FirstRecord(k, 1).updatedAt = 1
                      /\ FirstRecord(k, 1).deployment.key = k /\ FirstRecord(k, 1).deployment.since = 1
                      /\ \A t \in Tags : FirstRecord(k, 1).channels[t] = NoChannel
  BY DEF FirstRecord, Records, Deployments
<1>2. NoOne \in [key : Keys, tags : SUBSET Tags]
  BY IngestAssumption DEF NoOne
<1>3. EmptyCache \in Caches /\ EmptyCache.updatedAt = 0 /\ \A k \in Keys : ~Has(EmptyCache, k)
  BY DEF EmptyCache, Caches, Has
<1>4. TypeOK
  BY <1>1, <1>2, <1>3, IngestAssumption DEF Init, TypeOK, Clients
<1>5. RecordsSound
  BY <1>1, <1>3, NullsAssumption, IngestAssumption DEF Init, RecordsSound, Sound, Resolves
<1>6. FoundInFullList
  BY DEF Init, FoundInFullList, Listed
<1>7. Registered # {} => \E k \in Keys : upstream[k] # NoRecord
  BY <1>1, NullsAssumption, IngestAssumption DEF Init
<1>8. CacheFilled /\ NothingSkipped /\ AnswersComplete /\ Served
  BY <1>3, IngestAssumption DEF Init, CacheFilled, NothingSkipped, AnswersComplete, Served, Listed, Clients, Active
<1> QED
  BY <1>4, <1>5, <1>6, <1>7, <1>8 DEF IInv

-----------------------------------------------------------------------------

(* The state of the API.                                                   *)
ApiSound ==
    \A k \in Keys : upstream[k] # NoRecord =>
        /\ Sound(upstream[k]) /\ upstream[k].key = k
        /\ upstream[k].updatedAt \in 1..clock
        /\ upstream[k].deployment.since \in 1..upstream[k].updatedAt

(* How the API changes: it forgets nothing, and what is new comes later.   *)
ApiGrows ==
    /\ clock' \in clock..(MaxChanges + 1)
    /\ upstream' \in [Keys -> Records \cup {NoRecord}]
    /\ issued' \subseteq Deployments \X Tags
    /\ issued \subseteq issued'
    /\ \A k \in Keys : upstream[k] # NoRecord =>
            upstream'[k] # NoRecord /\ upstream'[k].updatedAt >= upstream[k].updatedAt
    /\ \A k \in Keys : upstream[k] = NoRecord /\ upstream'[k] # NoRecord =>
            upstream'[k].updatedAt > clock

(* The record of a new deployment.                                         *)
LEMMA FirstRecordSound ==
    ASSUME NEW k \in Keys, NEW now \in Nat
    PROVE  /\ FirstRecord(k, now) \in Records
           /\ FirstRecord(k, now) # NoRecord
           /\ FirstRecord(k, now).key = k /\ FirstRecord(k, now).updatedAt = now
           /\ FirstRecord(k, now).deployment.key = k /\ FirstRecord(k, now).deployment.since = now
           /\ \A t \in Tags : FirstRecord(k, now).channels[t] = NoChannel
BY NullsAssumption DEF FirstRecord, Records, Deployments

(* A registration or redeployment.                                         *)
LEMMA NewRecordGrows ==
    ASSUME TypeOK, RecordsSound, NEW k \in Keys, clock < MaxChanges, clock' = clock + 1,
           upstream' = [upstream EXCEPT ![k] = FirstRecord(k, clock + 1)], issued' = issued
    PROVE  ApiGrows /\ ApiSound'
<1>1. clock \in Nat /\ clock + 1 \in Nat /\ clock + 1 <= MaxChanges /\ MaxChanges \in Nat
  BY IngestAssumption DEF TypeOK
<1> DEFINE new == FirstRecord(k, clock + 1)
<1>2. /\ new \in Records /\ new # NoRecord /\ new.key = k /\ new.updatedAt = clock + 1
      /\ new.deployment.key = k /\ new.deployment.since = clock + 1
      /\ \A t \in Tags : new.channels[t] = NoChannel
  BY <1>1, FirstRecordSound
<1> HIDE DEF new
<1>3. upstream' = [upstream EXCEPT ![k] = new]
  BY DEF new
<1>4. upstream \in [Keys -> Records \cup {NoRecord}] /\ issued \subseteq Deployments \X Tags
  BY DEF TypeOK
<1>5. ApiSound
  BY DEF RecordsSound, ApiSound
<1>6. ApiGrows
  BY <1>1, <1>2, <1>3, <1>4, <1>5 DEF ApiGrows, ApiSound
<1>7. ApiSound'
  BY <1>1, <1>2, <1>3, <1>4, <1>5 DEF ApiSound, Sound, Resolves
<1> QED
  BY <1>6, <1>7

(* The creation of a channel.                                              *)
LEMMA NewChannelGrows ==
    ASSUME TypeOK, RecordsSound, NEW d \in Deployments, NEW t \in Tags,
           upstream[d.key] # NoRecord, ApiCreates(d, t)
    PROVE  ApiGrows /\ ApiSound' /\ <<d, t>> \in issued'
<1>1. clock \in Nat /\ clock <= MaxChanges + 1 /\ MaxChanges \in Nat
  BY IngestAssumption DEF TypeOK
<1>2. upstream \in [Keys -> Records \cup {NoRecord}] /\ issued \subseteq Deployments \X Tags
  BY DEF TypeOK
<1>3. ApiSound
  BY DEF RecordsSound, ApiSound
<1>4. issued' = issued \cup {<<d, t>>} /\ d.key \in Keys
  BY DEF ApiCreates, Deployments
<1>5. CASE UNCHANGED <<clock, upstream>>
  <2>1. ApiGrows
    BY <1>1, <1>2, <1>3, <1>4, <1>5 DEF ApiGrows, ApiSound, Records
  <2>2. ApiSound'
    BY <1>2, <1>3, <1>4, <1>5 DEF ApiSound, Sound
  <2> QED
    BY <2>1, <2>2, <1>4
<1>6. CASE \E at \in {upstream[d.key].updatedAt, clock + 1} :
              /\ at = clock + 1 => clock < MaxChanges
              /\ clock' = Later(clock, at)
              /\ upstream' = [upstream EXCEPT ![d.key] = [@ EXCEPT !.channels[t] = d, !.updatedAt = at]]
  <2>1. PICK at \in {upstream[d.key].updatedAt, clock + 1} :
              /\ at = clock + 1 => clock < MaxChanges
              /\ clock' = Later(clock, at)
              /\ upstream' = [upstream EXCEPT ![d.key] = [@ EXCEPT !.channels[t] = d, !.updatedAt = at]]
    BY <1>6
  <2> DEFINE old == upstream[d.key]
             new == [old EXCEPT !.channels[t] = d, !.updatedAt = at]
  <2>2. old \in Records /\ old.updatedAt \in 1..clock /\ at \in Nat
    BY <1>1, <1>2, <1>3, <1>4 DEF ApiSound
  <2>3. /\ new \in Records
        /\ new.key = old.key /\ new.deployment = old.deployment /\ new.updatedAt = at
        /\ new.channels[t] = d
        /\ \A s \in Tags \ {t} : new.channels[s] = old.channels[s]
    BY <2>2 DEF Records
  <2> HIDE DEF new
  <2>4. upstream' = [upstream EXCEPT ![d.key] = new]
    BY <2>1, <1>2, <1>4 DEF new
  <2>5. new # NoRecord
    BY <2>3, NullsAssumption
  <2>6. clock' \in clock..(MaxChanges + 1) /\ at \in old.updatedAt..clock'
    BY <1>1, <2>1, <2>2 DEF Later
  <2>7. ApiGrows
    BY <1>1, <1>2, <1>3, <1>4, <2>2, <2>3, <2>4, <2>5, <2>6 DEF ApiGrows, ApiSound
  <2>8. ApiSound'
    BY <1>1, <1>2, <1>3, <1>4, <2>2, <2>3, <2>4, <2>5, <2>6 DEF ApiSound, Sound, Resolves
  <2> QED
    BY <2>7, <2>8, <1>4
<1>7. upstream[d.key] \in Records /\ upstream[d.key].updatedAt \in 1..clock
  BY <1>2, <1>3, <1>4 DEF ApiSound
<1>8. CASE upstream' = [upstream EXCEPT ![d.key].channels[t] = d] /\ clock' = clock
  <2>1. upstream' = [upstream EXCEPT ![d.key] = [@ EXCEPT !.channels[t] = d, !.updatedAt = upstream[d.key].updatedAt]]
    BY <1>8, <1>7, <1>2, <1>4 DEF Records
  <2>2. clock' = Later(clock, upstream[d.key].updatedAt) /\ upstream[d.key].updatedAt # clock + 1
    BY <1>1, <1>7, <1>8 DEF Later
  <2> QED
    BY <1>6, <2>1, <2>2
<1>9. CASE /\ clock < MaxChanges /\ clock' = clock + 1
           /\ upstream' = [upstream EXCEPT ![d.key].channels[t] = d, ![d.key].updatedAt = clock + 1]
  <2>1. upstream' = [upstream EXCEPT ![d.key] = [@ EXCEPT !.channels[t] = d, !.updatedAt = clock + 1]]
    BY <1>9, <1>7, <1>2, <1>4 DEF Records
  <2>2. clock' = Later(clock, clock + 1)
    BY <1>1, <1>9 DEF Later
  <2> QED
    BY <1>6, <1>9, <2>1, <2>2
<1> QED
  BY <1>5, <1>8, <1>9 DEF ApiCreates

(* No step makes the API forget anything.                                  *)
LEMMA ApiStep ==
    ASSUME TypeOK, RecordsSound, [Next]_vars
    PROVE  ApiGrows /\ ApiSound'
<1>1. UNCHANGED api => ApiGrows /\ ApiSound'
  <2> SUFFICES ASSUME UNCHANGED api PROVE ApiGrows /\ ApiSound'
    OBVIOUS
  <2>1. clock' = clock /\ upstream' = upstream /\ issued' = issued
    BY DEF api
  <2>2. ApiSound
    BY DEF RecordsSound, ApiSound
  <2>3. \A k \in Keys : upstream[k] # NoRecord => upstream[k].updatedAt \in Int
    BY <2>2 DEF ApiSound
  <2>4. ApiGrows
    BY <2>1, <2>3, IngestAssumption DEF ApiGrows, TypeOK
  <2>5. ApiSound'
    BY <2>1, <2>2 DEF ApiSound, Sound
  <2> QED
    BY <2>4, <2>5
<1>2. CASE \E k \in Keys : Register(k) \/ Redeploy(k)
  BY <1>2, NewRecordGrows DEF Register, Redeploy
<1>3. ASSUME NEW h \in Handlers, NEW t \in Tags, CreateChannel(h, t) \/ CreateFails(h, t), ~UNCHANGED api
      PROVE  ApiGrows /\ ApiSound'
  <2>1. pc[h] = "ensure" /\ ApiCreates(record[h].deployment, t)
    BY <1>3 DEF CreateChannel, CreateFails
  <2>2. record[h] \in Records /\ Sound(record[h])
    BY <2>1 DEF TypeOK, RecordsSound
  <2>3. record[h].deployment \in Deployments /\ upstream[record[h].deployment.key] # NoRecord
    BY <2>2 DEF Records, Sound
  <2> QED
    BY <2>1, <2>3, NewChannelGrows
<1>4. CASE FetchInitial \/ Poll \/ PollApply \/ Restart \/ UNCHANGED vars
  BY <1>1, <1>4 DEF FetchInitial, Poll, PollApply, Restart, vars
<1>5. ASSUME NEW h \in Handlers,
             Receive(h) \/ Reject(h) \/ Resend(h) \/ Lookup(h) \/ Fetch(h) \/ FetchFails(h) \/ Apply(h)
      PROVE  UNCHANGED api
  BY <1>5 DEF Receive, Reject, Resend, Lookup, Fetch, FetchFails, Apply
<1>6. ASSUME NEW h \in Handlers,
             Fallback(h) \/ MapChannel(h) \/ Build(h) \/ \E t \in Tags : SkipChannel(h, t)
      PROVE  UNCHANGED api
  BY <1>6 DEF Fallback, MapChannel, Build, SkipChannel
<1> QED
  BY <1>1, <1>2, <1>3, <1>4, <1>5, <1>6 DEF Next, HandlerStep

-----------------------------------------------------------------------------

(* The cache holds sound records under their keys.                         *)
CacheSound ==
    /\ \A k \in Keys : Has(cache, k) => Sound(cache.byKey[k]) /\ cache.byKey[k].key = k
    /\ cache.updatedAt <= clock + 1

(* The cache loses nothing.                                                *)
CacheKept ==
    /\ cache'.updatedAt >= cache.updatedAt
    /\ \A k \in Keys : Has(cache, k) => Has(cache', k)

(* Storing an answer keeps the cache sound and what it holds.              *)
LEMMA StoreKeeps ==
    ASSUME TypeOK, RecordsSound, NEW c \in Clients, Store(c), UNCHANGED api
    PROVE  cache' \in Caches /\ CacheSound' /\ CacheKept
<1>1. PICK now \in Now : cache' = UpsertMany(cache, fetched[c], now)
  BY DEF Store
<1>2. clock \in Nat /\ now \in 0..(clock + 1)
  BY IngestAssumption DEF TypeOK, Now
<1>3. /\ cache \in Caches /\ cache.updatedAt <= clock + 1
      /\ fetched[c] \in SUBSET Records
      /\ \A r \in fetched[c] : Sound(r) /\ r.updatedAt <= clock + 1
  BY DEF TypeOK, RecordsSound, Sound
<1>4. /\ cache' \in Caches
      /\ cache'.updatedAt \in cache.updatedAt..(clock + 1)
      /\ \A k \in Keys :
            \/ cache'.byKey[k] = cache.byKey[k]
            \/ \E r \in fetched[c] : r.key = k /\ cache'.byKey[k] = Dated(r, now)
  BY <1>1, <1>2, <1>3, UpsertManyResult
<1>5. \A r \in fetched[c] : /\ Sound(Dated(r, now)) /\ Dated(r, now).key = r.key
                            /\ Dated(r, now) # NoRecord
  <2> TAKE r \in fetched[c]
  <2>1. /\ Dated(r, now) \in Records /\ Dated(r, now).key = r.key
        /\ Dated(r, now).deployment = r.deployment /\ Dated(r, now).channels = r.channels
        /\ Dated(r, now).updatedAt \in {r.updatedAt, now}
    BY <1>2, <1>3, DatedRecord
  <2> QED
    BY <1>2, <1>3, <2>1, NullsAssumption DEF Sound, Resolves
<1>6. CacheSound
  BY DEF RecordsSound, CacheSound
<1>7. CacheKept
  <2>1. cache.updatedAt \in Nat
    BY <1>3 DEF Caches
  <2> QED
    BY <1>4, <1>5, <2>1 DEF CacheKept, Has
<1>8. clock' = clock /\ upstream' = upstream /\ issued' = issued
  BY DEF api
<1>9. CacheSound'
  <2>1. \A k \in Keys : cache'.byKey[k] # NoRecord => Sound(cache'.byKey[k]) /\ cache'.byKey[k].key = k
    BY <1>4, <1>5, <1>6 DEF CacheSound, Has
  <2>2. cache'.updatedAt <= clock' + 1
    BY <1>2, <1>4, <1>8
  <2> QED
    BY <1>8, <2>1, <2>2 DEF CacheSound, Sound, Has
<1> QED
  BY <1>4, <1>7, <1>9

(* Storing a mapping keeps the cache sound and what it holds.              *)
LEMMA MapKeeps ==
    ASSUME TypeOK, RecordsSound, NEW h \in Handlers, MapChannel(h)
    PROVE  cache' \in Caches /\ CacheSound' /\ CacheKept
<1> DEFINE k == record[h].key
           m == creating[h]
<1>1. /\ m \in [tag : Tags, owner : Deployments] /\ <<m.owner, m.tag>> \in issued
      /\ record[h] \in Records /\ Has(cache, k)
  BY DEF MapChannel, TypeOK, RecordsSound
<1>2. k \in Keys /\ m.tag \in Tags /\ m.owner \in Deployments /\ cache \in Caches
  BY <1>1 DEF Records, TypeOK
<1>3. cache' = UpsertChannelMapping(cache, k, m.tag, m.owner) /\ UNCHANGED api
  BY DEF MapChannel
<1>4. cache.byKey[k] \in Records
  BY <1>1, <1>2 DEF Caches, Has
<1> HIDE DEF k, m
<1> DEFINE new == [cache.byKey[k] EXCEPT !.channels[m.tag] = m.owner]
<1>5. /\ cache' \in Caches /\ cache'.updatedAt = cache.updatedAt
      /\ cache'.byKey[k] = new
      /\ \A j \in Keys \ {k} : cache'.byKey[j] = cache.byKey[j]
  BY <1>1, <1>2, <1>3, NewMapping
<1>6. /\ new \in Records /\ new.key = cache.byKey[k].key /\ new.deployment = cache.byKey[k].deployment
      /\ new.updatedAt = cache.byKey[k].updatedAt /\ new.channels[m.tag] = m.owner
      /\ \A t \in Tags \ {m.tag} : new.channels[t] = cache.byKey[k].channels[t]
  BY <1>2, <1>4, ExtendedRecord
<1>7. new # NoRecord
  BY <1>6, NullsAssumption
<1>8. CacheSound
  BY DEF RecordsSound, CacheSound
<1>9. Sound(new) /\ new.key = k
  BY <1>1, <1>2, <1>6, <1>8 DEF CacheSound, Sound, Resolves
<1> HIDE DEF new
<1>10. clock' = clock /\ upstream' = upstream /\ issued' = issued
  BY <1>3 DEF api
<1>11. CacheSound'
  <2>1. \A j \in Keys : cache'.byKey[j] # NoRecord => Sound(cache'.byKey[j]) /\ cache'.byKey[j].key = j
    BY <1>5, <1>8, <1>9 DEF CacheSound, Has
  <2>2. cache'.updatedAt <= clock' + 1
    BY <1>5, <1>8, <1>10 DEF CacheSound
  <2> QED
    BY <1>10, <2>1, <2>2 DEF CacheSound, Sound, Has
<1>12. CacheKept
  BY <1>2, <1>5, <1>7 DEF CacheKept, Has, Caches
<1> QED
  BY <1>5, <1>11, <1>12

(* Every step keeps the cache sound and, but for a restart, what it holds. *)
LEMMA CacheStep ==
    ASSUME TypeOK, RecordsSound, [Next]_vars
    PROVE  cache' \in Caches /\ CacheSound' /\ (restarts' = restarts => CacheKept)
<1>1. ApiGrows
  BY ApiStep
<1>2. CacheSound /\ cache \in Caches /\ clock \in Nat
  BY DEF RecordsSound, CacheSound, TypeOK
<1>3. UNCHANGED cache => cache' \in Caches /\ CacheSound' /\ CacheKept
  <2> SUFFICES ASSUME UNCHANGED cache PROVE cache' \in Caches /\ CacheSound' /\ CacheKept
    OBVIOUS
  <2>1. \A k \in Keys : Has(cache, k) => (Sound(cache.byKey[k]))' /\ cache.byKey[k].key = k
    <3> SUFFICES ASSUME NEW k \in Keys, Has(cache, k)
                 PROVE  (Sound(cache.byKey[k]))' /\ cache.byKey[k].key = k
      OBVIOUS
    <3> DEFINE r == cache.byKey[k]
    <3>1. Sound(r) /\ r.key = k /\ r' = r
      BY <1>2 DEF CacheSound
    <3>2. r.updatedAt \in Nat
      BY <1>2 DEF Caches, Records, Has
    <3> HIDE DEF r
    <3>3. Sound(r)'
      BY <1>1, <1>2, <3>1, <3>2 DEF ApiGrows, Sound
    <3> QED
      BY <3>1, <3>3 DEF r
  <2>2. cache.updatedAt \in Nat /\ cache.updatedAt <= clock + 1 /\ clock' \in Nat /\ clock' >= clock
    BY <1>1, <1>2, IngestAssumption DEF ApiGrows, CacheSound, Caches
  <2> QED
    BY <1>2, <2>1, <2>2 DEF CacheSound, CacheKept, Has
<1>4. ASSUME NEW k \in Keys, Register(k) \/ Redeploy(k)
      PROVE  UNCHANGED cache
  BY <1>4 DEF Register, Redeploy
<1>5. CASE FetchInitial \/ Poll \/ UNCHANGED vars
  BY <1>3, <1>5 DEF FetchInitial, Poll, vars
<1>6. CASE PollApply
  BY <1>6, StoreKeeps DEF PollApply, Clients
<1>7. CASE Restart
  <2>1. cache' = EmptyCache /\ restarts' # restarts /\ UNCHANGED api
    BY <1>7, IngestAssumption DEF Restart, TypeOK
  <2> QED
    BY <2>1, <1>2 DEF api, EmptyCache, Caches, CacheSound, Has
<1>8. ASSUME NEW h \in Handlers,
             Receive(h) \/ Reject(h) \/ Resend(h) \/ Lookup(h) \/ Fetch(h) \/ FetchFails(h)
      PROVE  UNCHANGED cache
  BY <1>8 DEF Receive, Reject, Resend, Lookup, Fetch, FetchFails
<1>9. ASSUME NEW h \in Handlers,
             \/ Fallback(h) \/ Build(h)
             \/ \E t \in Tags : SkipChannel(h, t) \/ CreateChannel(h, t) \/ CreateFails(h, t)
      PROVE  UNCHANGED cache
  BY <1>9 DEF Fallback, Build, SkipChannel, CreateChannel, CreateFails
<1>10. ASSUME NEW h \in Handlers, Apply(h) \/ MapChannel(h)
       PROVE  cache' \in Caches /\ CacheSound' /\ CacheKept
  BY <1>10, StoreKeeps, MapKeeps DEF Apply, Clients
<1> QED
  BY <1>3, <1>4, <1>5, <1>6, <1>7, <1>8, <1>9, <1>10 DEF Next, HandlerStep

-----------------------------------------------------------------------------

(* An answer holds sound records, one for each device listed, which have a *)
(* time stamp if the API sends one.                                        *)
LEMMA AnswerSound ==
    ASSUME TypeOK, RecordsSound, NEW S \in SUBSET Known, NEW A \in Answers(S)
    PROVE  /\ A \subseteq Records
           /\ \A r \in A : Sound(r) /\ r.updatedAt <= clock
           /\ \A r \in A : r.key \in Keys /\ upstream[r.key] \in S
           /\ \A k \in Keys : upstream[k] \in S => \E r \in A : r.key = k
           /\ \A r \in A : Stamp[r.key] # "none" => r.updatedAt > 0
<1>1. A = {Decoded(r) : r \in S}
  BY AnswerIsList
<1>2. ApiSound /\ upstream \in [Keys -> Records \cup {NoRecord}] /\ clock \in Nat
  BY DEF RecordsSound, ApiSound, TypeOK
<1>3. \A q \in S : /\ q \in Records /\ q.key \in Keys /\ upstream[q.key] = q /\ Sound(q)
                   /\ q.updatedAt \in 1..clock /\ q.deployment.since \in 1..q.updatedAt
  <2> TAKE q \in S
  <2>1. PICK k \in Keys : q = upstream[k] /\ upstream[k] # NoRecord
    BY DEF Known
  <2> QED
    BY <1>2, <2>1 DEF ApiSound
<1>4. \A q \in S : /\ Decoded(q) \in Records /\ Sound(Decoded(q)) /\ Decoded(q).updatedAt <= clock
                   /\ Decoded(q).key = q.key
                   /\ Stamp[q.key] # "none" => Decoded(q).updatedAt > 0
  <2> TAKE q \in S
  <2>1. /\ Decoded(q) \in Records /\ Decoded(q).key = q.key
        /\ Decoded(q).deployment = q.deployment /\ Decoded(q).channels = q.channels
        /\ Decoded(q).updatedAt \in {q.updatedAt, q.deployment.since, 0}
        /\ Stamp[q.key] # "none" => Decoded(q).updatedAt \in {q.updatedAt, q.deployment.since}
    BY <1>3, DecodedRecord
  <2>2. /\ Sound(q) /\ q.updatedAt \in 1..clock /\ q.deployment.since \in 1..q.updatedAt
    BY <1>3
  <2>3. Decoded(q).updatedAt <= clock /\ (Stamp[q.key] # "none" => Decoded(q).updatedAt > 0)
    BY <1>2, <2>1, <2>2
  <2> QED
    BY <1>2, <2>1, <2>2, <2>3 DEF Sound, Resolves
<1>5. \A k \in Keys : upstream[k] \in S => upstream[k].key = k
  <2> TAKE k \in Keys
  <2> HAVE upstream[k] \in S
  <2>1. upstream[k] # NoRecord
    BY <1>3, NullsAssumption
  <2> QED
    BY <1>2, <2>1 DEF ApiSound
<1> QED
  BY <1>1, <1>3, <1>4, <1>5

(* The types of the locals and the history.                                *)
LocalsTyped ==
    /\ pc \in [Clients -> {"load", "loaded", "idle", "lookup", "fetch", "apply",
                            "fallback", "ensure", "map", "done", "rejected", "cut"}]
    /\ fetched \in [Clients -> SUBSET Records]
    /\ request \in [Handlers -> [key : Keys, tags : SUBSET Tags]]
    /\ stage \in [Handlers -> {"cached", "updated", "full"}]
    /\ record \in [Handlers -> Records \cup {NoRecord}]
    /\ todo \in [Handlers -> SUBSET Tags]
    /\ creating \in [Handlers -> [tag : Tags, owner : Deployments] \cup {NoChannel}]
    /\ known \in [Handlers -> BOOLEAN]
    /\ reply \in [Handlers -> {0, 200, 400, 404, 503}]
    /\ restarts \in 0..MaxRestarts
    /\ samples \subseteq [by : Handlers, known : BOOLEAN, deployment : Deployments,
                           channels : SUBSET (Deployments \X Tags)]

(* A local is set only where it is used.                                   *)
LocalsFit ==
    /\ pc[Poller] \in {"load", "loaded", "idle", "apply"}
    /\ \A h \in Handlers :
        /\ (pc[h] \in {"done", "rejected"}) <=> (reply[h] # 0)
        /\ (creating[h] # NoChannel) <=> (pc[h] = "map")
        /\ (pc[h] \in {"ensure", "map"}) <=> (record[h] # NoRecord)
        /\ fetched[h] # {} => pc[h] = "apply"
        /\ pc[h] \in {"idle", "done", "rejected", "cut"} => stage[h] = "cached"
        /\ pc[h] \in {"fetch", "apply", "fallback"} => stage[h] # "cached"

(* The type of what is published.                                          *)
SamplesTyped ==
    samples \subseteq [by : Handlers, known : BOOLEAN, deployment : Deployments,
                       channels : SUBSET (Deployments \X Tags)]

(* What the end of a request leaves alone.                                 *)
OthersKept == UNCHANGED <<fetched, request, creating, known, restarts>>

(* Handler h, and no other, has answered.                                  *)
Replied(h) ==
    /\ reply' \in [Handlers -> {0, 200, 400, 404, 503}] /\ reply'[h] # 0
    /\ \A g \in Handlers \ {h} : reply'[g] = reply[g]

(* The locals after the end of a request,                                  *)
LEMMA EndFits ==
    ASSUME TypeOK, NEW h \in Handlers, pc[h] \notin {"map", "apply"}, Replied(h),
           End(h, "done") \/ End(h, "rejected"), SamplesTyped', OthersKept
    PROVE  LocalsTyped' /\ LocalsFit'
<1>1. Poller \notin Handlers
  BY IngestAssumption
<1>2. PICK point \in {"done", "rejected"} : End(h, point)
  OBVIOUS
<1>3. /\ pc' = [pc EXCEPT ![h] = point] /\ record' = [record EXCEPT ![h] = NoRecord]
      /\ stage' = [stage EXCEPT ![h] = "cached"] /\ todo' = [todo EXCEPT ![h] = {}]
  BY <1>2 DEF End, GoTo
<1>4. LocalsTyped'
  BY <1>3 DEF TypeOK, LocalsTyped, SamplesTyped, OthersKept, Replied, Clients
<1>5. LocalsFit'
  BY <1>1, <1>3 DEF TypeOK, LocalsFit, OthersKept, Replied, Clients
<1> QED
  BY <1>4, <1>5

(* after an answer,                                                        *)
LEMMA AnswerFits ==
    ASSUME TypeOK, NEW h \in Handlers, NEW status \in {200, 400, 404, 503},
           pc[h] \in {"fetch", "fallback", "ensure"}, Answer(h, status), SamplesTyped', OthersKept
    PROVE  LocalsTyped' /\ LocalsFit'
<1>1. reply' = [reply EXCEPT ![h] = status] /\ End(h, "done")
  BY Zenon DEF Answer
<1>2. Replied(h)
  BY <1>1 DEF TypeOK, Replied
<1>3. pc[h] \notin {"map", "apply"}
  OBVIOUS
<1> QED
  BY <1>1, <1>2, <1>3, EndFits

(* after a record was found,                                               *)
LEMMA FoundFits ==
    ASSUME TypeOK, NEW h \in Handlers, NEW r \in Records, pc[h] \in {"lookup", "fallback"}, Found(h, r),
           UNCHANGED <<fetched, request, creating, known, samples, restarts>>
    PROVE  LocalsTyped' /\ LocalsFit'
<1> USE DEF TypeOK, Clients
<1>1. Poller \notin Handlers /\ r # NoRecord
  BY IngestAssumption, NullsAssumption
<1>2. /\ pc' = [pc EXCEPT ![h] = "ensure"] /\ record' = [record EXCEPT ![h] = r]
      /\ stage' = stage /\ reply' = reply /\ todo' = [todo EXCEPT ![h] = request[h].tags]
  BY DEF Found, GoTo
<1>3. LocalsTyped'
  BY <1>2 DEF LocalsTyped
<1>4. LocalsFit'
  BY <1>1, <1>2 DEF LocalsFit
<1> QED
  BY <1>3, <1>4

(* before a refresh,                                                       *)
LEMMA RefreshFits ==
    ASSUME TypeOK, NEW h \in Handlers, NEW how \in {"updated", "full"}, pc[h] \in {"lookup", "fallback"},
           Refresh(h, how), UNCHANGED <<fetched, request, creating, known, samples, restarts>>
    PROVE  LocalsTyped' /\ LocalsFit'
<1>1. /\ pc' = [pc EXCEPT ![h] = "fetch"] /\ stage' = [stage EXCEPT ![h] = how]
      /\ UNCHANGED <<record, todo, reply>>
  BY DEF Refresh, GoTo
<1>2. LocalsTyped'
  BY <1>1 DEF TypeOK, LocalsTyped, Clients
<1>3. LocalsFit'
  BY <1>1, IngestAssumption DEF TypeOK, LocalsFit, Clients
<1> QED
  BY <1>2, <1>3

(* after the API answered,                                                 *)
LEMMA FetchFits ==
    ASSUME TypeOK, RecordsSound, NEW c \in Clients, NEW S \in SUBSET Known, NEW A \in Answers(S),
           fetched' = [fetched EXCEPT ![c] = A],
           NEW point \in {"loaded", "apply"}, GoTo(c, point), c \in Handlers => point = "apply" /\ pc[c] = "fetch",
           UNCHANGED <<handlers, samples, restarts>>
    PROVE  LocalsTyped' /\ LocalsFit'
<1>1. A \in SUBSET Records
  BY AnswerSound
<1>2. pc' = [pc EXCEPT ![c] = point]
  BY DEF GoTo
<1>3. LocalsTyped'
  BY <1>1, <1>2 DEF TypeOK, LocalsTyped, handlers, Clients
<1>4. LocalsFit'
  BY <1>2, IngestAssumption DEF TypeOK, LocalsFit, handlers, Clients
<1> QED
  BY <1>3, <1>4

(* after its answer was stored,                                            *)
LEMMA StoreFits ==
    ASSUME TypeOK, NEW c \in Clients, Store(c),
           NEW point \in {"idle", "lookup"}, GoTo(c, point), c = Poller => point = "idle",
           c \in Handlers => point = "lookup" /\ pc[c] = "apply",
           UNCHANGED <<handlers, samples, restarts>>
    PROVE  LocalsTyped' /\ LocalsFit'
<1>1. pc' = [pc EXCEPT ![c] = point] /\ fetched' = [fetched EXCEPT ![c] = {}]
  BY DEF GoTo, Store
<1>2. LocalsTyped'
  BY <1>1 DEF TypeOK, LocalsTyped, handlers, Clients
<1>3. LocalsFit'
  BY <1>1, IngestAssumption DEF TypeOK, LocalsFit, handlers, Clients
<1> QED
  BY <1>2, <1>3

(* and after a mapping was stored, which other handlers may see in their   *)
(* copies of the record: these stay sound and of the same device.          *)
LEMMA MapFits ==
    ASSUME TypeOK, RecordsSound, NEW h \in Handlers, MapChannel(h)
    PROVE  /\ LocalsTyped' /\ LocalsFit'
           /\ \A g \in Handlers : record'[g] # NoRecord =>
                /\ record'[g].key = record[g].key /\ record[g] # NoRecord
                /\ Sound(record'[g])
<1> DEFINE k == record[h].key
           m == creating[h]
<1>1. /\ m \in [tag : Tags, owner : Deployments] /\ <<m.owner, m.tag>> \in issued
      /\ record[h] \in Records /\ Has(cache, k) /\ k \in Keys
  BY DEF MapChannel, TypeOK, RecordsSound, Records
<1>2. cache' \in Caches /\ CacheSound' /\ CacheKept
  BY MapKeeps
<1>3. UNCHANGED <<upstream, issued, clock>>
  BY DEF MapChannel, api
<1>4. cache'.byKey[k] \in Records /\ Sound(cache'.byKey[k]) /\ cache'.byKey[k].key = k
  BY <1>1, <1>2, <1>3 DEF CacheSound, CacheKept, Has, Caches, Sound
<1>5. PICK S \in SUBSET Sharing(h, k, m.tag) :
          record' = [g \in Handlers |->
              IF g = h THEN cache'.byKey[k]
              ELSE IF g \in S THEN [record[g] EXCEPT !.channels[m.tag] = m.owner]
              ELSE record[g]]
  BY DEF MapChannel
<1>6. m.tag \in Tags /\ m.owner \in Deployments
  BY <1>1
<1>7. \A g \in Handlers : record[g] # NoRecord => record[g] \in Records /\ Sound(record[g])
  BY DEF TypeOK, RecordsSound
<1>8. \A g \in S : record[g] # NoRecord
  BY DEF Sharing, TypeOK
<1>9. ASSUME NEW g \in Handlers
      PROVE  /\ record'[g] \in Records \cup {NoRecord}
             /\ record'[g] # NoRecord <=> record[g] # NoRecord
             /\ record'[g] # NoRecord => record'[g].key = record[g].key /\ Sound(record'[g])
  <2>1. CASE g = h
    BY <1>1, <1>4, <1>5, <2>1, NullsAssumption
  <2>2. CASE g # h /\ g \in S
    <3> DEFINE q == [record[g] EXCEPT !.channels[m.tag] = m.owner]
    <3>1. record'[g] = q
      BY <1>5, <2>2
    <3>2. record[g] \in Records /\ Sound(record[g])
      BY <1>7, <1>8, <2>2
    <3>3. /\ q \in Records /\ q.key = record[g].key /\ q.deployment = record[g].deployment
          /\ q.updatedAt = record[g].updatedAt /\ q.channels[m.tag] = m.owner
          /\ \A t \in Tags \ {m.tag} : q.channels[t] = record[g].channels[t]
      BY <1>6, <3>2, ExtendedRecord
    <3> HIDE DEF q, m
    <3>4. Sound(q)
      BY <1>1, <3>2, <3>3 DEF Sound, Resolves
    <3> QED
      BY <3>1, <3>2, <3>3, <3>4, NullsAssumption
  <2>3. CASE g # h /\ g \notin S
    BY <1>5, <1>7, <2>3 DEF TypeOK
  <2> QED
    BY <2>1, <2>2, <2>3
<1>10. /\ pc' = [pc EXCEPT ![h] = "ensure"] /\ todo' = [todo EXCEPT ![h] = @ \ {m.tag}]
       /\ creating' = [creating EXCEPT ![h] = NoChannel] /\ pc[h] = "map"
       /\ UNCHANGED <<fetched, request, stage, known, reply, samples, restarts>>
  BY DEF MapChannel, GoTo
<1>11. record' \in [Handlers -> Records \cup {NoRecord}]
  BY <1>5, <1>9
<1> HIDE DEF m, k
<1>12. LocalsTyped
  BY DEF TypeOK, LocalsTyped
<1>13. LocalsTyped'
  BY <1>10, <1>11, <1>12 DEF LocalsTyped, Clients
<1>14. LocalsFit'
  BY <1>9, <1>10, IngestAssumption DEF TypeOK, LocalsFit, Clients
<1> QED
  BY <1>9, <1>13, <1>14

(* Every step keeps the types of the locals and where they are set.        *)
LEMMA LocalsStep ==
    ASSUME TypeOK, RecordsSound, [Next]_vars
    PROVE  LocalsTyped' /\ LocalsFit'
<1>0. Poller \notin Handlers /\ MaxRestarts \in Nat
  BY IngestAssumption
<1>1. UNCHANGED <<pc, fetched, handlers, samples, restarts>> => LocalsTyped' /\ LocalsFit'
  BY DEF TypeOK, LocalsTyped, LocalsFit, handlers
<1>2. ASSUME NEW k \in Keys, Register(k) \/ Redeploy(k)
      PROVE  LocalsTyped' /\ LocalsFit'
  BY <1>1, <1>2 DEF Register, Redeploy
<1>3. CASE FetchInitial
  <2>1. PICK A \in Answers(Known) : fetched' = [fetched EXCEPT ![Poller] = A]
    BY <1>3 DEF FetchInitial, AllDevices
  <2> QED
    BY <1>0, <1>3, <2>1, FetchFits DEF FetchInitial, Clients
<1>4. CASE Poll
  <2>1. PICK since \in UpdatedSince : \E A \in UpdatedDevices(since) : fetched' = [fetched EXCEPT ![Poller] = A]
    BY <1>4 DEF Poll
  <2>2. PICK A \in Answers({r \in Known : r.updatedAt >= since}) : fetched' = [fetched EXCEPT ![Poller] = A]
    BY <2>1 DEF UpdatedDevices
  <2> QED
    BY <1>0, <1>4, <2>2, FetchFits DEF Poll, Clients
<1>5. CASE PollApply
  BY <1>0, <1>5, StoreFits DEF PollApply, Clients
<1>6. CASE Restart
  <2>1. LocalsTyped'
    BY <1>0, <1>6 DEF Restart, TypeOK, LocalsTyped, Clients
  <2>2. LocalsFit'
    BY <1>0, <1>6 DEF Restart, TypeOK, LocalsFit, Clients
  <2> QED
    BY <2>1, <2>2
<1>7. ASSUME NEW h \in Handlers, Receive(h)
      PROVE  LocalsTyped' /\ LocalsFit'
  <2>1. LocalsTyped'
    BY <1>7 DEF Receive, GoTo, TypeOK, LocalsTyped, Clients
  <2>2. LocalsFit'
    BY <1>0, <1>7 DEF Receive, GoTo, TypeOK, LocalsFit, Clients
  <2> QED
    BY <2>1, <2>2
<1>8. ASSUME NEW h \in Handlers, Reject(h)
      PROVE  LocalsTyped' /\ LocalsFit'
  <2>1. pc[h] \notin {"map", "apply"} /\ End(h, "rejected")
    BY <1>8 DEF Reject
  <2>2. SamplesTyped' /\ OthersKept
    BY <1>8 DEF Reject, TypeOK, SamplesTyped, OthersKept
  <2>3. reply' = [reply EXCEPT ![h] = 400] \/ reply' = [reply EXCEPT ![h] = 404]
    BY <1>8 DEF Reject
  <2>4. Replied(h)
    <3>1. reply \in [Handlers -> {0, 200, 400, 404, 503}]
      BY DEF TypeOK
    <3> QED
      BY <2>3, <3>1 DEF Replied
  <2> QED
    BY <2>1, <2>2, <2>4, EndFits
<1>9. ASSUME NEW h \in Handlers, Resend(h)
      PROVE  LocalsTyped' /\ LocalsFit'
  <2>1. LocalsTyped'
    BY <1>9 DEF Resend, GoTo, TypeOK, LocalsTyped, Clients
  <2>2. LocalsFit'
    BY <1>0, <1>9 DEF Resend, GoTo, TypeOK, LocalsFit, Clients
  <2> QED
    BY <2>1, <2>2
<1>10. ASSUME NEW h \in Handlers, Lookup(h)
       PROVE  LocalsTyped' /\ LocalsFit'
  <2>1. /\ pc[h] = "lookup" /\ UNCHANGED <<fetched, request, creating, known, samples, restarts>>
        /\ request[h].key \in Keys
    BY <1>10 DEF Lookup, TypeOK
  <2>2. CASE Has(cache, request[h].key) /\ Found(h, cache.byKey[request[h].key])
    <3>1. cache.byKey[request[h].key] \in Records
      BY <2>1, <2>2 DEF Has, TypeOK, Caches
    <3> QED
      BY <2>1, <2>2, <3>1, FoundFits
  <2>3. CASE Refresh(h, "updated")
    BY <2>1, <2>3, RefreshFits
  <2>4. CASE stage[h] # "cached" /\ GoTo(h, "fallback") /\ UNCHANGED <<stage, record, todo, reply>>
    <3>1. pc' = [pc EXCEPT ![h] = "fallback"]
      BY <2>4 DEF GoTo
    <3>2. LocalsTyped'
      BY <2>1, <2>4, <3>1 DEF TypeOK, LocalsTyped, Clients
    <3>3. LocalsFit'
      BY <1>0, <2>1, <2>4, <3>1 DEF TypeOK, LocalsFit, Clients
    <3> QED
      BY <3>2, <3>3
  <2> QED
    BY <1>10, <2>2, <2>3, <2>4 DEF Lookup
<1>11. ASSUME NEW h \in Handlers, Fetch(h)
       PROVE  LocalsTyped' /\ LocalsFit'
  <2>1. \E S \in SUBSET Known : \E A \in Answers(S) : fetched' = [fetched EXCEPT ![h] = A]
    BY <1>11 DEF Fetch, UpdatedDevices, AllDevices
  <2> QED
    BY <1>11, <2>1, FetchFits DEF Fetch, Clients
<1>12. ASSUME NEW h \in Handlers, FetchFails(h)
       PROVE  LocalsTyped' /\ LocalsFit'
  <2>1. /\ pc[h] \in {"fetch", "fallback", "ensure"} /\ Answer(h, 400) /\ SamplesTyped'
        /\ OthersKept
    BY <1>12 DEF FetchFails, TypeOK, SamplesTyped, OthersKept
  <2> QED
    BY <2>1, AnswerFits
<1>13. ASSUME NEW h \in Handlers, Apply(h)
       PROVE  LocalsTyped' /\ LocalsFit'
  BY <1>0, <1>13, StoreFits DEF Apply, Clients
<1>14. ASSUME NEW h \in Handlers, Fallback(h)
       PROVE  LocalsTyped' /\ LocalsFit'
  <2>1. pc[h] = "fallback" /\ UNCHANGED <<fetched, request, creating, known, samples, restarts>>
    BY <1>14 DEF Fallback
  <2>2. CASE \E r \in FindByManufacturerAndSerial(cache, Maker[request[h].key]) : Found(h, r)
    <3>1. PICK r \in Records : Found(h, r)
      BY <2>2 DEF FindByManufacturerAndSerial, Has, TypeOK, Caches
    <3> QED
      BY <2>1, <3>1, FoundFits
  <2>3. CASE Refresh(h, "full")
    BY <2>1, <2>3, RefreshFits
  <2>4. CASE Answer(h, 503)
    <3>1. pc[h] \in {"fetch", "fallback", "ensure"} /\ SamplesTyped' /\ OthersKept
      BY <2>1 DEF TypeOK, SamplesTyped, OthersKept
    <3> QED
      BY <2>1, <2>4, <3>1, AnswerFits
  <2> QED
    BY <1>14, <2>2, <2>3, <2>4 DEF Fallback
<1>15. ASSUME NEW h \in Handlers, NEW t \in Tags, SkipChannel(h, t)
       PROVE  LocalsTyped' /\ LocalsFit'
  BY <1>15 DEF SkipChannel, TypeOK, LocalsTyped, LocalsFit
<1>16. ASSUME NEW h \in Handlers, NEW t \in Tags, CreateChannel(h, t)
       PROVE  LocalsTyped' /\ LocalsFit'
  <2>1. record[h] \in Records /\ pc[h] = "ensure"
    BY <1>16 DEF CreateChannel, TypeOK
  <2> DEFINE m == [tag |-> t, owner |-> record[h].deployment]
  <2>2. m \in [tag : Tags, owner : Deployments] /\ m # NoChannel
    BY <2>1, IngestAssumption DEF Records
  <2>3. /\ creating' = [creating EXCEPT ![h] = m] /\ pc' = [pc EXCEPT ![h] = "map"]
        /\ UNCHANGED <<fetched, request, stage, record, todo, known, reply, samples, restarts>>
    BY <1>16 DEF CreateChannel, GoTo
  <2> HIDE DEF m
  <2> QED
    BY <1>0, <2>1, <2>2, <2>3 DEF TypeOK, LocalsTyped, LocalsFit, Clients
<1>17. ASSUME NEW h \in Handlers, NEW t \in Tags, CreateFails(h, t)
       PROVE  LocalsTyped' /\ LocalsFit'
  <2>1. /\ pc[h] \in {"fetch", "fallback", "ensure"} /\ Answer(h, 400) /\ SamplesTyped'
        /\ OthersKept
    BY <1>17 DEF CreateFails, TypeOK, SamplesTyped, OthersKept
  <2> QED
    BY <2>1, AnswerFits
<1>18. ASSUME NEW h \in Handlers, MapChannel(h)
       PROVE  LocalsTyped' /\ LocalsFit'
  BY <1>18, MapFits
<1>19. ASSUME NEW h \in Handlers, Build(h)
       PROVE  LocalsTyped' /\ LocalsFit'
  <2>1. /\ pc[h] = "ensure" /\ OthersKept
        /\ \E status \in {200, 400} : Answer(h, status)
    BY <1>19 DEF Build, OthersKept
  <2>2. record[h] \in Records
    BY <2>1 DEF TypeOK
  <2>3. SamplesTyped'
    BY <1>19, <2>2 DEF Build, TypeOK, Records, Resolves, SamplesTyped
  <2> QED
    BY <2>1, <2>3, AnswerFits
<1>20. CASE UNCHANGED vars
  BY <1>1, <1>20 DEF vars
<1> QED
  BY <1>2, <1>3, <1>4, <1>5, <1>6, <1>7, <1>8, <1>9, <1>10, <1>11, <1>12, <1>13, <1>14,
     <1>15, <1>16, <1>17, <1>18, <1>19, <1>20 DEF Next, HandlerStep

-----------------------------------------------------------------------------

(* A record is sound after the step.                                       *)
SoundLater(r) ==
    /\ upstream'[r.key] # NoRecord
    /\ r.deployment.key = r.key
    /\ r.updatedAt <= clock' + 1
    /\ \A t \in Tags : Resolves(r, t) => <<r.channels[t], t>> \in issued'

(* A sound record stays sound, for the API forgets nothing.                *)
LEMMA StaysSound ==
    ASSUME TypeOK, ApiGrows
    PROVE  \A r \in Records : Sound(r) => SoundLater(r)
<1> TAKE r \in Records
<1>1. r.updatedAt \in Nat /\ r.key \in Keys /\ clock \in Nat /\ clock' \in Nat /\ clock' >= clock
  BY IngestAssumption DEF Records, TypeOK, ApiGrows
<1> QED
  BY <1>1 DEF ApiGrows, Sound, SoundLater

(* The other parts of RecordsSound.                                        *)
FetchedSound == \A c \in Clients : \A r \in fetched[c] : Sound(r) /\ r.updatedAt <= clock

RecordSound ==
    \A h \in Handlers : record[h] # NoRecord => Sound(record[h]) /\ Has(cache, record[h].key)

CreatingSound ==
    \A h \in Handlers : creating[h] # NoChannel => <<creating[h].owner, creating[h].tag>> \in issued

(* RecordsSound, by the place where the record is.                         *)
LEMMA SoundParts == RecordsSound <=> ApiSound /\ CacheSound /\ FetchedSound /\ RecordSound /\ CreatingSound
BY DEF RecordsSound, ApiSound, CacheSound, FetchedSound, RecordSound, CreatingSound

(* How fetched changes.                                                    *)
LEMMA FetchedChange ==
    ASSUME TypeOK, [Next]_vars
    PROVE  \/ \A c \in Clients : fetched'[c] \in {fetched[c], {}}
           \/ \E c \in Clients : \E S \in SUBSET Known : \E A \in Answers(S) :
                    /\ fetched' = [fetched EXCEPT ![c] = A]
                    /\ UNCHANGED api
<1> DEFINE Cleared == \A c \in Clients : fetched'[c] \in {fetched[c], {}}
           GotAnswer(c) == \E S \in SUBSET Known : \E A \in Answers(S) :
                             fetched' = [fetched EXCEPT ![c] = A] /\ UNCHANGED api
<1>1. fetched' = fetched => Cleared
  OBVIOUS
<1>2. ASSUME NEW k \in Keys, Register(k) \/ Redeploy(k)
      PROVE  fetched' = fetched
  BY <1>2 DEF Register, Redeploy
<1>3. ASSUME FetchInitial \/ Poll
      PROVE  GotAnswer(Poller)
  BY <1>3 DEF FetchInitial, Poll, AllDevices, UpdatedDevices
<1>4. ASSUME PollApply \/ Restart
      PROVE  Cleared
  BY <1>4 DEF PollApply, Store, Restart, TypeOK
<1>5. ASSUME NEW h \in Handlers, Fetch(h)
      PROVE  GotAnswer(h) /\ h \in Clients
  BY <1>5 DEF Fetch, AllDevices, UpdatedDevices, Clients
<1>6. ASSUME NEW h \in Handlers, Apply(h)
      PROVE  Cleared
  BY <1>6 DEF Apply, Store, TypeOK, Clients
<1>7. ASSUME NEW h \in Handlers,
             Receive(h) \/ Reject(h) \/ Resend(h) \/ Lookup(h) \/ FetchFails(h)
      PROVE  fetched' = fetched
  BY <1>7 DEF Receive, Reject, Resend, Lookup, FetchFails
<1>8. ASSUME NEW h \in Handlers,
             \/ Fallback(h) \/ Build(h) \/ MapChannel(h)
             \/ \E t \in Tags : SkipChannel(h, t) \/ CreateChannel(h, t) \/ CreateFails(h, t)
      PROVE  fetched' = fetched
  BY <1>8 DEF Fallback, Build, MapChannel, SkipChannel, CreateChannel, CreateFails
<1>9. ASSUME UNCHANGED vars
      PROVE  fetched' = fetched
  BY <1>9 DEF vars
<1>10. Poller \in Clients
  BY DEF Clients
<1> HIDE DEF Cleared, GotAnswer
<1>11. Cleared \/ \E c \in Clients : GotAnswer(c)
  BY <1>1, <1>2, <1>3, <1>4, <1>5, <1>6, <1>7, <1>8, <1>9, <1>10 DEF Next, HandlerStep
<1> QED
  BY <1>11, Zenon DEF Cleared, GotAnswer

(* Answers on their way stay sound.                                        *)
LEMMA FetchedStep ==
    ASSUME TypeOK, RecordsSound, [Next]_vars
    PROVE  FetchedSound'
<1>1. ApiGrows /\ FetchedSound /\ fetched \in [Clients -> SUBSET Records]
  BY ApiStep, SoundParts DEF TypeOK
<1>2. clock \in Nat /\ clock' \in Nat /\ clock' >= clock
  BY <1>1, IngestAssumption DEF TypeOK, ApiGrows
<1>3. \A r \in Records : Sound(r) /\ r.updatedAt <= clock => SoundLater(r) /\ r.updatedAt <= clock'
  BY <1>1, <1>2, StaysSound DEF Records
<1>4. CASE \A c \in Clients : fetched'[c] \in {fetched[c], {}}
  <2>1. \A c \in Clients : \A r \in fetched'[c] : SoundLater(r) /\ r.updatedAt <= clock'
    BY <1>1, <1>3, <1>4 DEF FetchedSound
  <2> QED
    BY <2>1 DEF FetchedSound, Sound, SoundLater
<1>5. ASSUME NEW c \in Clients, NEW S \in SUBSET Known, NEW A \in Answers(S),
             fetched' = [fetched EXCEPT ![c] = A]
      PROVE  FetchedSound'
  <2>1. A \subseteq Records /\ \A r \in A : Sound(r) /\ r.updatedAt <= clock
    BY AnswerSound
  <2>2. \A d \in Clients : \A r \in fetched'[d] : SoundLater(r) /\ r.updatedAt <= clock'
    BY <1>1, <1>3, <1>5, <2>1 DEF FetchedSound
  <2> QED
    BY <2>2 DEF FetchedSound, Sound, SoundLater
<1> QED
  BY <1>4, <1>5, FetchedChange

(* The handlers' records stay sound and their devices in the cache.        *)
LEMMA RecordStep ==
    ASSUME TypeOK, RecordsSound, [Next]_vars
    PROVE  RecordSound'
<1>1. ApiGrows /\ RecordSound /\ CacheSound /\ (restarts' = restarts => CacheKept)
  BY ApiStep, CacheStep, SoundParts
<1>2. \A r \in Records : Sound(r) => SoundLater(r)
  BY <1>1, StaysSound
<1>4. ASSUME restarts' = restarts,
             \A h \in Handlers : record'[h] # NoRecord =>
                \/ record'[h] = record[h]
                \/ record'[h].key \in Keys /\ SoundLater(record'[h]) /\ Has(cache', record'[h].key)
      PROVE  RecordSound'
  <2>1. ASSUME NEW h \in Handlers, record'[h] # NoRecord
        PROVE  SoundLater(record'[h]) /\ Has(cache', record'[h].key)
    <3>1. CASE record'[h] = record[h]
      <4>1. record[h] \in Records /\ Sound(record[h]) /\ Has(cache, record[h].key) /\ record[h].key \in Keys
        BY <1>1, <2>1, <3>1 DEF TypeOK, RecordSound, Records
      <4> QED
        BY <1>1, <1>2, <1>4, <3>1, <4>1 DEF CacheKept
    <3> QED
      BY <1>4, <2>1, <3>1
  <2> QED
    BY <2>1 DEF RecordSound, Sound, SoundLater, Has
<1>5. ASSUME NEW h \in Handlers, NEW r \in Records, Found(h, r), Sound(r), Has(cache, r.key),
             restarts' = restarts
      PROVE  RecordSound'
  <2>1. record' = [record EXCEPT ![h] = r] /\ r.key \in Keys
    BY <1>5 DEF Found, Records
  <2> QED
    BY <1>1, <1>2, <1>4, <1>5, <2>1 DEF CacheKept, TypeOK
<1>6. ASSUME record' = record, restarts' = restarts
      PROVE  RecordSound'
  BY <1>4, <1>6
<1>7. ASSUME NEW h \in Handlers, record' = [record EXCEPT ![h] = NoRecord], restarts' = restarts
      PROVE  RecordSound'
  BY <1>4, <1>7 DEF TypeOK
<1>8. ASSUME NEW k \in Keys, Register(k) \/ Redeploy(k)
      PROVE  record' = record /\ restarts' = restarts
  BY <1>8 DEF Register, Redeploy, handlers
<1>9. CASE FetchInitial \/ Poll \/ PollApply \/ UNCHANGED vars
  BY <1>6, <1>9 DEF FetchInitial, Poll, PollApply, handlers, vars
<1>10. ASSUME NEW h \in Handlers, Lookup(h)
       PROVE  RecordSound'
  <2>1. restarts' = restarts /\ request[h].key \in Keys
    BY <1>10 DEF Lookup, TypeOK
  <2>2. CASE Has(cache, request[h].key) /\ Found(h, cache.byKey[request[h].key])
    <3>1. /\ cache.byKey[request[h].key] \in Records /\ Sound(cache.byKey[request[h].key])
          /\ Has(cache, cache.byKey[request[h].key].key)
      BY <1>1, <2>1, <2>2 DEF Has, TypeOK, Caches, CacheSound
    <3> QED
      BY <1>5, <2>1, <2>2, <3>1
  <2>3. CASE record' = record
    BY <1>6, <2>1, <2>3
  <2> QED
    BY <1>10, <2>2, <2>3 DEF Lookup, Refresh
<1>11. ASSUME NEW h \in Handlers, Fallback(h)
       PROVE  RecordSound'
  <2>1. restarts' = restarts
    BY <1>11 DEF Fallback
  <2>2. CASE \E r \in FindByManufacturerAndSerial(cache, Maker[request[h].key]) : Found(h, r)
    <3>1. PICK k \in Keys : Has(cache, k) /\ Found(h, cache.byKey[k])
      BY <2>2 DEF FindByManufacturerAndSerial
    <3>2. /\ cache.byKey[k] \in Records /\ Sound(cache.byKey[k]) /\ Has(cache, cache.byKey[k].key)
      BY <1>1, <3>1 DEF Has, TypeOK, Caches, CacheSound
    <3> QED
      BY <1>5, <2>1, <3>1, <3>2
  <2>3. CASE Refresh(h, "full")
    BY <1>6, <2>1, <2>3 DEF Refresh
  <2>4. CASE Answer(h, 503)
    BY <1>7, <2>1, <2>4 DEF Answer, End
  <2> QED
    BY <1>11, <2>2, <2>3, <2>4 DEF Fallback
<1>12. ASSUME NEW h \in Handlers, MapChannel(h)
       PROVE  RecordSound'
  <2>1. UNCHANGED <<clock, upstream, issued, restarts>>
    BY <1>12 DEF MapChannel, api
  <2>2. \A g \in Handlers : record'[g] # NoRecord =>
            record'[g].key = record[g].key /\ record[g] # NoRecord /\ Sound(record'[g])
    BY <1>12, MapFits
  <2>3. \A g \in Handlers : record[g] # NoRecord => record[g].key \in Keys /\ Has(cache, record[g].key)
    BY <1>1 DEF RecordSound, TypeOK, Records
  <2>4. \A g \in Handlers : record'[g] # NoRecord => SoundLater(record'[g])
    BY <2>1, <2>2 DEF Sound, SoundLater
  <2> QED
    BY <1>1, <1>4, <2>1, <2>2, <2>3, <2>4 DEF CacheKept
<1>13. ASSUME NEW h \in Handlers, Reject(h) \/ FetchFails(h) \/ Build(h) \/ \E t \in Tags : CreateFails(h, t)
       PROVE  record' = [record EXCEPT ![h] = NoRecord] /\ restarts' = restarts
  BY <1>13 DEF Reject, FetchFails, Build, CreateFails, Answer, End
<1>14. ASSUME NEW h \in Handlers,
              \/ Receive(h) \/ Resend(h) \/ Fetch(h) \/ Apply(h)
              \/ \E t \in Tags : SkipChannel(h, t) \/ CreateChannel(h, t)
       PROVE  record' = record /\ restarts' = restarts
  BY <1>14 DEF Receive, Resend, Fetch, Apply, SkipChannel, CreateChannel, handlers
<1>15. CASE Restart
  BY <1>15 DEF Restart, RecordSound
<1> QED
  BY <1>6, <1>7, <1>8, <1>9, <1>10, <1>11, <1>12, <1>13, <1>14, <1>15 DEF Next, HandlerStep

(* The API created the channel that a handler is about to store.           *)
LEMMA CreatingStep ==
    ASSUME TypeOK, RecordsSound, [Next]_vars
    PROVE  CreatingSound'
<1>1. ApiGrows /\ CreatingSound
  BY ApiStep, SoundParts
<1>2. ASSUME \A h \in Handlers : creating'[h] \in {creating[h], NoChannel}
      PROVE  CreatingSound'
  BY <1>1, <1>2 DEF CreatingSound, ApiGrows
<1>3. ASSUME NEW k \in Keys, Register(k) \/ Redeploy(k)
      PROVE  creating' = creating
  BY <1>3 DEF Register, Redeploy, handlers
<1>4. ASSUME FetchInitial \/ Poll \/ PollApply \/ UNCHANGED vars
      PROVE  creating' = creating
  BY <1>4 DEF FetchInitial, Poll, PollApply, handlers, vars
<1>5. ASSUME Restart \/ \E h \in Handlers : MapChannel(h)
      PROVE  \A h \in Handlers : creating'[h] \in {creating[h], NoChannel}
  BY <1>5 DEF Restart, MapChannel, TypeOK
<1>6. ASSUME NEW h \in Handlers, NEW t \in Tags, CreateChannel(h, t)
      PROVE  CreatingSound'
  <2>1. /\ creating' = [creating EXCEPT ![h] = [tag |-> t, owner |-> record[h].deployment]]
        /\ <<record[h].deployment, t>> \in issued'
    BY <1>6 DEF CreateChannel, ApiCreates
  <2>2. creating \in [Handlers -> [tag : Tags, owner : Deployments] \cup {NoChannel}]
    BY DEF TypeOK
  <2>3. \A g \in Handlers : \/ creating'[g] = creating[g]
                            \/ creating'[g] = [tag |-> t, owner |-> record[h].deployment]
    BY <2>1, <2>2
  <2>4. issued \subseteq issued'
    BY <1>1 DEF ApiGrows
  <2> QED
    BY <1>1, <2>1, <2>3, <2>4 DEF CreatingSound
<1>7. ASSUME NEW h \in Handlers,
             Receive(h) \/ Reject(h) \/ Resend(h) \/ Lookup(h) \/ Fetch(h) \/ FetchFails(h) \/ Apply(h)
      PROVE  creating' = creating
  BY <1>7 DEF Receive, Reject, Resend, Lookup, Fetch, FetchFails, Apply, handlers
<1>8. ASSUME NEW h \in Handlers,
             Fallback(h) \/ Build(h) \/ \E t \in Tags : SkipChannel(h, t) \/ CreateFails(h, t)
      PROVE  creating' = creating
  BY <1>8 DEF Fallback, Build, SkipChannel, CreateFails
<1> QED
  BY <1>2, <1>3, <1>4, <1>5, <1>6, <1>7, <1>8 DEF Next, HandlerStep

(* TypeOK and RecordsSound are inductive together.                         *)
LEMMA TypeStep ==
    ASSUME TypeOK, RecordsSound, [Next]_vars
    PROVE  TypeOK' /\ RecordsSound'
<1>1. ApiGrows /\ cache' \in Caches /\ LocalsTyped' /\ LocalsFit'
  BY ApiStep, CacheStep, LocalsStep
<1>2. clock' \in 1..(MaxChanges + 1)
  BY <1>1, IngestAssumption DEF ApiGrows, TypeOK
<1>3. TypeOK'
  BY <1>1, <1>2 DEF TypeOK, ApiGrows, LocalsTyped, LocalsFit
<1>4. ApiSound' /\ CacheSound' /\ FetchedSound' /\ RecordSound' /\ CreatingSound'
  BY ApiStep, CacheStep, FetchedStep, RecordStep, CreatingStep
<1>5. RecordsSound'
  BY <1>4 DEF RecordsSound, ApiSound, CacheSound, FetchedSound, RecordSound, CreatingSound
<1> QED
  BY <1>3, <1>5

(* Every variable keeps its type, whatever the API answers and fails to do *)
(* and however often the process dies.                                     *)
THEOREM ServiceTypes == Spec => []TypeOK
<1>1. Init => TypeOK /\ RecordsSound
  BY Initially DEF IInv
<1>2. TypeOK /\ RecordsSound /\ [Next]_vars => (TypeOK /\ RecordsSound)'
  BY TypeStep
<1> QED
  BY <1>1, <1>2, PTL DEF Spec

(* Answers that come late or out of order never take a device out of the   *)
(* cache, nor move its cursor back.                                        *)
THEOREM CacheOnlyGrows == Spec => CacheGrows
<1>1. Init => TypeOK /\ RecordsSound
  BY Initially DEF IInv
<1>2. TypeOK /\ RecordsSound /\ [Next]_vars => (TypeOK /\ RecordsSound)'
  BY TypeStep
<1>3. TypeOK /\ RecordsSound /\ [Next]_vars =>
        [restarts' = restarts =>
            /\ cache'.updatedAt >= cache.updatedAt
            /\ \A k \in Keys : Has(cache, k) => Has(cache', k)]_vars
  BY CacheStep DEF CacheKept
<1> QED
  BY <1>1, <1>2, <1>3, PTL DEF Spec, CacheGrows

(* A sample is published only by Build, with all its channels.             *)
LEMMA SamplesChange ==
    ASSUME TypeOK, [Next]_vars
    PROVE  \/ samples' = samples
           \/ \E h \in Handlers :
                /\ pc[h] = "ensure" /\ pc' = [pc EXCEPT ![h] = "done"]
                /\ UNCHANGED <<api, request, known>>
                /\ \A t \in request[h].tags : Resolves(record[h], t)
                /\ samples' = samples \cup {[by |-> h, known |-> known[h], deployment |-> record[h].deployment,
                        channels |-> {<<record[h].channels[t], t>> : t \in request[h].tags}]}
<1>1. ASSUME NEW h \in Handlers, Build(h), samples' # samples
      PROVE  /\ pc[h] = "ensure" /\ pc' = [pc EXCEPT ![h] = "done"]
             /\ UNCHANGED <<api, request, known>>
             /\ \A t \in request[h].tags : Resolves(record[h], t)
             /\ samples' = samples \cup {[by |-> h, known |-> known[h], deployment |-> record[h].deployment,
                    channels |-> {<<record[h].channels[t], t>> : t \in request[h].tags}]}
  BY <1>1 DEF Build, Answer, End, GoTo
<1>2. ASSUME NEW k \in Keys, Register(k) \/ Redeploy(k)
      PROVE  samples' = samples
  BY <1>2 DEF Register, Redeploy
<1>3. FetchInitial \/ Poll \/ PollApply \/ Restart \/ UNCHANGED vars => samples' = samples
  BY DEF FetchInitial, Poll, PollApply, Restart, vars
<1>4. ASSUME NEW h \in Handlers,
             Receive(h) \/ Reject(h) \/ Resend(h) \/ Lookup(h) \/ Fetch(h) \/ FetchFails(h) \/ Apply(h)
      PROVE  samples' = samples
  BY <1>4 DEF Receive, Reject, Resend, Lookup, Fetch, FetchFails, Apply
<1>5. ASSUME NEW h \in Handlers,
             \/ Fallback(h) \/ MapChannel(h)
             \/ \E t \in Tags : SkipChannel(h, t) \/ CreateChannel(h, t) \/ CreateFails(h, t)
      PROVE  samples' = samples
  BY <1>5 DEF Fallback, MapChannel, SkipChannel, CreateChannel, CreateFails
<1> QED
  BY <1>1, <1>2, <1>3, <1>4, <1>5 DEF Next, HandlerStep

(* What is published names only channels that the API created.             *)
THEOREM ChannelsExist == Spec => []NoPhantomChannel
<1>1. Init => TypeOK /\ RecordsSound /\ NoPhantomChannel
  BY Initially DEF IInv, Init, NoPhantomChannel
<1>2. ASSUME TypeOK, RecordsSound, NoPhantomChannel, [Next]_vars
      PROVE  (TypeOK /\ RecordsSound /\ NoPhantomChannel)'
  <2>1. TypeOK' /\ RecordsSound' /\ issued \subseteq issued'
    BY <1>2, TypeStep, ApiStep DEF ApiGrows
  <2>2. ASSUME \A s \in samples' : s \in samples \/ s.channels \subseteq issued
        PROVE  NoPhantomChannel'
    BY <1>2, <2>1, <2>2 DEF NoPhantomChannel
  <2>3. ASSUME NEW h \in Handlers, pc[h] = "ensure", \A t \in request[h].tags : Resolves(record[h], t)
        PROVE  {<<record[h].channels[t], t>> : t \in request[h].tags} \subseteq issued
    <3>1. record[h] # NoRecord /\ Sound(record[h]) /\ request[h].tags \subseteq Tags
      BY <1>2, <2>3 DEF TypeOK, RecordsSound
    <3> QED
      BY <2>3, <3>1 DEF Sound
  <2> QED
    BY <1>2, <2>1, <2>2, <2>3, SamplesChange
<1> QED
  BY <1>1, <1>2, PTL DEF Spec

-----------------------------------------------------------------------------

(* Nothing of a handler but its record changes in the steps of others.     *)
Undisturbed(h) ==
    /\ pc'[h] = pc[h] /\ fetched'[h] = fetched[h] /\ request'[h] = request[h]
    /\ stage'[h] = stage[h] /\ known'[h] = known[h] /\ reply'[h] = reply[h]
    /\ restarts' = restarts

(* Only a restart and its own steps touch a handler.                       *)
LEMMA StepsOfOthers ==
    ASSUME TypeOK, [Next]_vars, NEW h \in Handlers
    PROVE  \/ Undisturbed(h) \/ Restart
           \/ Receive(h) \/ Reject(h) \/ Resend(h) \/ HandlerStep(h)
<1> USE IngestAssumption
<1>1. ASSUME NEW k \in Keys, Register(k) \/ Redeploy(k)
      PROVE  Undisturbed(h)
  BY <1>1 DEF Register, Redeploy, handlers, Undisturbed
<1>2. ASSUME FetchInitial \/ Poll \/ PollApply \/ UNCHANGED vars
      PROVE  Undisturbed(h)
  BY <1>2 DEF FetchInitial, Poll, PollApply, Store, GoTo, handlers, vars, Undisturbed, TypeOK, Clients
<1>3. ASSUME NEW g \in Handlers \ {h}, Receive(g) \/ Resend(g)
      PROVE  Undisturbed(h)
  BY <1>3 DEF Receive, Resend, GoTo, Undisturbed, TypeOK, Clients
<1>4. ASSUME NEW g \in Handlers \ {h}, Reject(g)
      PROVE  Undisturbed(h)
  BY <1>4 DEF Reject, End, GoTo, Undisturbed, TypeOK, Clients
<1>5. ASSUME NEW g \in Handlers \ {h}, Lookup(g) \/ Fallback(g)
      PROVE  Undisturbed(h)
  BY <1>5 DEF Lookup, Fallback, Found, Refresh, Answer, End, GoTo, Undisturbed, TypeOK, Clients
<1>6. ASSUME NEW g \in Handlers \ {h}, Fetch(g) \/ Apply(g)
      PROVE  Undisturbed(h)
  BY <1>6 DEF Fetch, Apply, Store, GoTo, handlers, Undisturbed, TypeOK, Clients
<1>7. ASSUME NEW g \in Handlers \ {h}, FetchFails(g) \/ Build(g) \/ \E t \in Tags : CreateFails(g, t)
      PROVE  Undisturbed(h)
  BY <1>7 DEF FetchFails, Build, CreateFails, Answer, End, GoTo, Undisturbed, TypeOK, Clients
<1>8. ASSUME NEW g \in Handlers \ {h},
             MapChannel(g) \/ \E t \in Tags : SkipChannel(g, t) \/ CreateChannel(g, t)
      PROVE  Undisturbed(h)
  BY <1>8 DEF MapChannel, SkipChannel, CreateChannel, GoTo, Undisturbed, TypeOK, Clients
<1> QED
  BY <1>1, <1>2, <1>3, <1>4, <1>5, <1>6, <1>7, <1>8 DEF Next, HandlerStep

(* What a store leaves behind: every record fetched is in the cache.       *)
LEMMA StoreHolds ==
    ASSUME TypeOK, RecordsSound, NEW c \in Clients, Store(c)
    PROVE  \A k \in Keys : Has(cache', k) <=> Has(cache, k) \/ \E r \in fetched[c] : r.key = k
<1>1. PICK now \in Now : cache' = UpsertMany(cache, fetched[c], now)
  BY DEF Store
<1>2. clock \in Nat /\ now \in 0..(clock + 1)
  BY IngestAssumption DEF TypeOK, Now
<1>3. /\ cache \in Caches /\ cache.updatedAt <= clock + 1
      /\ fetched[c] \in SUBSET Records
      /\ \A r \in fetched[c] : r.updatedAt <= clock + 1
  BY DEF TypeOK, RecordsSound, Sound
<1>4. \A k \in Keys :
        \/ cache'.byKey[k] = cache.byKey[k] /\ \A r \in fetched[c] : r.key # k
        \/ \E r \in fetched[c] : r.key = k /\ cache'.byKey[k] = Dated(r, now)
  BY <1>1, <1>2, <1>3, UpsertManyResult
<1>5. \A r \in fetched[c] : Dated(r, now) # NoRecord
  BY <1>2, <1>3, DatedRecord, NullsAssumption
<1> QED
  BY <1>4, <1>5 DEF Has

(* No device that the cache lacks is older than its cursor.                *)
UpdatesSuffice == cache.updatedAt > 0 /\ NothingSkipped

(* The time that is asked for is not after the cursor.                     *)
LEMMA SinceTheCursor ==
    ASSUME TypeOK, cache.updatedAt > 0, NEW since \in UpdatedSince
    PROVE  since \in Int /\ since <= cache.updatedAt
<1>1. cache.updatedAt \in Nat /\ cache.updatedAt # 0
  BY DEF TypeOK, Caches
<1>2. since = cache.updatedAt - (cache.updatedAt % Second)
  BY <1>1 DEF UpdatedSince, InSeconds
<1>3. Second \in Nat \ {0}
  BY IngestAssumption
<1>4. cache.updatedAt % Second \in Nat
  BY <1>1, <1>3, Z3
<1> QED
  BY <1>1, <1>2, <1>4

(* The list of all devices holds every device; that of the updated ones    *)
(* holds every device that the cache lacks, if none is behind the cursor.  *)
LEMMA AnswerFinds ==
    ASSUME TypeOK, RecordsSound, NEW how \in {"updated", "full"}, how = "updated" => UpdatesSuffice,
           NEW A, how = "full" => A \in AllDevices,
           how = "updated" => \E since \in UpdatedSince : A \in UpdatedDevices(since)
    PROVE  \A k \in Keys : upstream[k] # NoRecord => Has(cache, k) \/ \E r \in A : r.key = k
<1> TAKE k \in Keys
<1> SUFFICES ASSUME upstream[k] # NoRecord, ~Has(cache, k)
             PROVE  \E r \in A : r.key = k
  OBVIOUS
<1>1. upstream[k] \in Known
  BY DEF Known
<1>2. CASE how = "full"
  BY <1>1, <1>2, AnswerSound DEF AllDevices
<1>3. CASE how = "updated"
  <2>1. cache.updatedAt > 0 /\ upstream[k].updatedAt >= cache.updatedAt
    <3>1. cache # EmptyCache
      BY <1>3 DEF UpdatesSuffice, EmptyCache
    <3> QED
      BY <1>3, <3>1 DEF UpdatesSuffice, NothingSkipped
  <2>2. PICK since \in UpdatedSince : A \in UpdatedDevices(since)
    BY <1>3
  <2>3. A \in Answers({r \in Known : r.updatedAt >= since})
    BY <2>2 DEF UpdatedDevices
  <2>4. upstream[k] \in {r \in Known : r.updatedAt >= since}
    <3>1. since \in Int /\ since <= cache.updatedAt
      BY <2>1, SinceTheCursor
    <3>2. upstream[k].updatedAt \in Nat /\ cache.updatedAt \in Nat
      BY <1>1 DEF TypeOK, Caches, Known, Records
    <3> QED
      BY <1>1, <2>1, <3>1, <3>2
  <2> QED
    BY <2>3, <2>4, AnswerSound
<1> QED
  BY <1>2, <1>3

(* A handler whose device was known still finds it.                        *)
LEMMA ListedStep ==
    ASSUME TypeOK, RecordsSound, [Next]_vars, NEW stages \in SUBSET {"updated", "full"},
           NEW h \in Handlers, Listed(h, stages),
           "updated" \in stages /\ pc[h] = "fetch" => UpdatesSuffice
    PROVE  Listed(h, stages)'
<1>1. /\ \A k \in Keys : upstream[k] # NoRecord => upstream'[k] # NoRecord
      /\ restarts' = restarts => \A k \in Keys : Has(cache, k) => Has(cache', k)
  BY ApiStep, CacheStep DEF ApiGrows, CacheKept
<1>2. TypeOK'
  BY TypeStep
<1>3. request[h].key \in Keys /\ request'[h].key \in Keys
  BY <1>2 DEF TypeOK
<1>4. CASE Undisturbed(h)
  BY <1>1, <1>3, <1>4 DEF Undisturbed, Listed, Has
<1>5. ASSUME known'[h] => upstream'[request'[h].key] # NoRecord,
             pc'[h] \notin {"lookup", "apply", "fallback"} \/ stage'[h] \notin stages
      PROVE  Listed(h, stages)'
  BY <1>5 DEF Listed
<1>6. CASE Restart
  BY <1>1, <1>3, <1>5, <1>6 DEF Restart, Listed, TypeOK, Clients, api
<1>7. known \in [Handlers -> BOOLEAN]
  BY DEF TypeOK
<1>8. CASE Receive(h) \/ Resend(h)
  <2>1. known'[h] => upstream'[request'[h].key] # NoRecord
    <3>1. CASE Receive(h)
      <4>1. PICK k \in Keys, T \in SUBSET Tags :
              /\ request' = [request EXCEPT ![h] = [key |-> k, tags |-> T]]
              /\ known' = [known EXCEPT ![h] = upstream[k] # NoRecord]
        BY <3>1 DEF Receive
      <4>2. request'[h].key = k
        BY <4>1 DEF TypeOK
      <4>3. known'[h] = (upstream[k] # NoRecord)
        BY <4>1, <1>7, Zenon
      <4> QED
        BY <1>1, <4>2, <4>3
    <3>2. CASE Resend(h)
      <4>1. known' = [known EXCEPT ![h] = upstream[request[h].key] # NoRecord] /\ request' = request
        BY <3>2, Zenon DEF Resend
      <4>2. known'[h] = (upstream[request[h].key] # NoRecord)
        BY <4>1, <1>7, Zenon
      <4> QED
        BY <1>1, <1>3, <4>1, <4>2
    <3> QED
      BY <1>8, <3>1, <3>2
  <2>2. stage'[h] = "cached"
    BY <1>8 DEF Receive, Resend, TypeOK
  <2> QED
    BY <1>5, <2>1, <2>2
<1>9. ASSUME request'[h] = request[h], known'[h] = known[h],
             pc'[h] \notin {"lookup", "apply", "fallback"} \/ stage'[h] \notin stages
      PROVE  Listed(h, stages)'
  BY <1>1, <1>3, <1>5, <1>9 DEF Listed
<1>10. CASE Reject(h) \/ FetchFails(h) \/ Build(h) \/ \E t \in Tags : CreateFails(h, t)
  BY <1>9, <1>10 DEF Reject, FetchFails, Build, CreateFails, Answer, End, GoTo, TypeOK, Clients
<1>11. CASE Lookup(h)
  <2>1. pc[h] = "lookup" /\ request' = request /\ known' = known /\ stage[h] \in {"cached", "updated", "full"}
    BY <1>11 DEF Lookup, TypeOK
  <2>2. CASE pc'[h] \in {"ensure", "fetch"}
    BY <1>9, <2>1, <2>2
  <2>3. CASE ~Has(cache, request[h].key) /\ stage' = stage
    <3>1. stage[h] \in stages => ~known[h]
      BY <2>1, <2>3 DEF Listed
    <3> QED
      BY <1>9, <2>1, <2>3, <3>1 DEF Listed
  <2> QED
    BY <1>11, <2>2, <2>3 DEF Lookup, Found, Refresh, GoTo, TypeOK, Clients
<1>12. CASE Fetch(h)
  <2>1. /\ pc[h] = "fetch" /\ pc'[h] = "apply" /\ UNCHANGED <<upstream, cache, request, stage, known>>
        /\ stage[h] \in {"updated", "full"}
    BY <1>12 DEF Fetch, GoTo, api, handlers, TypeOK, Clients
  <2>2. PICK A : /\ fetched'[h] = A
                 /\ stage[h] = "full" => A \in AllDevices
                 /\ stage[h] = "updated" => \E since \in UpdatedSince : A \in UpdatedDevices(since)
    BY <1>12 DEF Fetch, TypeOK, Clients
  <2>3. CASE stage[h] \in stages
    <3>1. stage[h] = "updated" => UpdatesSuffice
      BY <2>1, <2>3
    <3>2. \A k \in Keys : upstream[k] # NoRecord => Has(cache, k) \/ \E r \in A : r.key = k
      BY <2>1, <2>2, <3>1, AnswerFinds
    <3> QED
      BY <1>3, <2>1, <2>2, <3>2 DEF Listed, Has
  <2>4. CASE stage[h] \notin stages
    BY <1>9, <2>1, <2>4
  <2> QED
    BY <2>3, <2>4
<1>13. CASE Apply(h)
  <2>1. /\ pc[h] = "apply" /\ pc'[h] = "lookup" /\ UNCHANGED <<upstream, request, stage, known>> /\ Store(h)
    BY <1>13 DEF Apply, GoTo, api, handlers, TypeOK, Clients
  <2>2. \A k \in Keys : Has(cache', k) <=> Has(cache, k) \/ \E r \in fetched[h] : r.key = k
    BY <2>1, StoreHolds DEF Clients
  <2> QED
    BY <1>3, <2>1, <2>2 DEF Listed, Has
<1>14. CASE Fallback(h)
  <2>1. request' = request /\ known' = known
    BY <1>14 DEF Fallback
  <2>2. pc'[h] \notin {"lookup", "apply", "fallback"}
    BY <1>14 DEF Fallback, Found, Refresh, Answer, End, GoTo, TypeOK, Clients
  <2> QED
    BY <1>9, <2>1, <2>2
<1>15. CASE MapChannel(h) \/ \E t \in Tags : SkipChannel(h, t) \/ CreateChannel(h, t)
  BY <1>9, <1>15 DEF MapChannel, SkipChannel, CreateChannel, GoTo, TypeOK, Clients
<1> QED
  BY <1>4, <1>6, <1>8, <1>10, <1>11, <1>12, <1>13, <1>14, <1>15, StepsOfOthers DEF HandlerStep

(* The API knows a device.                                                 *)
SomeKnown == \E k \in Keys : upstream[k] # NoRecord

(* The API goes on knowing a device.                                       *)
LEMMA SomeStaysKnown ==
    ASSUME TypeOK, RecordsSound, [Next]_vars, SomeKnown
    PROVE  SomeKnown'
BY ApiStep DEF ApiGrows, SomeKnown

(* The list of all devices is enough, whatever the API dates.              *)
LEMMA FoundStep ==
    ASSUME TypeOK, RecordsSound, FoundInFullList, [Next]_vars
    PROVE  FoundInFullList'
<1>1. \A h \in Handlers : Listed(h, {"full"})'
  BY ListedStep DEF FoundInFullList
<1> QED
  BY <1>1 DEF FoundInFullList, Listed

-----------------------------------------------------------------------------

(* Stores and answers, with an API that dates every record.                *)

(* No step leaves a device behind the cursor, if the answers on their way  *)
(* are complete.                                                           *)
LEMMA NothingSkippedStep ==
    ASSUME TypeOK, RecordsSound, NothingSkipped, AnswersComplete, [Next]_vars
    PROVE  NothingSkipped'
<1>1. ApiGrows /\ CacheSound /\ cache \in Caches /\ clock \in Nat
  BY ApiStep, SoundParts, IngestAssumption DEF TypeOK
<1>2. \A k \in Keys : upstream'[k] # NoRecord => upstream'[k].updatedAt \in Nat
  BY <1>1 DEF ApiGrows, Records
<1>3. CASE UNCHANGED cache
  <2>1. ASSUME cache # EmptyCache, NEW k \in Keys, upstream'[k] # NoRecord, ~Has(cache, k)
        PROVE  upstream'[k].updatedAt >= cache.updatedAt
    <3>1. cache.updatedAt \in Nat /\ cache.updatedAt <= clock + 1 /\ upstream'[k].updatedAt \in Nat
      BY <1>1, <1>2, <2>1 DEF CacheSound, Caches
    <3>2. CASE upstream[k] = NoRecord
      BY <1>1, <2>1, <3>1, <3>2 DEF ApiGrows
    <3>3. CASE upstream[k] # NoRecord
      <4>1. upstream[k].updatedAt \in Nat /\ upstream[k].updatedAt >= cache.updatedAt
        BY <2>1, <3>3 DEF NothingSkipped, TypeOK, Records
      <4> QED
        BY <1>1, <3>1, <3>3, <4>1 DEF ApiGrows
    <3> QED
      BY <3>2, <3>3
  <2> QED
    BY <1>3, <2>1 DEF NothingSkipped, Has
<1>4. ASSUME NEW c \in Clients, Store(c), UNCHANGED api
      PROVE  NothingSkipped'
  <2>1. PICK now \in Now : cache' = UpsertMany(cache, fetched[c], now)
    BY <1>4 DEF Store
  <2>2. /\ now \in 0..(clock + 1) /\ cache.updatedAt <= clock + 1
        /\ fetched[c] \in SUBSET Records /\ \A r \in fetched[c] : r.updatedAt <= clock + 1
    BY <1>1 DEF Now, CacheSound, TypeOK, RecordsSound, Sound
  <2>3. \/ cache'.updatedAt = cache.updatedAt
        \/ \E r \in fetched[c] : cache'.updatedAt = Dated(r, now).updatedAt
    BY <1>1, <2>1, <2>2, UpsertManyResult
  <2>4. upstream' = upstream
    BY <1>4 DEF api
  <2>5. ASSUME NEW k \in Keys, upstream[k] # NoRecord, ~Has(cache', k)
        PROVE  upstream[k].updatedAt >= cache'.updatedAt
    <3>1. ~Has(cache, k) /\ ~ \E r \in fetched[c] : r.key = k
      BY <1>4, <2>5, StoreHolds
    <3>2. CASE cache'.updatedAt = cache.updatedAt
      <4>1. CASE cache = EmptyCache
        BY <1>2, <2>4, <2>5, <3>2, <4>1 DEF EmptyCache
      <4>2. CASE cache # EmptyCache
        BY <2>5, <3>1, <3>2, <4>2 DEF NothingSkipped
      <4> QED
        BY <4>1, <4>2
    <3>3. ASSUME NEW r \in fetched[c], cache'.updatedAt = Dated(r, now).updatedAt
          PROVE  upstream[k].updatedAt >= cache'.updatedAt
      <4>1. r.updatedAt > 0 /\ upstream[k].updatedAt >= r.updatedAt
        BY <2>5, <3>1 DEF AnswersComplete
      <4>2. Dated(r, now) = r
        BY <1>1, <2>2, <4>1, DatedRecord
      <4> QED
        BY <3>3, <4>1, <4>2
    <3> QED
      BY <2>3, <3>2, <3>3
  <2> QED
    BY <2>4, <2>5 DEF NothingSkipped, Has
<1>5. ASSUME NEW h \in Handlers, MapChannel(h)
      PROVE  NothingSkipped'
  <2>1. UNCHANGED <<clock, upstream, issued>> /\ CacheKept
    BY <1>5, MapKeeps DEF MapChannel, api
  <2>2. cache'.updatedAt = cache.updatedAt /\ cache # EmptyCache
    <3>1. /\ cache' = UpsertChannelMapping(cache, record[h].key, creating[h].tag, creating[h].owner)
          /\ Has(cache, record[h].key) /\ record[h].key \in Keys
      BY <1>5 DEF MapChannel, RecordsSound, TypeOK, Records
    <3> QED
      BY <1>1, <3>1 DEF UpsertChannelMapping, EmptyCache, Has, Caches
  <2> QED
    BY <2>1, <2>2 DEF NothingSkipped, CacheKept, Has
<1>6. CASE Restart
  BY <1>6 DEF Restart, NothingSkipped
<1>7. ASSUME NEW k \in Keys, Register(k) \/ Redeploy(k)
      PROVE  UNCHANGED cache
  BY <1>7 DEF Register, Redeploy
<1>8. FetchInitial \/ Poll \/ UNCHANGED vars => UNCHANGED cache
  BY DEF FetchInitial, Poll, vars
<1>9. CASE PollApply
  BY <1>4, <1>9 DEF PollApply, Clients
<1>10. ASSUME NEW h \in Handlers, Apply(h)
       PROVE  NothingSkipped'
  BY <1>4, <1>10 DEF Apply, Clients
<1>11. ASSUME NEW h \in Handlers,
              Receive(h) \/ Reject(h) \/ Resend(h) \/ Lookup(h) \/ Fetch(h) \/ FetchFails(h)
       PROVE  UNCHANGED cache
  BY <1>11 DEF Receive, Reject, Resend, Lookup, Fetch, FetchFails
<1>12. ASSUME NEW h \in Handlers,
              \/ Fallback(h) \/ Build(h)
              \/ \E t \in Tags : SkipChannel(h, t) \/ CreateChannel(h, t) \/ CreateFails(h, t)
       PROVE  UNCHANGED cache
  BY <1>12 DEF Fallback, Build, SkipChannel, CreateChannel, CreateFails
<1> QED
  BY <1>3, <1>5, <1>6, <1>7, <1>8, <1>9, <1>10, <1>11, <1>12 DEF Next, HandlerStep

(* With a filled cache, every new answer holds what the cache lacks.       *)
LEMMA FetchedFinds ==
    ASSUME TypeOK, RecordsSound, CacheFilled, NothingSkipped, [Next]_vars
    PROVE  \/ \A c \in Clients : fetched'[c] \in {fetched[c], {}}
           \/ \E c \in Clients : \E S \in SUBSET Known : \E A \in Answers(S) :
                /\ fetched' = [fetched EXCEPT ![c] = A]
                /\ UNCHANGED <<api, cache>>
                /\ \A k \in Keys : upstream[k] # NoRecord => Has(cache, k) \/ \E r \in A : r.key = k
<1> DEFINE Complete(c, A) ==
        /\ \E S \in SUBSET Known : A \in Answers(S)
        /\ fetched' = [fetched EXCEPT ![c] = A]
        /\ UNCHANGED <<api, cache>>
        /\ \A k \in Keys : upstream[k] # NoRecord => Has(cache, k) \/ \E r \in A : r.key = k
      Goal == \/ \A c \in Clients : fetched'[c] \in {fetched[c], {}}
              \/ \E c \in Clients : \E A : Complete(c, A)
<1>1. ASSUME FetchInitial
      PROVE  \E A : Complete(Poller, A)
  <2>1. PICK A \in AllDevices : fetched' = [fetched EXCEPT ![Poller] = A] /\ UNCHANGED <<api, cache>>
    BY <1>1 DEF FetchInitial
  <2>2. \A k \in Keys : upstream[k] # NoRecord => Has(cache, k) \/ \E r \in A : r.key = k
    BY AnswerFinds
  <2>3. A \in Answers(Known)
    BY DEF AllDevices
  <2> QED
    BY <2>1, <2>2, <2>3
<1>2. ASSUME Poll
      PROVE  \E A : Complete(Poller, A)
  <2>0. PICK since \in UpdatedSince :
            /\ \E A \in UpdatedDevices(since) : fetched' = [fetched EXCEPT ![Poller] = A]
            /\ UNCHANGED <<api, cache>>
    BY <1>2 DEF Poll
  <2>1. PICK A \in UpdatedDevices(since) : fetched' = [fetched EXCEPT ![Poller] = A]
    BY <2>0
  <2>2. UpdatesSuffice
    BY <1>2 DEF Poll, CacheFilled, UpdatesSuffice
  <2>3. \A k \in Keys : upstream[k] # NoRecord => Has(cache, k) \/ \E r \in A : r.key = k
    BY <2>2, AnswerFinds
  <2>4. \E S \in SUBSET Known : A \in Answers(S)
    BY DEF UpdatedDevices
  <2> QED
    BY <2>0, <2>1, <2>3, <2>4
<1>3. ASSUME NEW h \in Handlers, Fetch(h)
      PROVE  \E A : Complete(h, A)
  <2>1. /\ pc[h] = "fetch" /\ stage[h] \in {"updated", "full"} /\ UNCHANGED <<api, cache>>
        /\ \E A : /\ fetched' = [fetched EXCEPT ![h] = A]
                  /\ stage[h] = "full" => A \in AllDevices
                  /\ stage[h] = "updated" => \E since \in UpdatedSince : A \in UpdatedDevices(since)
    BY <1>3 DEF Fetch
  <2>2. PICK A : /\ fetched' = [fetched EXCEPT ![h] = A]
                 /\ stage[h] = "full" => A \in AllDevices
                 /\ stage[h] = "updated" => \E since \in UpdatedSince : A \in UpdatedDevices(since)
    BY <2>1
  <2>3. UpdatesSuffice
    <3>1. h \in Active
      BY <2>1 DEF Active
    <3> QED
      BY <3>1 DEF CacheFilled, UpdatesSuffice
  <2>4. \A k \in Keys : upstream[k] # NoRecord => Has(cache, k) \/ \E r \in A : r.key = k
    BY <2>1, <2>2, <2>3, AnswerFinds
  <2>5. \E S \in SUBSET Known : A \in Answers(S)
    BY <2>1, <2>2 DEF UpdatedDevices, AllDevices
  <2> QED
    BY <2>1, <2>2, <2>4, <2>5
<1>4. ASSUME ~ (\A c \in Clients : fetched'[c] \in {fetched[c], {}})
      PROVE  FetchInitial \/ Poll \/ \E h \in Handlers : Fetch(h)
  <2>1. fetched' # fetched
    BY <1>4
  <2>2. ~ \E k \in Keys : Register(k) \/ Redeploy(k)
    BY <2>1 DEF Register, Redeploy
  <2>3. ~ (PollApply \/ Restart)
    BY <1>4 DEF PollApply, Store, Restart, TypeOK
  <2>4. ~ \E h \in Handlers : Apply(h)
    BY <1>4 DEF Apply, Store, TypeOK, Clients
  <2>5. ~ \E h \in Handlers :
            Receive(h) \/ Reject(h) \/ Resend(h) \/ Lookup(h) \/ FetchFails(h) \/ Fallback(h) \/ Build(h)
    BY <2>1 DEF Receive, Reject, Resend, Lookup, FetchFails, Fallback, Build
  <2>6. ~ \E h \in Handlers :
            MapChannel(h) \/ \E t \in Tags : SkipChannel(h, t) \/ CreateChannel(h, t) \/ CreateFails(h, t)
    BY <2>1 DEF MapChannel, SkipChannel, CreateChannel, CreateFails
  <2>7. ~ UNCHANGED vars
    BY <2>1 DEF vars
  <2> QED
    BY <2>2, <2>3, <2>4, <2>5, <2>6, <2>7 DEF Next, HandlerStep
<1> HIDE DEF Complete
<1>5. Goal
  BY <1>1, <1>2, <1>3, <1>4 DEF Clients
<1> QED
  BY <1>5, Zenon DEF Complete

(* Answers on their way stay complete: what the API learns in the meantime *)
(* is later than all they hold.                                            *)
LEMMA AnswersStep ==
    ASSUME TypeOK, RecordsSound, CacheFilled, NothingSkipped, AnswersComplete, [Next]_vars,
           \A k \in Keys : Stamp[k] # "none"
    PROVE  AnswersComplete'
<1>1. ApiGrows /\ FetchedSound /\ clock \in Nat
  BY ApiStep, SoundParts, IngestAssumption DEF TypeOK
<1>2. /\ upstream \in [Keys -> Records \cup {NoRecord}] /\ upstream' \in [Keys -> Records \cup {NoRecord}]
      /\ fetched \in [Clients -> SUBSET Records]
  BY <1>1 DEF TypeOK, ApiGrows
<1>3. CASE Restart
  BY <1>3 DEF Restart, AnswersComplete
<1>4. restarts' = restarts => \A k \in Keys : Has(cache, k) => Has(cache', k)
  BY CacheStep DEF CacheKept
<1>5. ASSUME \A c \in Clients : fetched'[c] \in {fetched[c], {}}, restarts' = restarts
      PROVE  AnswersComplete'
  <2>1. ASSUME NEW c \in Clients, NEW r \in fetched'[c]
        PROVE  /\ r.updatedAt > 0
               /\ \A k \in Keys :
                     \/ upstream'[k] = NoRecord \/ Has(cache', k)
                     \/ \E q \in fetched'[c] : q.key = k
                     \/ upstream'[k].updatedAt >= r.updatedAt
    <3>1. fetched'[c] = fetched[c] /\ r \in fetched[c]
      BY <1>5, <2>1
    <3>2. r.updatedAt \in Nat /\ r.updatedAt > 0 /\ r.updatedAt <= clock
      BY <1>1, <1>2, <3>1 DEF FetchedSound, AnswersComplete, Records
    <3>3. ASSUME NEW k \in Keys, upstream'[k] # NoRecord, ~Has(cache', k), ~ \E q \in fetched[c] : q.key = k
          PROVE  upstream'[k].updatedAt >= r.updatedAt
      <4>1. ~Has(cache, k) /\ upstream'[k].updatedAt \in Nat
        BY <1>2, <1>4, <1>5, <3>3 DEF Records
      <4>2. CASE upstream[k] = NoRecord
        BY <1>1, <3>2, <3>3, <4>1, <4>2 DEF ApiGrows
      <4>3. CASE upstream[k] # NoRecord
        <5>1. upstream[k].updatedAt >= r.updatedAt /\ upstream[k].updatedAt \in Nat
          BY <1>2, <3>1, <3>3, <4>1, <4>3 DEF AnswersComplete, Records
        <5> QED
          BY <1>1, <3>2, <4>1, <4>3, <5>1 DEF ApiGrows
      <4> QED
        BY <4>2, <4>3
    <3> QED
      BY <3>1, <3>2, <3>3
  <2> QED
    BY <2>1 DEF AnswersComplete, Has
<1>6. ASSUME NEW c \in Clients, NEW S \in SUBSET Known, NEW A \in Answers(S),
             fetched' = [fetched EXCEPT ![c] = A], UNCHANGED <<api, cache>>,
             \A k \in Keys : upstream[k] # NoRecord => Has(cache, k) \/ \E r \in A : r.key = k
      PROVE  AnswersComplete'
  <2>1. upstream' = upstream /\ cache' = cache
    BY <1>6 DEF api
  <2>2. \A r \in A : r.updatedAt > 0
    BY AnswerSound
  <2>3. ASSUME NEW d \in Clients, NEW r \in fetched'[d]
        PROVE  /\ r.updatedAt > 0
               /\ \A k \in Keys :
                     \/ upstream'[k] = NoRecord \/ Has(cache', k)
                     \/ \E q \in fetched'[d] : q.key = k
                     \/ upstream'[k].updatedAt >= r.updatedAt
    <3>1. CASE d = c
      BY <1>2, <1>6, <2>1, <2>2, <2>3, <3>1
    <3>2. CASE d # c
      <4>1. fetched'[d] = fetched[d]
        BY <1>2, <1>6, <3>2
      <4> QED
        BY <2>1, <2>3, <4>1 DEF AnswersComplete
    <3> QED
      BY <3>1, <3>2
  <2> QED
    BY <2>3 DEF AnswersComplete, Has
<1>7. CASE \A c \in Clients : fetched'[c] \in {fetched[c], {}}
  <2>1. Restart \/ restarts' = restarts
    <3>1. ASSUME NEW h \in Handlers, HandlerStep(h)
          PROVE  restarts' = restarts
      BY <3>1 DEF HandlerStep, Lookup, Fetch, FetchFails, Apply, Fallback, MapChannel, Build, SkipChannel,
                  CreateChannel, CreateFails
    <3>2. ASSUME NEW h \in Handlers, Receive(h) \/ Reject(h) \/ Resend(h)
          PROVE  restarts' = restarts
      BY <3>2 DEF Receive, Reject, Resend
    <3>3. ASSUME NEW k \in Keys, Register(k) \/ Redeploy(k)
          PROVE  restarts' = restarts
      BY <3>3 DEF Register, Redeploy
    <3>4. FetchInitial \/ Poll \/ PollApply \/ UNCHANGED vars => restarts' = restarts
      BY DEF FetchInitial, Poll, PollApply, vars
    <3> QED
      BY <3>1, <3>2, <3>3, <3>4 DEF Next
  <2> QED
    BY <1>3, <1>5, <1>7, <2>1
<1> QED
  BY <1>6, <1>7, FetchedFinds

(* The cache stays filled from the first store until a restart.            *)
LEMMA FilledStep ==
    ASSUME TypeOK, RecordsSound, SomeKnown, CacheFilled, AnswersComplete, [Next]_vars
    PROVE  CacheFilled'
<1> USE IngestAssumption
<1>1. TypeOK' /\ (restarts' = restarts => CacheKept) /\ cache.updatedAt \in Nat /\ cache'.updatedAt \in Nat
  BY TypeStep, CacheStep DEF TypeOK, Caches
<1>2. ASSUME pc'[Poller] = pc[Poller], fetched'[Poller] = fetched[Poller], restarts' = restarts,
             Active' \subseteq Active \/ pc[Poller] \notin {"load", "loaded"}
      PROVE  CacheFilled'
  <2>1. pc[Poller] \in {"idle", "apply"} => cache'.updatedAt > 0 /\ \E k \in Keys : Has(cache', k)
    BY <1>1, <1>2 DEF CacheFilled, CacheKept
  <2>2. Active' # {} => pc[Poller] \in {"idle", "apply"}
    BY <1>2 DEF CacheFilled, TypeOK
  <2>3. pc[Poller] = "loaded" => fetched'[Poller] # {}
    BY <1>2 DEF CacheFilled
  <2> QED
    BY <1>2, <2>1, <2>2, <2>3 DEF CacheFilled, Has
<1>3. CASE FetchInitial
  <2>1. PICK A \in Answers(Known) : fetched' = [fetched EXCEPT ![Poller] = A]
    BY <1>3 DEF FetchInitial, AllDevices
  <2>2. A # {}
    BY AnswerSound DEF SomeKnown, Known
  <2>3. pc' = [pc EXCEPT ![Poller] = "loaded"] /\ pc[Poller] = "load"
    BY <1>3 DEF FetchInitial, GoTo
  <2>4. Active = {} /\ Active' = {}
    BY <2>3 DEF CacheFilled, Active, TypeOK, Clients
  <2> QED
    BY <2>1, <2>2, <2>3, <2>4 DEF CacheFilled, TypeOK, Clients
<1>4. CASE Poll
  <2>1. pc' = [pc EXCEPT ![Poller] = "apply"] /\ pc[Poller] = "idle" /\ cache' = cache
    BY <1>4 DEF Poll, GoTo
  <2> QED
    BY <2>1 DEF CacheFilled, TypeOK, Clients, Has
<1>5. CASE PollApply
  <2>1. pc' = [pc EXCEPT ![Poller] = "idle"] /\ Store(Poller) /\ restarts' = restarts
    BY <1>5 DEF PollApply, GoTo
  <2>2. CASE pc[Poller] = "apply"
    BY <1>1, <2>1, <2>2 DEF CacheFilled, CacheKept, TypeOK, Clients
  <2>3. CASE pc[Poller] = "loaded"
    <3>1. PICK r \in fetched[Poller] : r.updatedAt > 0
      BY <2>3 DEF CacheFilled, AnswersComplete, Clients
    <3>2. r \in Records /\ r.key \in Keys
      BY DEF TypeOK, Clients, Records
    <3>3. Has(cache', r.key)
      BY <2>1, <3>2, StoreHolds DEF Clients
    <3>4. cache'.updatedAt > 0
      <4>1. PICK now \in Now : cache' = UpsertMany(cache, fetched[Poller], now)
        BY <2>1 DEF Store
      <4>2. clock \in Nat /\ now \in 0..(clock + 1) /\ cache.updatedAt <= clock + 1 /\ cache \in Caches
        BY DEF TypeOK, Now, RecordsSound
      <4>3. fetched[Poller] \in SUBSET Records /\ \A q \in fetched[Poller] : q.updatedAt <= clock + 1
        BY DEF TypeOK, RecordsSound, Sound, Clients
      <4>4. \A q \in fetched[Poller] : cache'.updatedAt >= Dated(q, now).updatedAt
        BY <4>1, <4>2, <4>3, UpsertManyResult
      <4>5. Dated(r, now) = r
        BY <3>1, <3>2, <4>2, DatedRecord
      <4>6. cache'.updatedAt >= r.updatedAt /\ r.updatedAt \in Nat
        BY <3>2, <4>4, <4>5 DEF Records
      <4> QED
        BY <1>1, <3>1, <4>6
    <3> QED
      BY <2>1, <3>2, <3>3, <3>4 DEF CacheFilled, TypeOK, Clients, Has
  <2> QED
    BY <1>5, <2>2, <2>3 DEF PollApply
<1>6. CASE Restart
  <2>1. pc'[Poller] = "load" /\ \A h \in Handlers : pc'[h] \in {"idle", "rejected", "done", "cut"}
    BY <1>6 DEF Restart, Clients
  <2>2. Active' = {}
    BY <2>1 DEF Active
  <2> QED
    BY <2>1, <2>2 DEF CacheFilled
<1>7. ASSUME NEW k \in Keys, Register(k) \/ Redeploy(k)
      PROVE  CacheFilled'
  BY <1>2, <1>7 DEF Register, Redeploy, Active
<1>8. CASE UNCHANGED vars
  BY <1>2, <1>8 DEF vars, Active
<1>9. ASSUME NEW h \in Handlers, Receive(h) \/ Resend(h)
      PROVE  CacheFilled'
  BY <1>2, <1>9 DEF Receive, Resend, GoTo, TypeOK, Clients
<1>10. ASSUME NEW h \in Handlers, pc[h] \notin {"done", "rejected", "cut"}, restarts' = restarts,
              NEW point, pc' = [pc EXCEPT ![h] = point],
              fetched'[Poller] = fetched[Poller],
              pc[h] = "idle" => point = "rejected"
       PROVE  CacheFilled'
  <2>1. Active' \subseteq Active
    BY <1>10 DEF Active, TypeOK, Clients
  <2> QED
    BY <1>2, <1>10, <2>1 DEF TypeOK, Clients
<1>11. ASSUME NEW h \in Handlers, Reject(h)
       PROVE  CacheFilled'
  BY <1>10, <1>11 DEF Reject, End, GoTo
<1>12. ASSUME NEW h \in Handlers, FetchFails(h) \/ Build(h) \/ \E t \in Tags : CreateFails(h, t)
       PROVE  CacheFilled'
  BY <1>10, <1>12 DEF FetchFails, Build, CreateFails, Answer, End, GoTo
<1>13. ASSUME NEW h \in Handlers, Lookup(h) \/ Fallback(h)
       PROVE  CacheFilled'
  BY <1>10, <1>13 DEF Lookup, Fallback, Found, Refresh, Answer, End, GoTo
<1>14. ASSUME NEW h \in Handlers, Fetch(h) \/ Apply(h)
       PROVE  CacheFilled'
  <2>1. /\ pc[h] \in {"fetch", "apply"} /\ restarts' = restarts
        /\ \E point : pc' = [pc EXCEPT ![h] = point]
    BY <1>14 DEF Fetch, Apply, GoTo
  <2>2. fetched'[Poller] = fetched[Poller]
    BY <1>14 DEF Fetch, Apply, Store, TypeOK, Clients
  <2> QED
    BY <1>10, <2>1, <2>2
<1>15. ASSUME NEW h \in Handlers, MapChannel(h) \/ \E t \in Tags : CreateChannel(h, t)
       PROVE  CacheFilled'
  BY <1>10, <1>15 DEF MapChannel, CreateChannel, GoTo
<1>16. ASSUME NEW h \in Handlers, NEW t \in Tags, SkipChannel(h, t)
       PROVE  CacheFilled'
  BY <1>2, <1>16 DEF SkipChannel, Active
<1> QED
  BY <1>3, <1>4, <1>5, <1>6, <1>7, <1>8, <1>9, <1>11, <1>12, <1>13, <1>14, <1>15, <1>16 DEF Next, HandlerStep

(* A handler's record is of its own device, if that was known.             *)
RecordRight(h) == record[h] # NoRecord /\ known[h] => record[h].key = request[h].key

(* A handler's record stays one of its own device.                         *)
LEMMA RecordRightStep ==
    ASSUME TypeOK, RecordsSound, [Next]_vars, NEW h \in Handlers, Listed(h, {"updated", "full"}), RecordRight(h)
    PROVE  RecordRight(h)'
<1>1. request[h].key \in Keys /\ TypeOK'
  BY TypeStep DEF TypeOK
<1>2. ASSUME pc'[h] \notin {"ensure", "map"}
      PROVE  RecordRight(h)'
  <2>1. record'[h] = NoRecord
    BY <1>1, <1>2 DEF TypeOK
  <2> QED
    BY <2>1 DEF RecordRight
<1>3. ASSUME UNCHANGED <<request, known>>,
             record'[h] # NoRecord => record[h] # NoRecord /\ record'[h].key = record[h].key
      PROVE  RecordRight(h)'
  BY <1>3 DEF RecordRight
<1>4. ASSUME NEW g \in Handlers, MapChannel(g)
      PROVE  RecordRight(h)'
  <2>1. UNCHANGED <<request, known>>
    BY <1>4 DEF MapChannel
  <2> QED
    BY <1>3, <1>4, <2>1, MapFits
<1>5. CASE Undisturbed(h) /\ record'[h] = record[h]
  BY <1>5 DEF Undisturbed, RecordRight
<1>6. CASE Restart
  BY <1>2, <1>6 DEF Restart, Clients
<1>7. CASE Receive(h) \/ Reject(h) \/ Resend(h) \/ Fetch(h) \/ FetchFails(h) \/ Apply(h)
  BY <1>2, <1>7 DEF Receive, Reject, Resend, Fetch, FetchFails, Apply, Answer, End, GoTo, TypeOK, Clients
<1>8. CASE Build(h) \/ \E t \in Tags : CreateFails(h, t)
  BY <1>2, <1>8 DEF Build, CreateFails, Answer, End, GoTo, TypeOK, Clients
<1>9. CASE \E t \in Tags : SkipChannel(h, t) \/ CreateChannel(h, t)
  BY <1>3, <1>9 DEF SkipChannel, CreateChannel
<1>10. CASE Lookup(h)
  <2>1. CASE Has(cache, request[h].key) /\ Found(h, cache.byKey[request[h].key])
    <3>1. record'[h].key = request[h].key /\ request' = request
      BY <1>1, <1>10, <2>1 DEF Lookup, Found, RecordsSound, TypeOK
    <3> QED
      BY <3>1 DEF RecordRight
  <2>2. CASE pc'[h] \in {"fetch", "fallback"}
    BY <1>2, <2>2
  <2> QED
    BY <1>10, <2>1, <2>2 DEF Lookup, Refresh, GoTo, TypeOK, Clients
<1>11. CASE Fallback(h)
  <2>1. ~known[h] /\ known' = known
    BY <1>11 DEF Fallback, Listed, TypeOK
  <2> QED
    BY <2>1 DEF RecordRight
<1>12. ASSUME NEW g \in Handlers \ {h},
              Receive(g) \/ Reject(g) \/ Resend(g) \/ Lookup(g) \/ Fetch(g) \/ FetchFails(g) \/ Apply(g)
       PROVE  record'[h] = record[h]
  BY <1>12 DEF Receive, Reject, Resend, Lookup, Fetch, FetchFails, Apply, Found, Refresh, Answer, End, handlers, TypeOK
<1>13. ASSUME NEW g \in Handlers \ {h},
              \/ Fallback(g) \/ Build(g)
              \/ \E t \in Tags : SkipChannel(g, t) \/ CreateChannel(g, t) \/ CreateFails(g, t)
       PROVE  record'[h] = record[h]
  BY <1>13 DEF Fallback, Build, SkipChannel, CreateChannel, CreateFails, Found, Refresh, Answer, End, TypeOK
<1>14. ASSUME NEW k \in Keys, Register(k) \/ Redeploy(k)
       PROVE  record' = record
  BY <1>14 DEF Register, Redeploy, handlers
<1>15. FetchInitial \/ Poll \/ PollApply \/ UNCHANGED vars => record' = record
  BY DEF FetchInitial, Poll, PollApply, handlers, vars
<1>16. \/ record'[h] = record[h] \/ Restart \/ \E g \in Handlers : MapChannel(g)
       \/ Receive(h) \/ Reject(h) \/ Resend(h) \/ HandlerStep(h)
  BY <1>12, <1>13, <1>14, <1>15 DEF Next, HandlerStep
<1> QED
  BY <1>4, <1>5, <1>6, <1>7, <1>8, <1>9, <1>10, <1>11, <1>16, StepsOfOthers DEF HandlerStep

(* Who has sent a sample does not start over.                              *)
SendersBusy == \A s \in samples : pc[s.by] # "idle"

(* A handler that has sent a sample stays busy.                            *)
LEMMA BusyStep ==
    ASSUME TypeOK, RecordsSound, SendersBusy, [Next]_vars
    PROVE  SendersBusy'
<1>1. ASSUME NEW h \in Handlers, pc[h] # "idle"
      PROVE  pc'[h] # "idle"
  <2>1. CASE Restart
    BY <1>1, <2>1 DEF Restart, Clients
  <2>2. CASE Undisturbed(h)
    BY <1>1, <2>2 DEF Undisturbed
  <2>3. CASE Receive(h) \/ Reject(h) \/ Resend(h)
    BY <1>1, <2>3 DEF Receive, Reject, Resend, End, GoTo, TypeOK, Clients
  <2>4. CASE Lookup(h) \/ Fetch(h) \/ FetchFails(h) \/ Apply(h) \/ Fallback(h)
    BY <2>4 DEF Lookup, Fetch, FetchFails, Apply, Fallback, Found, Refresh, Answer, End, GoTo, TypeOK, Clients
  <2>5. CASE \/ MapChannel(h) \/ Build(h)
             \/ \E t \in Tags : CreateChannel(h, t) \/ CreateFails(h, t) \/ SkipChannel(h, t)
    BY <1>1, <2>5 DEF MapChannel, Build, CreateChannel, CreateFails, SkipChannel, Answer, End, GoTo, TypeOK, Clients
  <2> QED
    BY <2>1, <2>2, <2>3, <2>4, <2>5, StepsOfOthers DEF HandlerStep
<1>2. \A s \in samples : s.by \in Handlers
  BY DEF TypeOK
<1>3. CASE samples' = samples
  BY <1>1, <1>2, <1>3 DEF SendersBusy
<1>4. ASSUME NEW h \in Handlers, pc' = [pc EXCEPT ![h] = "done"],
             \A s \in samples' : s \in samples \/ s.by = h
      PROVE  SendersBusy'
  BY <1>1, <1>2, <1>4 DEF SendersBusy, TypeOK, Clients
<1> QED
  BY <1>3, <1>4, SamplesChange

-----------------------------------------------------------------------------

(* Every step keeps what the invariants rest on.                           *)
LEMMA InvStep ==
    ASSUME IInv, [Next]_vars
    PROVE  IInv'
<1>1. TypeOK /\ RecordsSound /\ FoundInFullList /\ (Registered # {} => SomeKnown)
  BY DEF IInv, SomeKnown
<1>2. TypeOK' /\ RecordsSound' /\ FoundInFullList' /\ (Registered # {} => SomeKnown')
  BY <1>1, TypeStep, FoundStep, SomeStaysKnown
<1>3. ASSUME Stamped
      PROVE  CacheFilled' /\ NothingSkipped' /\ AnswersComplete' /\ Served'
  <2>1. /\ CacheFilled /\ NothingSkipped /\ AnswersComplete /\ Served
        /\ SomeKnown /\ \A k \in Keys : Stamp[k] # "none"
    BY <1>1, <1>3 DEF IInv, Stamped
  <2>2. CacheFilled' /\ NothingSkipped' /\ AnswersComplete'
    BY <1>1, <2>1, FilledStep, NothingSkippedStep, AnswersStep
  <2>3. ASSUME NEW h \in Handlers
        PROVE  Listed(h, {"updated", "full"})' /\ RecordRight(h)'
    <3>1. Listed(h, {"updated", "full"}) /\ RecordRight(h)
      BY <2>1 DEF Served, RecordRight
    <3>2. pc[h] = "fetch" => UpdatesSuffice
      BY <2>1 DEF CacheFilled, Active, UpdatesSuffice
    <3> QED
      BY <1>1, <3>1, <3>2, ListedStep, RecordRightStep
  <2>4. SendersBusy'
    BY <1>1, <2>1, BusyStep DEF Served, SendersBusy
  <2>5. Served'
    BY <2>3, <2>4 DEF Served, RecordRight, SendersBusy, Listed
  <2> QED
    BY <2>2, <2>5
<1> QED
  BY <1>2, <1>3 DEF IInv, SomeKnown, Stamped

(* "Not found" is answered only for a device that the API did not know     *)
(* when the request came in, however the API dates its records and         *)
(* whatever fails in between.                                              *)
THEOREM NotFoundIsTrue == Spec => []NotFoundOnlyIfUnknown
<1>1. Init => IInv /\ NotFoundOnlyIfUnknown
  BY Initially DEF Init, NotFoundOnlyIfUnknown
<1>2. ASSUME IInv, NotFoundOnlyIfUnknown, [Next]_vars
      PROVE  (IInv /\ NotFoundOnlyIfUnknown)'
  <2>1. TypeOK /\ FoundInFullList /\ IInv'
    BY <1>2, InvStep DEF IInv
  <2>2. ASSUME NEW h \in Handlers, reply'[h] = 503
        PROVE  ~known'[h]
    <3>1. CASE reply'[h] = reply[h] /\ known'[h] = known[h]
      BY <1>2, <2>2, <3>1 DEF NotFoundOnlyIfUnknown
    <3>2. CASE Receive(h) \/ Reject(h) \/ Resend(h)
      <4>1. reply'[h] \in {0, 400, 404}
        BY <2>1, <3>2 DEF Receive, Reject, Resend, TypeOK
      <4> QED
        BY <2>2, <4>1
    <3>3. CASE Fallback(h)
      <4>1. known' = known /\ (reply' = reply \/ (stage[h] = "full" /\ pc[h] = "fallback"))
        BY <3>3 DEF Fallback, Found, Refresh
      <4>2. CASE stage[h] = "full" /\ pc[h] = "fallback"
        BY <2>1, <4>1, <4>2 DEF FoundInFullList, Listed
      <4> QED
        BY <3>1, <4>1, <4>2
    <3>4. CASE FetchFails(h) \/ Build(h) \/ \E t \in Tags : CreateFails(h, t)
      BY <2>1, <2>2, <3>4 DEF FetchFails, Build, CreateFails, Answer, TypeOK
    <3>5. CASE Lookup(h) \/ Fetch(h) \/ Apply(h)
      BY <3>1, <3>5 DEF Lookup, Fetch, Apply, Found, Refresh, handlers
    <3>6. CASE MapChannel(h) \/ \E t \in Tags : SkipChannel(h, t) \/ CreateChannel(h, t)
      BY <3>1, <3>6 DEF MapChannel, SkipChannel, CreateChannel
    <3>7. CASE Undisturbed(h) \/ Restart
      BY <3>1, <3>7 DEF Undisturbed, Restart
    <3> QED
      BY <1>2, <2>1, <3>2, <3>3, <3>4, <3>5, <3>6, <3>7, StepsOfOthers DEF HandlerStep
  <2> QED
    BY <2>1, <2>2 DEF NotFoundOnlyIfUnknown
<1> QED
  BY <1>1, <1>2, PTL DEF Spec

(* With an API that dates its records, no device is left behind the        *)
(* cursor: asking for what changed since then finds it.                    *)
THEOREM CursorIsSafe ==
    ASSUME Stamped
    PROVE  Spec => []NothingSkipped
<1>1. IInv => NothingSkipped
  BY DEF IInv
<1>2. IInv /\ [Next]_vars => IInv'
  BY InvStep
<1> QED
  BY <1>1, <1>2, Initially, PTL DEF Spec

(* With an API that dates its records, the fallback by maker and serial    *)
(* never sends the telemetry of a registered device to another.            *)
THEOREM NeverMisrouted ==
    ASSUME Stamped
    PROVE  Spec => []RightDevice
<1>1. Init => IInv /\ RightDevice
  BY Initially DEF Init, RightDevice
<1>2. ASSUME IInv, RightDevice, [Next]_vars
      PROVE  (IInv /\ RightDevice)'
  <2>1. IInv' /\ TypeOK /\ RecordsSound /\ Served
    BY <1>2, InvStep DEF IInv
  <2>2. ASSUME NEW h \in Handlers, pc[h] # "idle"
        PROVE  request'[h] = request[h]
    <3>1. CASE Undisturbed(h) \/ Restart
      BY <3>1 DEF Undisturbed, Restart
    <3>2. CASE Receive(h) \/ Reject(h) \/ Resend(h)
      BY <2>2, <3>2 DEF Receive, Reject, Resend
    <3>3. CASE HandlerStep(h)
      BY <3>3 DEF HandlerStep, Lookup, Fetch, FetchFails, Apply, Fallback, MapChannel, Build, SkipChannel,
                  CreateChannel, CreateFails, handlers
    <3> QED
      BY <1>2, <2>1, <3>1, <3>2, <3>3, StepsOfOthers
  <2>3. ASSUME NEW s \in samples
        PROVE  s.deployment.key = request'[s.by].key \/ ~s.known
    <3>1. s.by \in Handlers /\ pc[s.by] # "idle"
      BY <2>1 DEF TypeOK, Served
    <3> QED
      BY <1>2, <2>2, <3>1 DEF RightDevice
  <2>4. ASSUME NEW h \in Handlers, pc[h] = "ensure"
        PROVE  record[h].deployment.key = request[h].key \/ ~known[h]
    BY <2>1, <2>4 DEF TypeOK, RecordsSound, Sound, Served
  <2>5. CASE samples' = samples
    BY <2>1, <2>3, <2>5 DEF RightDevice
  <2>6. ASSUME NEW h \in Handlers, pc[h] = "ensure", UNCHANGED request,
               NEW S,
               samples' = samples \cup {[by |-> h, known |-> known[h], deployment |-> record[h].deployment,
                                         channels |-> S]}
        PROVE  RightDevice'
    BY <2>3, <2>4, <2>6 DEF RightDevice
  <2> QED
    BY <1>2, <2>1, <2>5, <2>6, SamplesChange
<1> QED
  BY <1>1, <1>2, PTL DEF Spec

(* Every part of the inductive invariant holds in every instance: types,   *)
(* sound records, the full list that finds what is known, and, if the API  *)
(* dates its records, cache and answers without gaps.                      *)
THEOREM ServiceInvariant == Spec => []IInv
<1>1. IInv /\ [Next]_vars => IInv'
  BY InvStep
<1> QED
  BY <1>1, Initially, PTL DEF Spec

-----------------------------------------------------------------------------

(* The poller alone.                                                       *)

(* The answer on its way to the poller has the current deployment of the   *)
(* device, or the cache has it and the answer has no other.                *)
Covered(k) ==
    /\ \A r \in fetched[Poller] : r.key = k => r.deployment = upstream[k].deployment
    /\ Fresh(k) \/ \E r \in fetched[Poller] : r.key = k

(* The device changed no earlier than the cursor will be.                  *)
Due(k) ==
    /\ upstream[k].updatedAt >= cache.updatedAt
    /\ \A r \in fetched[Poller] : upstream[k].updatedAt >= r.updatedAt

(* What the poller's answer lacks, or has of a former deployment, is asked *)
(* for by the next poll.                                                   *)
AnswerUpToDate ==
    pc[Poller] \in {"loaded", "apply"} =>
        \A k \in Keys : upstream[k] # NoRecord => Due(k) \/ Covered(k)

(* A change of the API is later than all that was answered before.         *)
LEMMA ChangeIsDue ==
    ASSUME TypeOK, RecordsSound, NothingStale, AnswerUpToDate,
           NEW k \in Keys, Register(k) \/ Redeploy(k)
    PROVE  NothingStale' /\ AnswerUpToDate'
<1>1. /\ upstream' = [upstream EXCEPT ![k] = FirstRecord(k, clock + 1)]
      /\ UNCHANGED <<cache, pc, fetched>>
  BY DEF Register, Redeploy
<1>2. clock \in Nat /\ FirstRecord(k, clock + 1).updatedAt = clock + 1
  BY FirstRecordSound DEF TypeOK
<1> DEFINE new == FirstRecord(k, clock + 1)
<1> HIDE DEF new
<1>3. /\ upstream'[k] = new /\ new.updatedAt = clock + 1
      /\ \A j \in Keys \ {k} : upstream'[j] = upstream[j]
  BY <1>1, <1>2 DEF new, TypeOK
<1>4. /\ cache.updatedAt \in Nat /\ cache.updatedAt <= clock + 1
      /\ \A r \in fetched[Poller] : r.updatedAt \in Nat /\ r.updatedAt <= clock
  BY DEF TypeOK, RecordsSound, Caches, Clients, Records
<1>5. upstream'[k].updatedAt >= cache'.updatedAt
  BY <1>1, <1>3, <1>4
<1>6. \A r \in fetched'[Poller] : upstream'[k].updatedAt >= r.updatedAt
  BY <1>1, <1>2, <1>3, <1>4
<1>7. NothingStale'
  BY <1>1, <1>3, <1>5 DEF NothingStale, Fresh, Has
<1>8. AnswerUpToDate'
  BY <1>1, <1>3, <1>5, <1>6 DEF AnswerUpToDate, Due, Covered, Fresh, Has
<1> QED
  BY <1>7, <1>8

(* An answer brings every device that the cache does not have as it is.    *)
LEMMA AnswerCovers ==
    ASSUME TypeOK, RecordsSound, NEW S \in SUBSET Known, NEW A \in Answers(S),
           UNCHANGED <<upstream, cache>>, fetched'[Poller] = A,
           \A k \in Keys : upstream[k] # NoRecord => upstream[k] \in S \/ Fresh(k)
    PROVE  AnswerUpToDate'
<1>1. A = {Decoded(r) : r \in S}
  BY AnswerIsList
<1>2. \A r \in S : /\ r \in Records /\ r.key \in Keys /\ upstream[r.key] = r
                   /\ Decoded(r).key = r.key /\ Decoded(r).deployment = r.deployment
  BY DecodedRecord DEF Known, TypeOK, RecordsSound
<1>3. ASSUME NEW k \in Keys, upstream[k] # NoRecord
      PROVE  Covered(k)'
  <2>1. \A r \in A : r.key = k => r.deployment = upstream[k].deployment
    BY <1>1, <1>2
  <2>2. CASE upstream[k] \in S
    <3>1. Decoded(upstream[k]) \in A /\ Decoded(upstream[k]).key = k
      BY <1>1, <1>2, <1>3, <2>2 DEF RecordsSound
    <3> QED
      BY <2>1, <3>1 DEF Covered
  <2>3. CASE Fresh(k)
    BY <2>1, <2>3 DEF Covered, Fresh, Has
  <2> QED
    BY <1>3, <2>2, <2>3
<1> QED
  BY <1>3 DEF AnswerUpToDate

(* Storing such an answer leaves nothing behind the cursor.                *)
LEMMA StoreLeavesNothingStale ==
    ASSUME TypeOK, RecordsSound, NothingStale, AnswersComplete, AnswerUpToDate, PollApply
    PROVE  NothingStale'
<1>1. /\ upstream' = upstream
      /\ pc[Poller] \in {"loaded", "apply"}
      /\ \E now \in Now : cache' = UpsertMany(cache, fetched[Poller], now)
  BY DEF PollApply, Store, api
<1>2. PICK now \in Now : cache' = UpsertMany(cache, fetched[Poller], now)
  BY <1>1
<1>3. /\ clock \in Nat /\ now \in 0..(clock + 1)
      /\ cache \in Caches /\ cache.updatedAt <= clock + 1
      /\ fetched[Poller] \in SUBSET Records /\ \A r \in fetched[Poller] : r.updatedAt <= clock + 1
  BY DEF TypeOK, RecordsSound, Sound, Now, Clients
<1>4. /\ \/ cache'.updatedAt = cache.updatedAt
         \/ \E r \in fetched[Poller] : cache'.updatedAt = Dated(r, now).updatedAt
      /\ \A k \in Keys :
            \/ cache'.byKey[k] = cache.byKey[k] /\ \A r \in fetched[Poller] : r.key # k
            \/ \E r \in fetched[Poller] : r.key = k /\ cache'.byKey[k] = Dated(r, now)
  BY <1>2, <1>3, UpsertManyResult, clock + 1 \in Nat
<1>5. \A r \in fetched[Poller] : Dated(r, now) = r /\ r # NoRecord
  BY <1>3, DatedRecord, NullsAssumption DEF AnswersComplete, Clients
<1>6. ASSUME NEW k \in Keys, upstream[k] # NoRecord
      PROVE  Fresh(k)' \/ upstream[k].updatedAt >= cache'.updatedAt
  <2>1. CASE Due(k)
    BY <1>4, <1>5, <2>1 DEF Due
  <2>2. CASE Covered(k)
    <3>1. CASE cache'.byKey[k] = cache.byKey[k] /\ \A r \in fetched[Poller] : r.key # k
      BY <1>1, <2>2, <3>1 DEF Covered, Fresh, Has
    <3>2. ASSUME NEW r \in fetched[Poller], r.key = k, cache'.byKey[k] = Dated(r, now)
          PROVE  Fresh(k)'
      BY <1>1, <1>5, <2>2, <3>2 DEF Covered, Fresh, Has
    <3> QED
      BY <1>4, <3>1, <3>2
  <2> QED
    BY <1>1, <1>6, <2>1, <2>2 DEF AnswerUpToDate
<1> QED
  BY <1>1, <1>6 DEF NothingStale, Fresh, Has

(* The poller alone keeps the cache up to date but for what the next poll  *)
(* asks for, with an API that dates its records and restarts at any time.  *)
THEOREM StaleIsDue ==
    ASSUME Stamped, Handlers = {}
    PROVE  Spec => []NothingStale
<1> USE IngestAssumption
<1>1. Init => IInv /\ NothingStale /\ AnswerUpToDate
  BY Initially DEF Init, NothingStale, AnswerUpToDate, Clients
<1>2. ASSUME IInv, NothingStale, AnswerUpToDate, [Next]_vars
      PROVE  (IInv /\ NothingStale /\ AnswerUpToDate)'
  <2>1. IInv' /\ TypeOK /\ RecordsSound /\ CacheFilled /\ AnswersComplete
    BY <1>2, InvStep DEF IInv
  <2>2. ASSUME NEW k \in Keys, Register(k) \/ Redeploy(k)
        PROVE  NothingStale' /\ AnswerUpToDate'
    BY <1>2, <2>1, <2>2, ChangeIsDue
  <2>3. CASE FetchInitial
    <3>1. PICK A \in Answers(Known) : fetched' = [fetched EXCEPT ![Poller] = A]
      BY <2>3 DEF FetchInitial, AllDevices
    <3>2. UNCHANGED <<upstream, cache>> /\ fetched'[Poller] = A
      BY <2>1, <2>3, <3>1 DEF FetchInitial, api, TypeOK, Clients
    <3>3. \A k \in Keys : upstream[k] # NoRecord => upstream[k] \in Known
      BY DEF Known
    <3>4. AnswerUpToDate'
      BY <2>1, <3>2, <3>3, AnswerCovers
    <3> QED
      BY <1>2, <2>1, <3>2, <3>4 DEF NothingStale, Fresh, Has
  <2>4. CASE Poll
    <3>1. cache.updatedAt > 0 /\ cache # EmptyCache /\ cache.updatedAt \in Nat
      BY <2>1, <2>4 DEF Poll, CacheFilled, EmptyCache, TypeOK, Caches
    <3>0. PICK since \in UpdatedSince :
              \E A \in UpdatedDevices(since) : fetched' = [fetched EXCEPT ![Poller] = A]
      BY <2>4 DEF Poll
    <3> DEFINE S == {r \in Known : r.updatedAt >= since}
    <3>2. PICK A \in Answers(S) : fetched' = [fetched EXCEPT ![Poller] = A]
      BY <3>0 DEF UpdatedDevices
    <3>3. UNCHANGED <<upstream, cache>> /\ fetched'[Poller] = A
      BY <2>1, <2>4, <3>2 DEF Poll, api, TypeOK, Clients
    <3>4. \A k \in Keys : upstream[k] # NoRecord => upstream[k] \in S \/ Fresh(k)
      <4>1. since \in Int /\ since <= cache.updatedAt
        BY <2>1, <3>1, SinceTheCursor
      <4>2. \A k \in Keys : upstream[k] # NoRecord => upstream[k].updatedAt \in Nat
        BY <2>1 DEF TypeOK, Records
      <4> QED
        BY <1>2, <3>1, <4>1, <4>2 DEF NothingStale, Known
    <3>5. AnswerUpToDate'
      BY <2>1, <3>3, <3>4, AnswerCovers
    <3> QED
      BY <1>2, <2>1, <3>3, <3>5 DEF NothingStale, Fresh, Has
  <2>5. CASE PollApply
    <3>1. NothingStale'
      BY <1>2, <2>1, <2>5, StoreLeavesNothingStale
    <3>2. AnswerUpToDate'
      BY <2>1, <2>5 DEF PollApply, GoTo, AnswerUpToDate, TypeOK, Clients
    <3> QED
      BY <2>1, <3>1, <3>2
  <2>6. CASE Restart
    BY <2>1, <2>6 DEF Restart, NothingStale, AnswerUpToDate, Clients
  <2>7. CASE UNCHANGED vars
    BY <1>2, <2>1, <2>7 DEF vars, api, NothingStale, AnswerUpToDate, Due, Covered, Fresh, Has
  <2> QED
    BY <1>2, <2>1, <2>2, <2>3, <2>4, <2>5, <2>6, <2>7 DEF Next
<1> QED
  BY <1>1, <1>2, PTL DEF Spec

=============================================================================
