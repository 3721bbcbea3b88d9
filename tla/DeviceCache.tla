---------------------------- MODULE DeviceCache ----------------------------
(***************************************************************************)
(* internal/cache/device_cache.go: the map from device keys to records     *)
(* that the poller and the request handlers share.  The operators return   *)
(* the new value of the cache; each is one critical section of c.mu.       *)
(*                                                                         *)
(* A key stands for (manufacturer, model, serial) after key() normalised   *)
(* them, so spelling does not matter here.  A channel id is known by the   *)
(* deployment that owns it and its tag; a record maps each tag to the      *)
(* deployment that owns the channel, or to NoChannel.                      *)
(***************************************************************************)
EXTENDS Integers, FiniteSets

CONSTANTS
    Keys,        \* device keys
    Maker,       \* function on Keys: the manufacturer and serial in the key
    Tags,        \* normalised channel tags
    NoRecord,    \* not in the map
    NoChannel    \* no mapping for the tag

ASSUME MakerAssumption == DOMAIN Maker = Keys

(* A deployment of device key is known by the time it was made.            *)
Deployments == [key : Keys, since : Nat]

Records == [key : Keys,                 \* Manufacturer, Model, Serial
            deployment : Deployments,   \* DeploymentID
            channels : [Tags -> Deployments \cup {NoChannel}],
            updatedAt : Nat]            \* UpdatedAt, 0 is the zero time

(* What stands for a missing record or channel is none.                    *)
ASSUME NullsAssumption == NoRecord \notin Records /\ NoChannel \notin Deployments

Caches == [byKey : [Keys -> Records \cup {NoRecord}], updatedAt : Nat]

(* NewDeviceCache                                                          *)
EmptyCache == [byKey |-> [k \in Keys |-> NoRecord], updatedAt |-> 0]

Later(a, b) == IF b > a THEN b ELSE a

(* UpsertMany's treatment of a record without a time stamp.                *)
Dated(r, now) == IF r.updatedAt = 0 THEN [r EXCEPT !.updatedAt = now] ELSE r

(* Mutant: UpsertMany moves the cursor to the time of the call.            *)
CursorAtNow(c, records, now) == now

(* Mutant: the cursor is the latest time stamp of the last answer.         *)
CursorOfAnswer(c, records, now) ==
    CHOOSE t \in {0} \cup {Dated(r, now).updatedAt : r \in records} :
        \A r \in records : t >= Dated(r, now).updatedAt

(* The last After comparison that succeeds leaves the latest time stamp.   *)
Cursor(c, records, now) ==
    CHOOSE t \in {c.updatedAt} \cup {Dated(r, now).updatedAt : r \in records} :
        /\ t >= c.updatedAt
        /\ \A r \in records : t >= Dated(r, now).updatedAt

(* Mutant: a record is kept only if its time stamp is later than the       *)
(* cursor, which a missing one never is.                                   *)
UpsertNewerOnly(c, records, now) ==
    [byKey |-> [k \in Keys |->
        IF \E r \in records : r.key = k /\ r.updatedAt > c.updatedAt
        THEN CHOOSE r \in records : r.key = k
        ELSE c.byKey[k]],
     updatedAt |-> Cursor(c, records, now)]

(* UpsertMany, for records with distinct keys: each replaces what the map  *)
(* holds for its key, whatever its age.                                    *)
UpsertMany(c, records, now) ==
    [byKey |-> [k \in Keys |->
        IF \E r \in records : r.key = k
        THEN Dated(CHOOSE r \in records : r.key = k, now)
        ELSE c.byKey[k]],
     updatedAt |-> Cursor(c, records, now)]

(* Lookup, its second result.                                              *)
Has(c, k) == c.byKey[k] # NoRecord

(* FindByManufacturerAndSerial                                             *)
FindByManufacturerAndSerial(c, maker) ==
    {c.byKey[k] : k \in {j \in Keys : Has(c, j) /\ Maker[j] = maker}}

(* ResolveChannelIDByTag                                                   *)
Resolves(r, tag) == r.channels[tag] # NoChannel

(* UpsertChannelMapping, for a key in the map: the mapping replaces one    *)
(* for the same tag or is appended.  The record's deployment is not        *)
(* compared with the one the channel was created for.                      *)
UpsertChannelMapping(c, k, tag, owner) ==
    [c EXCEPT !.byKey[k].channels[tag] = owner]

=============================================================================
