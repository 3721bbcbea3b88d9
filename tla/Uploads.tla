------------------------------ MODULE Uploads ------------------------------
(***************************************************************************)
(* One device that uploads payloads one after the other: how Handle parses *)
(* them, makes sure of their channels and builds the sample.  The device   *)
(* is in the cache and nobody else changes its record; IngestService has   *)
(* what happens between a cache miss, concurrent handlers and the poller.  *)
(***************************************************************************)
EXTENDS Parsers, FiniteSets

CONSTANTS
    MaxUploads,   \* bound of the model
    Payloads(_)   \* payloads that a parser is given

(* The width of an integer, scaled down from 64 to 16 bits.                *)
Int64 == {seconds \in Int : -32768 <= seconds /\ seconds < 32768}
Uint64(seconds) == seconds % 65536

(* Of the payloads it is only assumed that the time is an integer of the   *)
(* program, that the channels are listed, and that a WebSensor's values    *)
(* are of one of the classes.                                              *)
ASSUME UploadsAssumption ==
    /\ MaxUploads \in Nat
    /\ \A f \in Formats : \A p \in Payloads(f) :
          /\ p.time \in Int64
          /\ p.channels \in Seq(Range(p.channels))
          /\ f = "WebSensor" => \A i \in DOMAIN p.channels : p.channels[i].value \in HexValues

VARIABLES
    pc,        \* where Handle is
    format,    \* of the device's payloads: its parser, or "other" without one
    payload,   \* body of the request
    parsed,    \* local of Handle, and of Parse before; without the channels
    measured,  \* parsed.ChannelMeasurements: name, and position of the value
    next,      \* channel or measurement to which a loop has come
    mappings,  \* record.ChannelMappings, as in the cache
    channels,  \* channels of the deployment in the API
    sample,    \* the sample enqueued
    reply,     \* how the request is answered
    uploads    \* number of requests

request == <<format, payload>>   \* the format never changes
device  == <<mappings, channels>>
locals  == <<parsed, measured>>
vars    == <<pc, request, locals, next, device, sample, reply, uploads>>

Nothing  == [header |-> "none"]
NoResult == [occurredAt |-> 0, battery |-> {}, signal |-> {}]
NoSample == [t0 |-> 0, series |-> <<>>, battery |-> {}, signal |-> {}]

Init ==
    /\ pc = "idle"
    /\ format \in Formats \cup {"other"}
    /\ payload = Nothing
    /\ parsed = NoResult /\ measured = <<>> /\ next = 1
    /\ mappings = <<>> /\ channels = <<>>
    /\ sample = NoSample /\ reply = "none"
    /\ uploads = 0

(* Mutant: tags are compared as they were sent.                            *)
MatchesExactly(name) == {i \in DOMAIN mappings : mappings[i].tag = name}

(* ResolveChannelIDByTag: the first mapping with the tag.                  *)
Matches(name) ==
    {i \in DOMAIN mappings : NormalizeChannelTag(mappings[i].tag) = NormalizeChannelTag(name)}

Resolves(name) == Matches(name) # {}
Resolved(name) == mappings[CHOOSE i \in Matches(name) : \A j \in Matches(name) : i <= j].channel

Answer(how) ==
    /\ pc' = "answered"
    /\ reply' = how

-----------------------------------------------------------------------------

(* No parser is registered for the model.                                  *)
Unsupported ==
    /\ pc = "idle" /\ uploads < MaxUploads
    /\ format = "other"
    /\ uploads' = uploads + 1
    /\ Answer("unsupported")
    /\ UNCHANGED <<request, locals, next, device, sample>>

Receive(p) ==
    /\ pc = "idle" /\ uploads < MaxUploads
    /\ format # "other"
    /\ uploads' = uploads + 1
    /\ payload' = p
    /\ \/ Readable(format, p) /\ pc' = "parse" /\ UNCHANGED reply
       \/ ~Readable(format, p) /\ Answer("unparsable")
    /\ UNCHANGED <<format, locals, next, device, sample>>

(* Parse, its loop over the channels.                                      *)
Channel == payload.channels[next]
Parsing == pc = "parse" /\ next <= Len(payload.channels)

KeepChannel ==
    /\ Parsing
    /\ Outcome(format, Channel) = "keep"
    /\ measured' = Append(measured, [name |-> NameIn(format, Channel), position |-> next])
    /\ next' = next + 1
    /\ UNCHANGED <<pc, request, parsed, device, sample, reply, uploads>>

PassOverChannel ==
    /\ Parsing
    /\ Outcome(format, Channel) = "skip"
    /\ next' = next + 1
    /\ UNCHANGED <<pc, request, locals, device, sample, reply, uploads>>

ParseFails ==
    /\ Parsing
    /\ Outcome(format, Channel) = "fail"
    /\ measured' = <<>> /\ next' = 1
    /\ Answer("unparsable")
    /\ UNCHANGED <<request, parsed, device, sample, uploads>>

ParseReturns ==
    /\ pc = "parse" /\ next > Len(payload.channels)
    /\ parsed' = ResultOf(format, payload)
    /\ pc' = "ensure" /\ next' = 1
    /\ UNCHANGED <<request, measured, device, sample, reply, uploads>>

Measurement == measured[next]
Ensuring    == pc = "ensure" /\ next <= Len(measured)

(* ensureChannels: the channel is known, or the measurement has no name.   *)
SkipChannel ==
    /\ Ensuring
    /\ Resolves(Measurement.name) \/ TrimSpace(Measurement.name) = ""
    /\ next' = next + 1
    /\ UNCHANGED <<pc, request, locals, device, sample, reply, uploads>>

(* The tags with which the API may answer the creation of a channel.       *)
AnsweredTags(name) == {name, NormalizeChannelTag(name), " "}

(* CreateDeploymentChannel: without a tag in the answer it is the one that *)
(* was asked for.                                                          *)
MappedTag(name, answered) == IF TrimSpace(answered) = "" THEN name ELSE answered

(* The API creates the channel and UpsertChannelMapping appends it.        *)
CreateChannel ==
    /\ Ensuring
    /\ ~Resolves(Measurement.name) /\ TrimSpace(Measurement.name) # ""
    /\ LET name == TrimSpace(Measurement.name) IN
       \E answered \in AnsweredTags(name) :
          /\ channels' = Append(channels, name)
          /\ mappings' = Append(mappings,
                [tag |-> MappedTag(name, answered), channel |-> Len(channels) + 1])
    /\ next' = next + 1
    /\ UNCHANGED <<pc, request, locals, sample, reply, uploads>>

(* Mutant: the error is overlooked and the empty answer taken for a channel. *)
CreateFailsUnnoticed ==
    /\ Ensuring
    /\ ~Resolves(Measurement.name) /\ TrimSpace(Measurement.name) # ""
    /\ mappings' = Append(mappings, [tag |-> TrimSpace(Measurement.name), channel |-> 0])
    /\ next' = next + 1
    /\ UNCHANGED <<pc, request, locals, channels, sample, reply, uploads>>

(* The call returns an error: the API refused it, or it created the        *)
(* channel and its answer was lost, came too late or could not be decoded. *)
CreateFails ==
    /\ Ensuring
    /\ ~Resolves(Measurement.name) /\ TrimSpace(Measurement.name) # ""
    /\ channels' \in {channels, Append(channels, TrimSpace(Measurement.name))}
    /\ Answer("no channel")
    /\ UNCHANGED <<request, locals, next, mappings, sample, uploads>>

(* BuildTelemetry: one series of one value for each measurement.           *)
SampleOf ==
    [t0 |-> Uint64(parsed.occurredAt),
     series |->
        [i \in DOMAIN measured |->
            [channel |-> Resolved(measured[i].name),
             position |-> measured[i].position]],
     battery |-> parsed.battery,
     signal |-> parsed.signal]

Build ==
    /\ pc = "ensure" /\ next > Len(measured)
    /\ IF \A i \in DOMAIN measured : Resolves(measured[i].name)
       THEN Answer("accepted") /\ sample' = SampleOf
       ELSE Answer("unresolved") /\ UNCHANGED sample
    /\ UNCHANGED <<request, locals, next, device, uploads>>

(* The next request starts from the cache and the API alone.               *)
Finish ==
    /\ pc = "answered"
    /\ pc' = "idle"
    /\ payload' = Nothing
    /\ parsed' = NoResult /\ measured' = <<>> /\ next' = 1
    /\ sample' = NoSample /\ reply' = "none"
    /\ UNCHANGED <<format, device, uploads>>

Next ==
    \/ Unsupported
    \/ \E p \in Payloads(format) : Receive(p)
    \/ KeepChannel \/ PassOverChannel \/ ParseFails \/ ParseReturns
    \/ SkipChannel \/ CreateChannel \/ CreateFails \/ Build \/ Finish

Spec == Init /\ [][Next]_vars

-----------------------------------------------------------------------------

(* The variables have their types; what was measured, and each series, is  *)
(* of a channel of the payload at hand, the latter in the deployment.      *)
TypeOK ==
    /\ pc \in {"idle", "parse", "ensure", "answered"}
    /\ format \in Formats \cup {"other"}
    /\ parsed.occurredAt \in Int
    /\ \A i \in DOMAIN measured : measured[i].position \in DOMAIN payload.channels
    /\ next \in 1..((IF pc = "parse" THEN Len(payload.channels) ELSE Len(measured)) + 1)
    /\ \A i \in DOMAIN mappings : mappings[i].channel \in DOMAIN channels
    /\ sample.t0 \in Nat /\ sample.battery \subseteq {"battery"} /\ sample.signal \subseteq {"rssi"}
    /\ \A i \in DOMAIN sample.series : sample.series[i].channel \in DOMAIN channels
    /\ reply \in {"none", "unsupported", "unparsable", "no channel", "unresolved", "accepted"}
    /\ uploads \in 0..MaxUploads

(* What the devices' documentation says of a channel: its value may be     *)
(* unusable, because the channel is not in use or reports an error         *)
(* (docs/payloads/comet), or it is measured and has a name.                *)
NotInUse(f, c) ==
    CASE f = "ULogger" -> FALSE
      [] f = "WebSensor" -> c.enabled = "0" \/ TrimSpace(c.name) = ""
      [] f = "SoapTx" -> c.value = ""

Erroneous(f, c) ==
    CASE f = "ULogger" -> c.kind = "analog" /\ c.fourth = "error"
      [] f = "WebSensor" -> c.value \in {"error", "0x error"}
      [] f = "SoapTx" -> \/ c.value = "-9999"
                         \/ c.value = "9999" /\ c.field # "pressure or co2"
                         \/ c.value = "-9998" /\ c.field = "pressure or co2" /\ c.element = "co2"

NameOf(f, c) == IF f = "SoapTx" THEN SoapName(c) ELSE c.name

(* What the devices' documentation says of the time of a payload: a        *)
(* ULogger counts from the start of 2000, on the small scale second 4      *)
(* (ULoggerJsonDoc.txt:160, json-description.txt:153).                     *)
Epoch(f) == IF f = "ULogger" THEN 4 ELSE 0
MeasuredAt(f, p) == Epoch(f) + p.time

(* An accepted upload becomes a sample with exactly the values of the      *)
(* channels in use that report no error, each under the channel of its own *)
(* name: no error code passes for a value, nothing that was measured is    *)
(* lost, and what is passed over does not shift the rest (parser loops,    *)
(* service.go:205, types.go:73).  Its time is when they were measured, of  *)
(* a clock that is past 1970, and a ULogger's battery and signal are there.*)
SampleFaithful ==
    reply = "accepted" =>
        LET usable == {i \in DOMAIN payload.channels :
                          ~NotInUse(format, payload.channels[i]) /\ ~Erroneous(format, payload.channels[i])}
            series == sample.series
        IN /\ Len(series) = Cardinality(usable)
           /\ {series[i].position : i \in DOMAIN series} = usable
           /\ \A i \in DOMAIN series :
                 NormalizeChannelTag(channels[series[i].channel]) =
                 NormalizeChannelTag(NameOf(format, payload.channels[series[i].position]))
           /\ MeasuredAt(format, payload) >= 0 => sample.t0 = MeasuredAt(format, payload)
           /\ (format = "ULogger") <=> (sample.battery # {} /\ sample.signal # {})

(* A probe that fails does not take the others with it: a payload of a     *)
(* WebSensor or SOAP device that can be read, errors as documented         *)
(* included, is not turned away for its content, or the device would send  *)
(* it again for good, before all later ones                                *)
(* (websensor/parser.go:136, soaptx/parser.go:221).                        *)
ErrorsTolerated ==
    (/\ pc = "answered" /\ format \in {"WebSensor", "SoapTx"}
     /\ payload.header = "good"
     /\ format = "SoapTx" => payload.element # "other"
     /\ \A i \in DOMAIN payload.channels : payload.channels[i].value \notin {"unreadable", "0x error"})
    => reply \in {"accepted", "no channel"}

(* Once the answer to a creation arrived, no channel of that name is ever  *)
(* created again, however often and in whatever spelling the device sends  *)
(* it and the API answered it: the mapped channel is the last of its name. *)
(* Only lost answers leave others before it, which nothing in the code can *)
(* know of (service.go:207, device_cache.go:194).                          *)
MappedChannelIsLast ==
    \A m \in DOMAIN mappings : \A i \in DOMAIN channels :
        NormalizeChannelTag(channels[i]) = NormalizeChannelTag(channels[mappings[m].channel])
            => i <= mappings[m].channel

(* docs/protobuf.md:257 has the receiver reject duplicate channel ids: a   *)
(* sample should not have any.  Two probes of one device measure the same  *)
(* quantity, and their tag is all that tells channels apart (types.go:74). *)
OneSeriesPerChannel ==
    \A i, j \in DOMAIN sample.series :
        sample.series[i].channel = sample.series[j].channel => i = j

=============================================================================
