----------------------------- MODULE MCUploads -----------------------------
(***************************************************************************)
(* Instance of Uploads for TLC: payloads with up to two channels, those of *)
(* SOAP devices with their four fields.                                    *)
(***************************************************************************)
EXTENDS Uploads

UpToTwo(S) == {<<>>} \cup {<<c>> : c \in S} \cup {<<c, d>> : c, d \in S}

(* One of each kind of unreadable channel, with a name like any other.     *)
ULoggerSamples ==
    {c \in ULoggerChannels :
        \/ c.kind = "analog" /\ c.fourth # "list" /\ c.fifth = "string"
        \/ c.kind = "binary" /\ c.fourth = "list" /\ c.fifth = "number"
        \/ c.name = "Temperature" /\ (c.kind = "analog" \/ (c.kind = "binary" /\ c.fourth = "list"))
        \/ c = [kind |-> "misshapen", name |-> " ", fourth |-> "list", fifth |-> "list"]}

SoapPayload(e, t, v) ==
    [header |-> "good", element |-> e, time |-> 1,
     channels |-> [i \in 1..4 |-> [field |-> SoapFields[i], element |-> e, compType |-> t, value |-> v[i]]]]

(* Any two channels, or one at any time: before 1970, before 2000, after.  *)
Times == {-5, -1, 0, 1}

Uploaded(samples, one) ==
    [header : {"good"}, time : {1}, channels : UpToTwo(samples)]
    \cup [header : {"good"}, time : Times, channels : {<<one>>}]

ULoggerPayloads ==
    Uploaded(ULoggerSamples,
             [kind |-> "analog", name |-> "Temperature", fourth |-> "hex", fifth |-> "string"])

WebSensorPayloads ==
    Uploaded(WebSensorChannels,
             [name |-> "Temperature", enabled |-> "absent", value |-> "hex"])

(* At most two of the four values are anything but numbers.                *)
SoapPayloads ==
    {SoapPayload(e, "n/a", v) :
        e \in {"Tx5xx", "co2"},
        v \in {w \in [1..4 -> SoapValues] : Cardinality({i \in 1..4 : w[i] # "number"}) <= 2}}
    \cup {SoapPayload("other", "n/a", [i \in 1..4 |-> "number"]),
          SoapPayload("Tx5xx", "Dew point", [i \in 1..4 |-> "number"])}

Unreadable == [header |-> "bad", element |-> "other", time |-> 0, channels |-> <<>>]

SmallPayloads(f) ==
    {Unreadable} \cup
    CASE f = "ULogger" -> ULoggerPayloads
      [] f = "WebSensor" -> WebSensorPayloads
      [] f = "SoapTx" -> SoapPayloads
      [] f = "other" -> {}

(* The channels of docs/payloads/comet/TAx6xx_PAx6xx/PA8652.json up to the *)
(* first binary one: two probes measure the temperature.                   *)
PA8652 ==
    LET Probe(n, e, v) == [name |-> n, enabled |-> e, value |-> v]
    IN [header |-> "good", time |-> 1,
        channels |-> <<Probe("Temperature", "1", "hex"), Probe(" ", "absent", "error"),
                       Probe("Temperature", "1", "hex"), Probe("Relative humidity", "1", "hex")>>]

FixturePayloads(f) == IF f = "WebSensor" THEN {PA8652} ELSE {}

=============================================================================
