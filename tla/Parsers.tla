------------------------------ MODULE Parsers ------------------------------
(***************************************************************************)
(* The three parsers under internal/device/comet: which payloads they can  *)
(* read, what becomes of a channel and under which name, and the time.     *)
(* The loop over the channels is in Uploads.                               *)
(*                                                                         *)
(* A payload is a header, which can be read or not, its time and its       *)
(* channels in order.  Of a value only its class matters.  A hex value     *)
(* that announces a measurement error starts with FF8100.  A channel is    *)
(* kept, passed over ("skip"), or cannot be read ("fail").                 *)
(***************************************************************************)
EXTENDS Integers, Sequences, Functions

(* Names that a device may send, and what strings.TrimSpace and            *)
(* normalizeChannelTag make of them; case matters for no other name.       *)
Names == {"Temperature", " temperature", "Relative humidity", " "}

TrimSpace(name) ==
    CASE name = " temperature" -> "temperature"
      [] name = " " -> ""
      [] OTHER -> name

NormalizeChannelTag(name) ==
    IF TrimSpace(name) = "Temperature" THEN "temperature" ELSE TrimSpace(name)

-----------------------------------------------------------------------------
(* ULogger.  An analog channel has its value in the fourth field and its   *)
(* unit in the fifth, a binary one its descriptions and its state.  A      *)
(* number passes for a string.  Channels without the first three fields    *)
(* are "misshapen".                                                        *)

ULoggerChannels ==
    [kind : {"analog", "binary", "misshapen"}, name : Names,
     fourth : {"hex", "error", "list"}, fifth : {"number", "string", "list"}]

(* Mutant: a channel that reports a measurement error has a value.         *)
ULoggerErrorIsHex(channel) ==
    IF \/ channel.kind = "analog" /\ channel.fourth # "list" /\ channel.fifth # "list"
       \/ channel.kind = "binary" /\ channel.fifth = "number"
    THEN "keep" ELSE "fail"

ULoggerOutcome(channel) ==
    IF \/ channel.kind = "analog" /\ channel.fourth = "hex" /\ channel.fifth # "list"
       \/ channel.kind = "binary" /\ channel.fifth = "number"
    THEN "keep" ELSE "fail"

ULoggerName(channel) == channel.name

(* The time of a ULogger counts from 2000, here scaled down.  The number   *)
(* is signed.                                                              *)
SecondsSince2000ToUnix == 4

ULoggerReadable(payload) == payload.header = "good"

ULoggerResult(payload) ==
    [occurredAt |-> SecondsSince2000ToUnix + payload.time,
     battery |-> {"battery"}, signal |-> {"rssi"}]

-----------------------------------------------------------------------------
(* WebSensor.                                                              *)

HexValues == {"hex", "error", "0x error", "unreadable"}

WebSensorChannels == [name : Names, enabled : {"absent", "0", "1"}, value : HexValues]

(* Mutant: an error is looked for before the channel is known to be in use *)
(* and takes the payload with it.                                          *)
WebSensorErrorFails(channel) ==
    IF TrimSpace(channel.name) = "" \/ channel.enabled = "0" THEN "skip"
    ELSE IF channel.value = "hex" THEN "keep"
    ELSE "fail"

(* parseHexFloat sees the error behind a 0x, isMeasurementError does not.  *)
WebSensorOutcome(channel) ==
    IF TrimSpace(channel.name) = "" \/ channel.enabled = "0" THEN "skip"
    ELSE IF channel.value = "hex" THEN "keep"
    ELSE IF channel.value = "error" THEN "skip"
    ELSE "fail"

WebSensorName(channel) == TrimSpace(channel.name)

WebSensorReadable(payload) == payload.header = "good"

(* The time is that of the sample, valid or not.                           *)
WebSensorResult(payload) == [occurredAt |-> payload.time, battery |-> {}, signal |-> {}]

-----------------------------------------------------------------------------
(* SOAP Tx.  The fields are looked at in this order; the last one depends  *)
(* on the element in the body, which must be one of the two.               *)

SoapFields == <<"temp", "relHum", "compQuant", "pressure or co2">>
SoapValues == {"", "number", "9999", "-9998", "-9999", "unreadable"}

ErrorValues(field, element) ==
    IF field # "pressure or co2" THEN {"9999", "-9999"}
    ELSE IF element = "co2" THEN {"-9998", "-9999"}
    ELSE {"-9999"}

SoapOutcome(channel) ==
    IF channel.value = "" THEN "skip"
    ELSE IF channel.value = "unreadable" THEN "fail"
    ELSE IF channel.value \in ErrorValues(channel.field, channel.element) THEN "skip"
    ELSE "keep"

SoapName(channel) ==
    CASE channel.field = "temp" -> "Temperature"
      [] channel.field = "relHum" -> "Relative humidity"
      [] channel.field = "pressure or co2" -> IF channel.element = "co2" THEN "CO2" ELSE "Pressure"
      [] OTHER -> IF TrimSpace(channel.compType) \in {"", "n/a"}
                  THEN "Computed quantity" ELSE TrimSpace(channel.compType)

SoapTxReadable(payload) == payload.header = "good" /\ payload.element # "other"

(* The device sends no time; it is that of the request's arrival.          *)
SoapTxResult(payload) == [occurredAt |-> payload.time, battery |-> {}, signal |-> {}]

-----------------------------------------------------------------------------
(* The parser that is registered for a format.                             *)

Formats == {"ULogger", "WebSensor", "SoapTx"}

Readable(format, payload) ==
    CASE format = "ULogger" -> ULoggerReadable(payload)
      [] format = "WebSensor" -> WebSensorReadable(payload)
      [] format = "SoapTx" -> SoapTxReadable(payload)

Outcome(format, channel) ==
    CASE format = "ULogger" -> ULoggerOutcome(channel)
      [] format = "WebSensor" -> WebSensorOutcome(channel)
      [] format = "SoapTx" -> SoapOutcome(channel)

NameIn(format, channel) ==
    CASE format = "ULogger" -> ULoggerName(channel)
      [] format = "WebSensor" -> WebSensorName(channel)
      [] format = "SoapTx" -> SoapName(channel)

(* A ParseResult without its measurements.                                 *)
ResultOf(format, payload) ==
    CASE format = "ULogger" -> ULoggerResult(payload)
      [] format = "WebSensor" -> WebSensorResult(payload)
      [] format = "SoapTx" -> SoapTxResult(payload)

=============================================================================
