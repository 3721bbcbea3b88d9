--------------------------- MODULE Uploads_proofs ---------------------------
(***************************************************************************)
(* For any payloads of any length, any number of uploads and any names,    *)
(* whichever form of a name the API answers with and whichever answers are *)
(* lost: no channel is created for a name that has one mapped, a sample    *)
(* holds what was measured, each value under the channel of its name, and  *)
(* a probe that fails does not cost the others.                            *)
(***************************************************************************)
EXTENDS Uploads, FiniteSetTheorems, SequenceTheorems, TLAPS

(* What creation keeps: a mapping's tag counts as its channel's own, no    *)
(* other mapping has the channel, and no later channel has the name.       *)
ChannelsMapped ==
    /\ channels \in Seq(Range(channels)) /\ mappings \in Seq(Range(mappings))
    /\ \A m \in DOMAIN mappings :
          /\ mappings[m].channel \in DOMAIN channels
          /\ NormalizeChannelTag(mappings[m].tag) =
             NormalizeChannelTag(channels[mappings[m].channel])
          /\ \A l \in DOMAIN mappings : mappings[l].channel = mappings[m].channel => l = m
    /\ MappedChannelIsLast

(* A longer sequence is one of its own elements.                           *)
LEMMA AppendedSeq ==
    ASSUME NEW s, s \in Seq(Range(s)), NEW x
    PROVE  /\ Append(s, x) \in Seq(Range(Append(s, x)))
           /\ DOMAIN s = 1..Len(s) /\ Len(s) \in Nat
           /\ Len(Append(s, x)) = Len(s) + 1
           /\ DOMAIN Append(s, x) = 1..(Len(s) + 1)
           /\ \A i \in 1..Len(s) : Append(s, x)[i] = s[i]
           /\ Append(s, x)[Len(s) + 1] = x
<1> DEFINE S == Range(s) \cup {x}
<1>1. s \in Seq(S) /\ x \in S
  BY SeqMonotonic
<1>2. DOMAIN s = 1..Len(s) /\ Len(s) \in Nat
  BY LenProperties
<1>3. /\ Append(s, x) \in Seq(S)
      /\ Len(Append(s, x)) = Len(s) + 1
      /\ \A i \in 1..Len(s) : Append(s, x)[i] = s[i]
      /\ Append(s, x)[Len(s) + 1] = x
  BY <1>1, AppendProperties
<1>4. DOMAIN Append(s, x) = 1..(Len(s) + 1)
  BY <1>3, LenProperties
<1>5. Range(Append(s, x)) = S
  <2> DEFINE a == Append(s, x)
             n == Len(s)
  <2>1. DOMAIN a = 1..n \cup {n + 1}
    BY <1>2, <1>4
  <2>2. Range(a) = {a[i] : i \in 1..n} \cup {a[n + 1]}
    BY <2>1 DEF Range
  <2>3. {a[i] : i \in 1..n} = Range(s)
    BY <1>2, <1>3 DEF Range
  <2> QED
    BY <1>3, <2>2, <2>3
<1> QED
  BY <1>2, <1>3, <1>4, <1>5

(* Trimming a name, or normalising it, once is enough.                     *)
LEMMA NormalForms ==
    ASSUME NEW name
    PROVE  /\ NormalizeChannelTag(TrimSpace(name)) = NormalizeChannelTag(name)
           /\ NormalizeChannelTag(NormalizeChannelTag(name)) = NormalizeChannelTag(name)
<1>1. CASE name = " temperature"
  BY <1>1 DEF NormalizeChannelTag, TrimSpace
<1>2. CASE name = " "
  BY <1>2 DEF NormalizeChannelTag, TrimSpace
<1>3. CASE name # " temperature" /\ name # " "
  BY <1>3 DEF NormalizeChannelTag, TrimSpace
<1> QED
  BY <1>1, <1>2, <1>3

(* Whatever tag the API answers with, the mapping is found by the name.    *)
LEMMA MappedUnderName ==
    ASSUME NEW name, NEW answered \in AnsweredTags(name)
    PROVE  NormalizeChannelTag(MappedTag(name, answered)) = NormalizeChannelTag(name)
<1>1. CASE TrimSpace(answered) = ""
  BY <1>1 DEF MappedTag
<1>2. CASE TrimSpace(answered) # ""
  <2>1. MappedTag(name, answered) = answered
    BY <1>2 DEF MappedTag
  <2>2. answered \in {name, NormalizeChannelTag(name)}
    BY <1>2 DEF AnsweredTags, TrimSpace
  <2> QED
    BY <2>1, <2>2, NormalForms
<1> QED
  BY <1>1, <1>2

(* When a channel is created, no mapped channel counts as its name's.      *)
LEMMA NoneMapped ==
    ASSUME ChannelsMapped, ~Resolves(Measurement.name)
    PROVE  \A m \in DOMAIN mappings :
              NormalizeChannelTag(channels[mappings[m].channel]) #
              NormalizeChannelTag(TrimSpace(Measurement.name))
<1>1. \A m \in DOMAIN mappings :
          NormalizeChannelTag(mappings[m].tag) # NormalizeChannelTag(Measurement.name)
  BY DEF Resolves, Matches
<1> QED
  BY <1>1, NormalForms DEF ChannelsMapped

(* A creation whose answer is lost: what is mapped stays the last of its   *)
(* name.                                                                   *)
LEMMA LostKeepsMapped ==
    ASSUME ChannelsMapped, ~Resolves(Measurement.name),
           channels' = Append(channels, TrimSpace(Measurement.name)), mappings' = mappings
    PROVE  ChannelsMapped'
<1> DEFINE name == TrimSpace(Measurement.name)
           n == Len(channels)
<1>1. \A m \in DOMAIN mappings :
          NormalizeChannelTag(channels[mappings[m].channel]) # NormalizeChannelTag(name)
  BY NoneMapped
<1> HIDE DEF name
<1>2. /\ channels' \in Seq(Range(channels'))
      /\ DOMAIN channels = 1..n /\ n \in Nat
      /\ DOMAIN channels' = 1..(n + 1)
      /\ \A i \in 1..n : channels'[i] = channels[i]
      /\ channels'[n + 1] = name
  BY AppendedSeq DEF ChannelsMapped, name
<1>3. \A i \in 1..(n + 1) : i \in 1..n \/ i = n + 1
  BY <1>2
<1>4. \A m \in DOMAIN mappings :
          mappings[m].channel \in 1..n /\ channels'[mappings[m].channel] = channels[mappings[m].channel]
  BY <1>2 DEF ChannelsMapped
<1>5. MappedChannelIsLast'
  BY <1>1, <1>2, <1>3, <1>4 DEF ChannelsMapped, MappedChannelIsLast
<1> QED
  BY <1>2, <1>4, <1>5 DEF ChannelsMapped

(* A creation that is answered: the new channel is mapped, and no older    *)
(* mapping has its name.                                                   *)
LEMMA CreationKeepsMapped ==
    ASSUME ChannelsMapped, CreateChannel
    PROVE  ChannelsMapped'
<1> DEFINE name == TrimSpace(Measurement.name)
           n == Len(channels)
           k == Len(mappings)
<1>1. PICK answered \in AnsweredTags(name) :
          /\ channels' = Append(channels, name)
          /\ mappings' = Append(mappings, [tag |-> MappedTag(name, answered), channel |-> n + 1])
  BY DEF CreateChannel
<1> DEFINE new == [tag |-> MappedTag(name, answered), channel |-> n + 1]
<1>2. NormalizeChannelTag(new.tag) = NormalizeChannelTag(name) /\ new.channel = n + 1
  BY MappedUnderName
<1>3. \A m \in DOMAIN mappings :
          NormalizeChannelTag(channels[mappings[m].channel]) # NormalizeChannelTag(name)
  BY NoneMapped DEF CreateChannel
<1> HIDE DEF new, name
<1>4. /\ channels' \in Seq(Range(channels'))
      /\ DOMAIN channels = 1..n /\ n \in Nat
      /\ DOMAIN channels' = 1..(n + 1)
      /\ \A i \in 1..n : channels'[i] = channels[i]
      /\ channels'[n + 1] = name
  BY <1>1, AppendedSeq DEF ChannelsMapped
<1>5. /\ mappings' \in Seq(Range(mappings'))
      /\ DOMAIN mappings = 1..k /\ k \in Nat
      /\ DOMAIN mappings' = 1..(k + 1)
      /\ \A m \in 1..k : mappings'[m] = mappings[m]
      /\ mappings'[k + 1] = new
  BY <1>1, AppendedSeq DEF ChannelsMapped, new
<1>6. /\ \A i \in 1..(n + 1) : i \in 1..n \/ i = n + 1
      /\ \A m \in 1..(k + 1) : m \in 1..k \/ m = k + 1
  BY <1>4, <1>5
<1>7. ASSUME NEW m \in 1..k
      PROVE  /\ mappings'[m].channel = mappings[m].channel /\ mappings[m].channel \in 1..n
             /\ mappings[m].channel # n + 1
             /\ channels'[mappings[m].channel] = channels[mappings[m].channel]
  BY <1>4, <1>5 DEF ChannelsMapped
<1>8. \A m \in 1..(k + 1) :
          /\ mappings'[m].channel \in 1..(n + 1)
          /\ NormalizeChannelTag(mappings'[m].tag) = NormalizeChannelTag(channels'[mappings'[m].channel])
  <2> SUFFICES ASSUME NEW m \in 1..(k + 1)
               PROVE  /\ mappings'[m].channel \in 1..(n + 1)
                      /\ NormalizeChannelTag(mappings'[m].tag) =
                         NormalizeChannelTag(channels'[mappings'[m].channel])
    OBVIOUS
  <2>1. CASE m = k + 1
    BY <1>2, <1>4, <1>5, <2>1
  <2>2. CASE m \in 1..k
    <3>1. mappings[m].channel \in 1..(n + 1)
      BY <1>4, <1>7, <2>2
    <3>2. NormalizeChannelTag(mappings[m].tag) = NormalizeChannelTag(channels[mappings[m].channel])
      BY <1>5, <2>2 DEF ChannelsMapped
    <3> QED
      BY <1>5, <1>7, <2>2, <3>1, <3>2
  <2> QED
    BY <1>6, <2>1, <2>2
<1>9. \A l, m \in 1..(k + 1) : mappings'[l].channel = mappings'[m].channel => l = m
  BY <1>2, <1>5, <1>6, <1>7 DEF ChannelsMapped
<1>10. MappedChannelIsLast'
  <2> SUFFICES ASSUME NEW m \in 1..(k + 1), NEW i \in 1..(n + 1),
                      NormalizeChannelTag(channels'[i]) =
                      NormalizeChannelTag(channels'[mappings'[m].channel])
               PROVE  i <= mappings'[m].channel
    BY <1>4, <1>5 DEF MappedChannelIsLast
  <2>1. CASE m = k + 1
    BY <1>2, <1>4, <1>5, <2>1
  <2>2. CASE m \in 1..k
    <3>1. i # n + 1
      BY <1>3, <1>4, <1>5, <1>7, <2>2
    <3> QED
      BY <1>4, <1>5, <1>6, <1>7, <2>2, <3>1 DEF ChannelsMapped, MappedChannelIsLast
  <2> QED
    BY <1>6, <2>1, <2>2
<1> QED
  BY <1>4, <1>5, <1>8, <1>9, <1>10 DEF ChannelsMapped

(* Only these two steps touch a channel or a mapping.                      *)
LEMMA MappedStep ==
    ASSUME ChannelsMapped, [Next]_vars
    PROVE  ChannelsMapped'
<1>1. CASE CreateChannel
  BY <1>1, CreationKeepsMapped
<1>2. CASE UNCHANGED device
  BY <1>2 DEF device, ChannelsMapped, MappedChannelIsLast
<1>3. CASE Unsupported \/ KeepChannel \/ PassOverChannel \/ ParseFails \/ ParseReturns
  BY <1>2, <1>3 DEF Unsupported, KeepChannel, PassOverChannel, ParseFails, ParseReturns
<1>4. CASE SkipChannel \/ Build \/ Finish
  BY <1>2, <1>4 DEF SkipChannel, Build, Finish
<1>7. CASE CreateFails
  BY <1>2, <1>7, LostKeepsMapped DEF CreateFails, device
<1>5. ASSUME NEW p, Receive(p) PROVE UNCHANGED device
  BY <1>5 DEF Receive
<1>6. CASE UNCHANGED vars
  BY <1>2, <1>6 DEF vars
<1> QED
  BY <1>1, <1>2, <1>3, <1>4, <1>5, <1>6, <1>7 DEF Next

(* Once a creation was answered, no channel of that name is created again, *)
(* however often, in whatever spelling and with whatever payloads a device *)
(* sends it, and whichever uploads fail in between; only creations whose   *)
(* answer was lost leave another channel, before the one that is mapped    *)
(* (service.go:207, device_cache.go:194).                                  *)
THEOREM AnsweredOnce == Spec => []MappedChannelIsLast
<1>1. Init => ChannelsMapped
  <2> SUFFICES ASSUME Init PROVE ChannelsMapped
    OBVIOUS
  <2>1. channels = <<>> /\ mappings = <<>>
    BY DEF Init
  <2>2. Len(<<>>) = 0 /\ DOMAIN <<>> = {} /\ \A S : <<>> \in Seq(S)
    BY EmptySeq
  <2> QED
    BY <2>1, <2>2 DEF ChannelsMapped, MappedChannelIsLast
<1>2. ChannelsMapped /\ [Next]_vars => ChannelsMapped'
  BY MappedStep
<1>3. ChannelsMapped => MappedChannelIsLast
  BY DEF ChannelsMapped
<1> QED
  BY <1>1, <1>2, <1>3, PTL DEF Spec

-----------------------------------------------------------------------------

(* What the parsers make of a channel.                                     *)

Usable(f, c) == ~NotInUse(f, c) /\ ~Erroneous(f, c)

(* A channel that can be read is kept if and only if it is usable, and     *)
(* what is kept has its own name, which some of the parsers trim.          *)
LEMMA OutcomeIsRight ==
    ASSUME format \in Formats, NEW c
    PROVE  /\ Outcome(format, c) \in {"keep", "skip", "fail"}
           /\ Outcome(format, c) = "keep" => Usable(format, c)
           /\ Outcome(format, c) = "skip" => ~Usable(format, c)
           /\ NormalizeChannelTag(NameIn(format, c)) = NormalizeChannelTag(NameOf(format, c))
<1>1. CASE format = "ULogger"
  <2>1. Outcome(format, c) = ULoggerOutcome(c) /\ NameIn(format, c) = c.name /\ NameOf(format, c) = c.name
    BY <1>1 DEF Outcome, NameIn, ULoggerName, NameOf
  <2>2. Usable(format, c) <=> ~(c.kind = "analog" /\ c.fourth = "error")
    BY <1>1 DEF Usable, NotInUse, Erroneous
  <2> QED
    BY <2>1, <2>2 DEF ULoggerOutcome
<1>2. CASE format = "WebSensor"
  <2>1. /\ Outcome(format, c) = WebSensorOutcome(c)
        /\ NameIn(format, c) = TrimSpace(c.name) /\ NameOf(format, c) = c.name
    BY <1>2 DEF Outcome, NameIn, WebSensorName, NameOf
  <2>2. Usable(format, c) <=> /\ c.enabled # "0" /\ TrimSpace(c.name) # ""
                      /\ c.value \notin {"error", "0x error"}
    BY <1>2 DEF Usable, NotInUse, Erroneous
  <2> QED
    BY <2>1, <2>2, NormalForms DEF WebSensorOutcome
<1>3. CASE format = "SoapTx"
  <2>1. Outcome(format, c) = SoapOutcome(c) /\ NameIn(format, c) = SoapName(c) /\ NameOf(format, c) = SoapName(c)
    BY <1>3 DEF Outcome, NameIn, NameOf
  <2>2. Usable(format, c) <=> /\ c.value # "" /\ c.value # "-9999"
                      /\ ~(c.value = "9999" /\ c.field # "pressure or co2")
                      /\ ~(c.value = "-9998" /\ c.field = "pressure or co2" /\ c.element = "co2")
    BY <1>3 DEF Usable, NotInUse, Erroneous
  <2>3. c.value \in ErrorValues(c.field, c.element) <=>
            \/ c.value = "-9999"
            \/ c.value = "9999" /\ c.field # "pressure or co2"
            \/ c.value = "-9998" /\ c.field = "pressure or co2" /\ c.element = "co2"
    <3>1. CASE c.field # "pressure or co2"
      BY <3>1 DEF ErrorValues
    <3>2. CASE c.field = "pressure or co2" /\ c.element = "co2"
      BY <3>2 DEF ErrorValues
    <3>3. CASE c.field = "pressure or co2" /\ c.element # "co2"
      BY <3>3 DEF ErrorValues
    <3> QED
      BY <3>1, <3>2, <3>3
  <2> QED
    BY <2>1, <2>2, <2>3 DEF SoapOutcome
<1> QED
  BY <1>1, <1>2, <1>3 DEF Formats

(* What a WebSensor or a SOAP device sends is kept with a name, and fails  *)
(* only if it cannot be read.                                              *)
LEMMA WebAndSoapOutcome ==
    ASSUME format \in {"WebSensor", "SoapTx"}, NEW c,
           format = "WebSensor" => c.value \in HexValues
    PROVE  /\ Outcome(format, c) = "keep" => TrimSpace(NameIn(format, c)) # ""
           /\ Outcome(format, c) = "fail" => c.value \in {"unreadable", "0x error"}
<1>1. CASE format = "WebSensor"
  <2>1. /\ Outcome(format, c) = WebSensorOutcome(c)
        /\ NameIn(format, c) = TrimSpace(c.name)
        /\ c.value \in HexValues
    BY <1>1 DEF Outcome, NameIn, WebSensorName
  <2>2. TrimSpace(TrimSpace(c.name)) = TrimSpace(c.name)
    BY DEF TrimSpace
  <2> QED
    BY <2>1, <2>2 DEF WebSensorOutcome, HexValues
<1>2. CASE format = "SoapTx"
  <2>1. Outcome(format, c) = SoapOutcome(c) /\ NameIn(format, c) = SoapName(c)
    BY <1>2 DEF Outcome, NameIn
  <2>2. TrimSpace(SoapName(c)) # ""
    <3>1. TrimSpace(TrimSpace(c.compType)) = TrimSpace(c.compType)
      BY DEF TrimSpace
    <3>2. \A name \in {"Temperature", "Relative humidity", "CO2", "Pressure", "Computed quantity"} :
              TrimSpace(name) = name
      BY DEF TrimSpace
    <3>3. \/ SoapName(c) \in {"Temperature", "Relative humidity", "CO2", "Pressure", "Computed quantity"}
          \/ SoapName(c) = TrimSpace(c.compType) /\ TrimSpace(c.compType) # ""
      <4>1. CASE c.field = "temp"
        BY <4>1 DEF SoapName
      <4>2. CASE c.field = "relHum"
        BY <4>2 DEF SoapName
      <4>3. CASE c.field = "pressure or co2"
        BY <4>3 DEF SoapName
      <4>4. CASE c.field \notin {"temp", "relHum", "pressure or co2"}
        <5>1. SoapName(c) = IF TrimSpace(c.compType) \in {"", "n/a"}
                            THEN "Computed quantity" ELSE TrimSpace(c.compType)
          BY <4>4 DEF SoapName
        <5> QED
          BY <5>1
      <4> QED
        BY <4>1, <4>2, <4>3, <4>4
    <3> QED
      BY <3>1, <3>2, <3>3
  <2>3. Outcome(format, c) = "fail" => c.value = "unreadable"
    BY <2>1 DEF SoapOutcome
  <2> QED
    BY <2>1, <2>2, <2>3
<1> QED
  BY <1>1, <1>2

-----------------------------------------------------------------------------

(* The invariant of an upload.                                             *)

(* The channels of the payload that Parse keeps before it comes to n.      *)
KeptBefore(n) == {i \in 1..(n - 1) : Outcome(format, payload.channels[i]) = "keep"}

(* What it has measured by then: each of them once, by its name.           *)
MeasuredBefore(n) ==
    /\ measured \in Seq(Range(measured))
    /\ {measured[i].position : i \in DOMAIN measured} = KeptBefore(n)
    /\ \A i, j \in DOMAIN measured : measured[i].position = measured[j].position => i = j
    /\ \A i \in DOMAIN measured :
          measured[i].name = NameIn(format, payload.channels[measured[i].position])
    /\ \A i \in 1..(n - 1) : Outcome(format, payload.channels[i]) # "fail"

(* The payload at hand is one that the parser can read.                    *)
Received ==
    /\ format \in Formats
    /\ payload \in Payloads(format)
    /\ Readable(format, payload)

Parses ==
    pc = "parse" =>
        /\ Received
        /\ next \in 1..(Len(payload.channels) + 1)
        /\ MeasuredBefore(next)

(* ensureChannels has left behind what has a channel, or has no name.      *)
Ensures ==
    pc = "ensure" =>
        /\ Received
        /\ MeasuredBefore(Len(payload.channels) + 1)
        /\ parsed = ResultOf(format, payload)
        /\ next \in 1..(Len(measured) + 1)
        /\ \A i \in 1..(next - 1) :
              Resolves(measured[i].name) \/ TrimSpace(measured[i].name) = ""

(* A request is turned away for a reason.                                  *)
Answers ==
    /\ (reply = "none") <=> (pc # "answered")
    /\ reply # "accepted" => sample = NoSample
    /\ reply = "unsupported" => format = "other"
    /\ reply = "unparsable" =>
          \/ ~Readable(format, payload)
          \/ /\ payload \in Payloads(format)
             /\ \E i \in DOMAIN payload.channels : Outcome(format, payload.channels[i]) = "fail"
    /\ reply = "unresolved" => format \notin {"WebSensor", "SoapTx"}

IInv ==
    /\ TypeOK /\ ChannelsMapped
    /\ pc = "idle" => measured = <<>> /\ next = 1
    /\ Parses /\ Ensures /\ Answers
    /\ SampleFaithful

-----------------------------------------------------------------------------

(* The loop of Parse.                                                      *)

(* A payload's channels, and what was measured, are sequences.             *)
LEMMA PayloadSequence ==
    ASSUME NEW f \in Formats, NEW p \in Payloads(f)
    PROVE  /\ p.time \in Int64
           /\ Len(p.channels) \in Nat /\ DOMAIN p.channels = 1..Len(p.channels)
           /\ f = "WebSensor" => \A i \in DOMAIN p.channels : p.channels[i].value \in HexValues
<1>1. /\ p.time \in Int64
      /\ p.channels \in Seq(Range(p.channels))
      /\ f = "WebSensor" => \A i \in DOMAIN p.channels : p.channels[i].value \in HexValues
  BY UploadsAssumption
<1> QED
  BY <1>1, LenProperties

LEMMA MeasuredSequence ==
    ASSUME NEW n, MeasuredBefore(n)
    PROVE  Len(measured) \in Nat /\ DOMAIN measured = 1..Len(measured)
BY LenProperties DEF MeasuredBefore

(* A channel that is kept, or passed over, is the last before the next.    *)
LEMMA ParseLoop ==
    ASSUME Parses, KeepChannel \/ PassOverChannel
    PROVE  Parses'
<1> DEFINE n == next
<1>1. /\ pc = "parse" /\ Received /\ MeasuredBefore(n)
      /\ n <= Len(payload.channels) /\ n \in 1..(Len(payload.channels) + 1)
      /\ next' = n + 1
      /\ UNCHANGED <<pc, format, payload>>
  BY DEF KeepChannel, PassOverChannel, Parses, Parsing, request
<1>2. Len(payload.channels) \in Nat
  BY <1>1, PayloadSequence DEF Received
<1>3. n \in Nat /\ n >= 1 /\ next' \in 1..(Len(payload.channels) + 1)
  BY <1>1, <1>2
<1>4. Received'
  BY <1>1 DEF Received
<1>5. Outcome(format, payload.channels[n]) \in {"keep", "skip"}
  BY DEF KeepChannel, PassOverChannel, Channel
<1>6. \A i \in 1..n : Outcome(format, payload.channels[i]) # "fail"
  <2>1. \A i \in 1..n : i \in 1..(n - 1) \/ i = n
    BY <1>3
  <2> QED
    BY <1>1, <1>5, <2>1 DEF MeasuredBefore
<1>7. KeptBefore(n + 1) = KeptBefore(n)
          \cup {i \in {n} : Outcome(format, payload.channels[i]) = "keep"}
  <2>1. 1..((n + 1) - 1) = 1..(n - 1) \cup {n}
    BY <1>3
  <2> QED
    BY <2>1 DEF KeptBefore
<1>8. /\ (n + 1) - 1 = n
      /\ KeptBefore(next)' = KeptBefore(n + 1)
  BY <1>1, <1>3 DEF KeptBefore
<1>9. CASE KeepChannel
  <2> DEFINE m == [name |-> NameIn(format, Channel), position |-> n]
             l == Len(measured)
  <2>1. measured' = Append(measured, m) /\ Outcome(format, payload.channels[n]) = "keep"
    BY <1>9 DEF KeepChannel, Channel
  <2>2. m.position = n /\ m.name = NameIn(format, payload.channels[n])
    BY DEF Channel
  <2> HIDE DEF m
  <2>3. /\ measured' \in Seq(Range(measured'))
        /\ DOMAIN measured = 1..l /\ l \in Nat
        /\ DOMAIN measured' = 1..(l + 1)
        /\ \A i \in 1..l : measured'[i] = measured[i]
        /\ measured'[l + 1] = m
    BY <1>1, <2>1, AppendedSeq DEF MeasuredBefore
  <2>4. \A i \in 1..(l + 1) : i \in 1..l \/ i = l + 1
    BY <2>3
  <2>5. 1..(l + 1) = 1..l \cup {l + 1}
    BY <2>3
  <2>6. {measured'[i].position : i \in DOMAIN measured'} = KeptBefore(n + 1)
    <3>1. {measured'[i].position : i \in DOMAIN measured'}
              = {measured[i].position : i \in DOMAIN measured} \cup {n}
      BY <2>2, <2>3, <2>5
    <3>2. KeptBefore(n + 1) = KeptBefore(n) \cup {n}
      BY <1>7, <2>1
    <3> QED
      BY <1>1, <3>1, <3>2 DEF MeasuredBefore
  <2>7. \A i \in 1..l : measured[i].position # n
    <3>1. n \notin KeptBefore(n)
      BY <1>3 DEF KeptBefore
    <3> QED
      BY <1>1, <2>3, <3>1 DEF MeasuredBefore
  <2>8. \A i, j \in DOMAIN measured' : measured'[i].position = measured'[j].position => i = j
    BY <1>1, <2>2, <2>3, <2>4, <2>7 DEF MeasuredBefore
  <2>9. \A i \in DOMAIN measured' :
            measured'[i].name = NameIn(format, payload.channels[measured'[i].position])
    BY <1>1, <2>2, <2>3, <2>4 DEF MeasuredBefore
  <2>10. MeasuredBefore(next)'
    BY <1>1, <1>6, <1>8, <2>3, <2>6, <2>8, <2>9 DEF MeasuredBefore
  <2> QED
    BY <1>1, <1>3, <1>4, <2>10 DEF Parses
<1>10. CASE PassOverChannel
  <2>1. measured' = measured /\ Outcome(format, payload.channels[n]) = "skip"
    BY <1>10 DEF PassOverChannel, Channel, locals
  <2>2. KeptBefore(n + 1) = KeptBefore(n)
    BY <1>7, <2>1
  <2>3. MeasuredBefore(next)'
    BY <1>1, <1>6, <1>8, <2>1, <2>2 DEF MeasuredBefore
  <2> QED
    BY <1>1, <1>3, <1>4, <2>3 DEF Parses
<1> QED
  BY <1>9, <1>10

(* At the end of the loop all of the payload's channels are measured.      *)
LEMMA ParseEnd ==
    ASSUME Parses, ParseReturns
    PROVE  Ensures'
<1>1. /\ pc = "parse" /\ Received /\ MeasuredBefore(next)
      /\ next > Len(payload.channels) /\ next \in 1..(Len(payload.channels) + 1)
      /\ parsed' = ResultOf(format, payload) /\ next' = 1
      /\ UNCHANGED <<measured, format, payload>>
  BY DEF ParseReturns, Parses, request
<1>2. Len(payload.channels) \in Nat
  BY <1>1, PayloadSequence DEF Received
<1>3. next = Len(payload.channels) + 1
  BY <1>1, <1>2
<1>4. MeasuredBefore(Len(payload.channels) + 1)'
  BY <1>1, <1>3 DEF MeasuredBefore, KeptBefore
<1>5. Received' /\ Len(measured) \in Nat
  BY <1>1, MeasuredSequence DEF Received
<1>6. next' \in 1..(Len(measured') + 1) /\ 1..(next' - 1) = {}
  BY <1>1, <1>5
<1> QED
  BY <1>1, <1>4, <1>5, <1>6 DEF Ensures

-----------------------------------------------------------------------------

(* ensureChannels and BuildTelemetry.                                      *)

(* A name that resolves does so to a channel that counts as its own.       *)
LEMMA ResolvedChannel ==
    ASSUME ChannelsMapped, NEW name, Resolves(name)
    PROVE  /\ Resolved(name) \in DOMAIN channels
           /\ NormalizeChannelTag(channels[Resolved(name)]) = NormalizeChannelTag(name)
<1>1. DOMAIN mappings = 1..Len(mappings) /\ Len(mappings) \in Nat
      /\ DOMAIN channels = 1..Len(channels) /\ Len(channels) \in Nat
  BY LenProperties DEF ChannelsMapped
<1>2. \A i \in Matches(name) :
          /\ i \in DOMAIN mappings /\ mappings[i].channel \in DOMAIN channels
          /\ NormalizeChannelTag(channels[mappings[i].channel]) = NormalizeChannelTag(name)
  BY DEF Matches, ChannelsMapped
<1>3. PICK m \in Matches(name) : TRUE
  BY DEF Resolves
<1>4. \A j \in Matches(name) : m = j
  <2> SUFFICES ASSUME NEW j \in Matches(name)
               PROVE  m = j
    OBVIOUS
  <2>1. mappings[m].channel <= mappings[j].channel /\ mappings[j].channel <= mappings[m].channel
    BY <1>2, <1>3 DEF ChannelsMapped, MappedChannelIsLast
  <2>2. mappings[m].channel = mappings[j].channel
    BY <1>1, <1>2, <1>3, <2>1
  <2> QED
    BY <1>2, <1>3, <2>2 DEF ChannelsMapped
<1>5. \A j \in Matches(name) : m <= j
  BY <1>1, <1>2, <1>3, <1>4
<1> DEFINE first == CHOOSE i \in Matches(name) : \A j \in Matches(name) : i <= j
<1>6. first \in Matches(name)
  BY <1>3, <1>5
<1>7. Resolved(name) = mappings[first].channel
  BY DEF Resolved
<1> QED
  BY <1>2, <1>6, <1>7

(* A mapping that is appended takes no channel from a name, and gives one  *)
(* to the name for which it was made.                                      *)
LEMMA CreationResolves ==
    ASSUME ChannelsMapped, CreateChannel,
           NEW given, Resolves(given) \/ given = Measurement.name
    PROVE  Resolves(given)'
<1> DEFINE name == TrimSpace(Measurement.name)
           n == Len(channels)
<1>1. PICK answered \in AnsweredTags(name) :
          mappings' = Append(mappings, [tag |-> MappedTag(name, answered), channel |-> n + 1])
  BY DEF CreateChannel
<1> DEFINE m == [tag |-> MappedTag(name, answered), channel |-> n + 1]
<1>2. NormalizeChannelTag(m.tag) = NormalizeChannelTag(Measurement.name)
  BY MappedUnderName, NormalForms
<1> HIDE DEF m, name
<1> DEFINE k == Len(mappings)
<1>3. /\ DOMAIN mappings = 1..k /\ DOMAIN mappings' = 1..(k + 1) /\ k \in Nat
      /\ \A i \in 1..k : mappings'[i] = mappings[i]
      /\ mappings'[k + 1] = m
  BY <1>1, AppendedSeq DEF ChannelsMapped, m
<1>4. CASE Resolves(given)
  <2>1. PICK i \in DOMAIN mappings : NormalizeChannelTag(mappings[i].tag) = NormalizeChannelTag(given)
    BY <1>4 DEF Resolves, Matches
  <2>2. i \in DOMAIN mappings' /\ mappings'[i] = mappings[i]
    BY <1>3
  <2> QED
    BY <2>1, <2>2 DEF Resolves, Matches
<1>5. CASE given = Measurement.name
  <2>1. k + 1 \in DOMAIN mappings'
    BY <1>3
  <2> QED
    BY <1>2, <1>3, <1>5, <2>1 DEF Resolves, Matches
<1> QED
  BY <1>4, <1>5

(* Of a measurement that it leaves behind, ensureChannels knows a channel, *)
(* unless it has no name.                                                  *)
LEMMA EnsureLoop ==
    ASSUME ChannelsMapped, Ensures, SkipChannel \/ CreateChannel
    PROVE  Ensures'
<1> DEFINE n == next
<1>1. /\ pc = "ensure" /\ Received /\ MeasuredBefore(Len(payload.channels) + 1)
      /\ parsed = ResultOf(format, payload)
      /\ n <= Len(measured) /\ n \in 1..(Len(measured) + 1)
      /\ next' = n + 1
      /\ UNCHANGED <<pc, format, payload, parsed, measured>>
  BY DEF SkipChannel, CreateChannel, Ensures, Ensuring, request, locals
<1>2. Len(measured) \in Nat
  BY <1>1, MeasuredSequence
<1>3. /\ n \in Nat /\ next' \in 1..(Len(measured') + 1)
      /\ \A i \in 1..(next' - 1) : i \in 1..(n - 1) \/ i = n
  BY <1>1, <1>2
<1>4. MeasuredBefore(Len(payload.channels) + 1)' /\ Received'
  BY <1>1 DEF MeasuredBefore, KeptBefore, Received
<1>5. \A i \in 1..(next' - 1) :
          \/ Resolves(measured[i].name)
          \/ i = n /\ CreateChannel
          \/ TrimSpace(measured[i].name) = ""
  <2>1. \A i \in 1..(n - 1) : Resolves(measured[i].name) \/ TrimSpace(measured[i].name) = ""
    BY <1>1 DEF Ensures
  <2>2. \/ Resolves(measured[n].name)
        \/ CreateChannel
        \/ TrimSpace(measured[n].name) = ""
    BY DEF SkipChannel, Measurement
  <2> QED
    BY <1>3, <2>1, <2>2
<1>6. ASSUME NEW name, Resolves(name) \/ (name = Measurement.name /\ CreateChannel)
      PROVE  Resolves(name)'
  <2>1. CASE SkipChannel
    <3>1. ~CreateChannel
      BY <2>1 DEF SkipChannel, CreateChannel
    <3> QED
      BY <1>6, <2>1, <3>1 DEF SkipChannel, device, Resolves, Matches
  <2>2. CASE CreateChannel
    BY <1>6, <2>2, CreationResolves
  <2> QED
    BY <2>1, <2>2
<1>7. \A i \in 1..(next' - 1) :
          Resolves(measured[i].name)' \/ TrimSpace(measured[i].name) = ""
  <2> SUFFICES ASSUME NEW i \in 1..(next' - 1), TrimSpace(measured[i].name) # ""
               PROVE  Resolves(measured[i].name)'
    OBVIOUS
  <2>1. Resolves(measured[i].name) \/ (measured[i].name = Measurement.name /\ CreateChannel)
    BY <1>5 DEF Measurement
  <2>2. ASSUME NEW name, name = measured[i].name
        PROVE  Resolves(name)'
    BY <1>6, <2>1, <2>2
  <2> QED
    BY <1>1, <2>2 DEF Resolves, Matches
<1> QED
  BY <1>1, <1>3, <1>4, <1>7 DEF Ensures

(* Parse measures each usable channel once.                                *)
LEMMA UsableMeasured ==
    ASSUME Received, MeasuredBefore(Len(payload.channels) + 1)
    PROVE  LET usable == {i \in DOMAIN payload.channels : Usable(format, payload.channels[i])}
           IN  /\ {measured[i].position : i \in DOMAIN measured} = usable
               /\ Cardinality(usable) = Len(measured)
<1> DEFINE usable == {i \in DOMAIN payload.channels : Usable(format, payload.channels[i])}
           l == Len(measured)
           position == [i \in 1..l |-> measured[i].position]
<1>1. /\ Len(payload.channels) \in Nat
      /\ DOMAIN payload.channels = 1..Len(payload.channels)
  BY PayloadSequence DEF Received
<1>2. (Len(payload.channels) + 1) - 1 = Len(payload.channels)
  BY <1>1
<1>3. \A i \in DOMAIN payload.channels :
          Outcome(format, payload.channels[i]) = "keep" <=> Usable(format, payload.channels[i])
  <2>1. \A c : Outcome(format, c) # "fail" => (Outcome(format, c) = "keep" <=> Usable(format, c))
    BY OutcomeIsRight DEF Received
  <2> QED
    BY <1>1, <1>2, <2>1 DEF MeasuredBefore
<1>4. KeptBefore(Len(payload.channels) + 1) = usable
  BY <1>1, <1>2, <1>3 DEF KeptBefore
<1>5. {measured[i].position : i \in DOMAIN measured} = usable
  BY <1>4 DEF MeasuredBefore
<1>6. l \in Nat /\ DOMAIN measured = 1..l
  BY MeasuredSequence
<1> HIDE DEF usable
<1>7. \A i \in 1..l : measured[i].position \in usable
  BY <1>5, <1>6
<1>8. \A p \in usable : \E i \in 1..l : measured[i].position = p
  BY <1>5, <1>6
<1>9. \A i, j \in 1..l : measured[i].position = measured[j].position => i = j
  BY <1>6 DEF MeasuredBefore
<1>10. position \in Bijection(1..l, usable)
  <2>1. position \in [1..l -> usable]
    BY <1>7
  <2>2. position \in Injection(1..l, usable)
    BY <1>9, <2>1 DEF Injection, IsInjective
  <2>3. position \in Surjection(1..l, usable)
    BY <1>8, <2>1 DEF Surjection
  <2> QED
    BY <2>2, <2>3 DEF Bijection
<1>11. IsFiniteSet(1..l) /\ Cardinality(1..l) = l
  <2>1. ASSUME NEW n \in Int
        PROVE  IsFiniteSet(1..n) /\ Cardinality(1..n) = IF 1 > n THEN 0 ELSE n - 1 + 1
    <3>1. 1 \in Int
      OBVIOUS
    <3> QED
      BY <3>1, FS_Interval, Zenon
  <2> QED
    BY <1>6, <2>1
<1>12. Cardinality(usable) = l
  BY <1>10, <1>11, FS_Bijection DEF ExistsBijection
<1> QED
  BY <1>5, <1>12 DEF usable

(* The time arrives as it was measured unless it lies before 1970.         *)
LEMMA TimeFaithful ==
    ASSUME Received
    PROVE  LET result == ResultOf(format, payload) IN
           /\ result.occurredAt \in Int /\ Uint64(result.occurredAt) \in Nat
           /\ MeasuredAt(format, payload) >= 0 => Uint64(result.occurredAt) = MeasuredAt(format, payload)
           /\ result.battery \subseteq {"battery"} /\ result.signal \subseteq {"rssi"}
           /\ (format = "ULogger") <=> (result.battery # {} /\ result.signal # {})
<1>1. payload.time \in Int /\ payload.time < 32768
  BY PayloadSequence DEF Received, Int64
<1>2. \A seconds \in Int :
          /\ seconds % 65536 \in Nat
          /\ 0 <= seconds /\ seconds < 65536 => seconds % 65536 = seconds
  OBVIOUS
<1>3. MeasuredAt(format, payload) \in Int /\ MeasuredAt(format, payload) < 65536
  BY <1>1 DEF MeasuredAt, Epoch
<1>4. LET result == ResultOf(format, payload) IN
      /\ result.occurredAt = MeasuredAt(format, payload)
      /\ result.battery \subseteq {"battery"} /\ result.signal \subseteq {"rssi"}
      /\ (format = "ULogger") <=> (result.battery # {} /\ result.signal # {})
  <2>1. CASE format = "ULogger"
    <3>1. ResultOf(format, payload) = ULoggerResult(payload)
      BY <2>1 DEF ResultOf
    <3> QED
      BY <1>1, <2>1, <3>1 DEF ULoggerResult, MeasuredAt, Epoch, SecondsSince2000ToUnix
  <2>2. CASE format \in {"WebSensor", "SoapTx"}
    <3>1. ResultOf(format, payload) = [occurredAt |-> payload.time, battery |-> {}, signal |-> {}]
      BY <2>2 DEF ResultOf, WebSensorResult, SoapTxResult
    <3> QED
      BY <1>1, <2>2, <3>1 DEF MeasuredAt, Epoch
  <2> QED
    BY <2>1, <2>2 DEF Received, Formats
<1> QED
  BY <1>2, <1>3, <1>4 DEF Uint64

(* The length of a sequence given by its elements.                         *)
LEMMA LengthOf ==
    ASSUME NEW n \in Nat, NEW S, NEW s \in [1..n -> S]
    PROVE  Len(s) = n
<1>1. s \in Seq(S)
  BY SeqDef
<1>2. Len(s) \in Nat /\ 1..Len(s) = 1..n
  BY <1>1, LenProperties
<1> QED
  BY <1>2

(* A sample that is built is faithful, and only a ULogger's payload can be *)
(* turned away for a measurement without a name.                           *)
LEMMA BuildFaithful ==
    ASSUME ChannelsMapped, Ensures, Build
    PROVE  /\ SampleFaithful'
           /\ reply' = "accepted" =>
                /\ sample'.t0 \in Nat
                /\ sample'.battery \subseteq {"battery"} /\ sample'.signal \subseteq {"rssi"}
                /\ \A i \in DOMAIN sample'.series : sample'.series[i].channel \in DOMAIN channels
           /\ reply' = "unresolved" => format \notin {"WebSensor", "SoapTx"}
<1> DEFINE l == Len(measured)
           result == ResultOf(format, payload)
           usable == {i \in DOMAIN payload.channels : Usable(format, payload.channels[i])}
           series == [i \in DOMAIN measured |->
                         [channel |-> Resolved(measured[i].name), position |-> measured[i].position]]
<1>1. /\ pc = "ensure" /\ Received /\ MeasuredBefore(Len(payload.channels) + 1)
      /\ parsed = result
      /\ next > l /\ next \in 1..(l + 1)
      /\ UNCHANGED <<format, payload, measured, channels>>
  BY DEF Build, Ensures, request, locals, device
<1>2. l \in Nat /\ DOMAIN measured = 1..l
  BY <1>1, MeasuredSequence
<1>3. \A i \in 1..l : Resolves(measured[i].name) \/ TrimSpace(measured[i].name) = ""
  <2>1. next - 1 = l
    BY <1>1, <1>2
  <2> QED
    BY <1>1, <2>1 DEF Ensures
<1>4. /\ \A i \in 1..l : /\ measured[i].position \in usable
                        /\ measured[i].name = NameIn(format, payload.channels[measured[i].position])
      /\ {measured[i].position : i \in 1..l} = usable
      /\ Cardinality(usable) = l
  BY <1>1, <1>2, UsableMeasured DEF MeasuredBefore
<1>5. CASE \A i \in 1..l : Resolves(measured[i].name)
  <2>1. reply' = "accepted" /\ sample' = SampleOf
    BY <1>2, <1>5 DEF Build, Answer
  <2>2. /\ sample'.series = series
        /\ sample'.t0 = Uint64(result.occurredAt)
        /\ sample'.battery = result.battery /\ sample'.signal = result.signal
    BY <1>1, <2>1 DEF SampleOf
  <2>3. \A i \in 1..l :
            /\ series[i].position = measured[i].position
            /\ series[i].channel \in DOMAIN channels
            /\ NormalizeChannelTag(channels[series[i].channel]) =
               NormalizeChannelTag(NameOf(format, payload.channels[series[i].position]))
    <3> SUFFICES ASSUME NEW i \in 1..l
                 PROVE  /\ series[i].position = measured[i].position
                        /\ series[i].channel \in DOMAIN channels
                        /\ NormalizeChannelTag(channels[series[i].channel]) =
                           NormalizeChannelTag(NameOf(format, payload.channels[series[i].position]))
      OBVIOUS
    <3>1. series[i].position = measured[i].position /\ series[i].channel = Resolved(measured[i].name)
      BY <1>2
    <3>2. /\ Resolved(measured[i].name) \in DOMAIN channels
          /\ NormalizeChannelTag(channels[Resolved(measured[i].name)]) =
             NormalizeChannelTag(measured[i].name)
      BY <1>5, ResolvedChannel
    <3>3. NormalizeChannelTag(measured[i].name) =
          NormalizeChannelTag(NameOf(format, payload.channels[measured[i].position]))
      BY <1>1, <1>4, OutcomeIsRight DEF Received
    <3> QED
      BY <3>1, <3>2, <3>3
  <2>4. DOMAIN series = 1..l /\ Len(series) = l
    <3>1. series \in [1..l -> {series[i] : i \in 1..l}]
      BY <1>2
    <3> QED
      BY <1>2, <3>1, LengthOf
  <2>5. {series[i].position : i \in DOMAIN series} = usable
    BY <1>4, <2>3, <2>4
  <2>6. /\ result.occurredAt \in Int /\ Uint64(result.occurredAt) \in Nat
        /\ MeasuredAt(format, payload) >= 0 => Uint64(result.occurredAt) = MeasuredAt(format, payload)
        /\ result.battery \subseteq {"battery"} /\ result.signal \subseteq {"rssi"}
        /\ (format = "ULogger") <=> (result.battery # {} /\ result.signal # {})
    BY <1>1, TimeFaithful
  <2>7. usable = {i \in DOMAIN payload.channels :
                     ~NotInUse(format, payload.channels[i]) /\ ~Erroneous(format, payload.channels[i])}
    BY DEF Usable
  <2> HIDE DEF usable, series, result
  <2>8. SampleFaithful'
    BY <1>1, <1>4, <2>2, <2>3, <2>4, <2>5, <2>6, <2>7 DEF SampleFaithful
  <2> QED
    BY <2>1, <2>2, <2>3, <2>4, <2>6, <2>8
<1>6. CASE ~\A i \in 1..l : Resolves(measured[i].name)
  <2>1. reply' = "unresolved"
    BY <1>2, <1>6 DEF Build, Answer
  <2>2. PICK i \in 1..l : TrimSpace(measured[i].name) = ""
    BY <1>3, <1>6
  <2>3. CASE format \in {"WebSensor", "SoapTx"}
    <3> DEFINE c == payload.channels[measured[i].position]
    <3>1. Outcome(format, c) = "keep" /\ measured[i].name = NameIn(format, c)
      BY <1>1, <1>2 DEF MeasuredBefore, KeptBefore
    <3>2. format = "WebSensor" => c.value \in HexValues
      BY <1>1, <1>4, PayloadSequence DEF Received
    <3> QED
      BY <2>2, <2>3, <3>1, <3>2, WebAndSoapOutcome
  <2> QED
    BY <2>1, <2>3 DEF SampleFaithful
<1> QED
  BY <1>5, <1>6

-----------------------------------------------------------------------------

(* The invariant is inductive.                                             *)

LEMMA Initially == Init => IInv
<1> SUFFICES ASSUME Init PROVE IInv
  OBVIOUS
<1>1. Len(<<>>) = 0 /\ DOMAIN <<>> = {} /\ \A S : <<>> \in Seq(S)
  BY EmptySeq
<1>2. TypeOK
  BY <1>1, UploadsAssumption DEF Init, TypeOK, NoResult, NoSample
<1>3. ChannelsMapped
  BY <1>1 DEF Init, ChannelsMapped, MappedChannelIsLast
<1> QED
  BY <1>2, <1>3 DEF Init, IInv, Parses, Ensures, Answers, SampleFaithful

(* A step that is not of the parser keeps what it knows, and one that      *)
(* ends the request leaves none of it.                                     *)
LEMMA UploadStep ==
    ASSUME IInv, [Next]_vars
    PROVE  Parses' /\ Ensures' /\ (pc' = "idle" => measured' = <<>> /\ next' = 1)
<1>0. Parses /\ Ensures /\ ChannelsMapped /\ (pc = "idle" => measured = <<>> /\ next = 1)
  BY DEF IInv
<1>1. CASE Unsupported
  BY <1>1 DEF Unsupported, Answer, Parses, Ensures
<1>2. ASSUME NEW p \in Payloads(format), Receive(p)
      PROVE  Parses' /\ Ensures' /\ pc' # "idle"
  <2>1. CASE Answer("unparsable")
    BY <2>1 DEF Answer, Parses, Ensures
  <2>2. CASE Readable(format, p) /\ pc' = "parse"
    <3>1. /\ payload' = p /\ next' = 1 /\ measured' = <<>> /\ format' = format
          /\ pc = "idle" /\ format # "other"
      BY <1>0, <1>2 DEF Receive, locals
    <3>2. format \in Formats
      BY <3>1 DEF IInv, TypeOK
    <3>3. Received'
      BY <1>2, <2>2, <3>1, <3>2 DEF Received
    <3>4. Len(payload'.channels) \in Nat
      BY <1>2, <3>1, <3>2, PayloadSequence
    <3>5. next' - 1 = 0 /\ 1..0 = {} /\ next' \in 1..(Len(payload'.channels) + 1)
      BY <3>1, <3>4
    <3>6. DOMAIN measured' = {} /\ measured' \in Seq(Range(measured'))
      BY <3>1, EmptySeq
    <3>7. MeasuredBefore(next)'
      BY <3>5, <3>6 DEF MeasuredBefore, KeptBefore
    <3> QED
      BY <2>2, <3>3, <3>5, <3>7 DEF Parses, Ensures
  <2> QED
    BY <1>2, <2>1, <2>2 DEF Receive
<1>3. CASE KeepChannel \/ PassOverChannel
  <2>1. pc' = "parse"
    BY <1>3 DEF KeepChannel, PassOverChannel, Parsing
  <2> QED
    BY <1>0, <1>3, <2>1, ParseLoop DEF Ensures
<1>4. CASE ParseReturns
  <2>1. pc' = "ensure"
    BY <1>4 DEF ParseReturns
  <2> QED
    BY <1>0, <1>4, <2>1, ParseEnd DEF Parses
<1>5. CASE SkipChannel \/ CreateChannel
  <2>1. pc' = "ensure"
    BY <1>5 DEF SkipChannel, CreateChannel, Ensuring
  <2> QED
    BY <1>0, <1>5, <2>1, EnsureLoop DEF Parses
<1>6. CASE ParseFails \/ CreateFails \/ Build
  <2>1. pc' = "answered"
    BY <1>6 DEF ParseFails, CreateFails, Build, Answer
  <2> QED
    BY <2>1 DEF Parses, Ensures
<1>7. CASE Finish
  BY <1>7 DEF Finish, Parses, Ensures
<1>8. CASE UNCHANGED vars
  <2>1. UNCHANGED <<pc, format, payload, parsed, measured, next, mappings>>
    BY <1>8 DEF vars, request, locals, device
  <2>2. Received => Received'
    BY <2>1 DEF Received
  <2>3. /\ MeasuredBefore(next) => MeasuredBefore(next)'
        /\ MeasuredBefore(Len(payload.channels) + 1) => MeasuredBefore(Len(payload.channels) + 1)'
    BY <2>1 DEF MeasuredBefore, KeptBefore
  <2>4. \A i : Resolves(measured[i].name) => Resolves(measured[i].name)'
    BY <2>1 DEF Resolves, Matches
  <2> QED
    BY <1>0, <2>1, <2>2, <2>3, <2>4 DEF Parses, Ensures
<1> QED
  BY <1>1, <1>2, <1>3, <1>4, <1>5, <1>6, <1>7, <1>8 DEF Next

(* Every answer has its reason.                                            *)
LEMMA AnswerStep ==
    ASSUME IInv, [Next]_vars
    PROVE  Answers' /\ SampleFaithful'
<1>0. TypeOK /\ ChannelsMapped /\ Parses /\ Ensures /\ Answers /\ SampleFaithful
  BY DEF IInv
<1>1. CASE Unsupported
  BY <1>0, <1>1 DEF Unsupported, Answer, request, Answers, SampleFaithful
<1>2. ASSUME NEW p, Receive(p)
      PROVE  Answers' /\ SampleFaithful'
  BY <1>0, <1>2 DEF Receive, Answer, Answers, SampleFaithful
<1>3. CASE KeepChannel \/ PassOverChannel \/ ParseReturns \/ SkipChannel \/ CreateChannel
  <2>1. /\ reply = "none" /\ reply' = "none" /\ sample' = sample /\ pc' # "answered"
    BY <1>0, <1>3 DEF KeepChannel, PassOverChannel, ParseReturns, SkipChannel, CreateChannel,
          Parsing, Ensuring, Answers
  <2> QED
    BY <1>0, <2>1 DEF Answers, SampleFaithful
<1>4. CASE ParseFails
  <2>1. /\ pc' = "answered" /\ reply' = "unparsable" /\ sample' = sample /\ sample = NoSample
        /\ UNCHANGED <<format, payload>>
        /\ Outcome(format, payload.channels[next]) = "fail"
        /\ Received /\ next <= Len(payload.channels) /\ next \in 1..(Len(payload.channels) + 1)
    BY <1>0, <1>4 DEF ParseFails, Answer, request, Parsing, Channel, Parses, Answers
  <2>2. next \in DOMAIN payload.channels
    BY <2>1, PayloadSequence DEF Received
  <2> QED
    BY <2>1, <2>2 DEF Answers, SampleFaithful, Received
<1>5. CASE CreateFails
  BY <1>0, <1>5 DEF CreateFails, Ensuring, Answer, Answers, SampleFaithful
<1>6. CASE Build
  <2>1. /\ pc' = "answered" /\ reply' \in {"accepted", "unresolved"} /\ format' = format
        /\ reply' = "unresolved" => sample' = sample /\ sample = NoSample
    BY <1>0, <1>6 DEF Build, Answer, request, Answers
  <2> QED
    BY <1>0, <1>6, <2>1, BuildFaithful DEF Answers
<1>7. CASE Finish
  BY <1>7 DEF Finish, Answers, SampleFaithful
<1>8. CASE UNCHANGED vars
  BY <1>0, <1>8 DEF vars, request, locals, device, Answers, SampleFaithful
<1> QED
  BY <1>1, <1>2, <1>3, <1>4, <1>5, <1>6, <1>7, <1>8 DEF Next

(* The types, in three parts.                                              *)

(* The places, answers and counts.                                         *)
LEMMA PlacesTyped ==
    ASSUME TypeOK, [Next]_vars
    PROVE  /\ pc' \in {"idle", "parse", "ensure", "answered"}
           /\ format' \in Formats \cup {"other"}
           /\ reply' \in {"none", "unsupported", "unparsable", "no channel", "unresolved", "accepted"}
           /\ uploads' \in 0..MaxUploads
<1> USE DEF request
<1>0. /\ pc \in {"idle", "parse", "ensure", "answered"}
      /\ format \in Formats \cup {"other"}
      /\ reply \in {"none", "unsupported", "unparsable", "no channel", "unresolved", "accepted"}
      /\ uploads \in 0..MaxUploads /\ MaxUploads \in Nat
  BY UploadsAssumption DEF TypeOK
<1>00. ASSUME uploads < MaxUploads, uploads' = uploads + 1
      PROVE  uploads' \in 0..MaxUploads
  <2>1. uploads \in 0..MaxUploads /\ MaxUploads \in Nat
    BY <1>0
  <2> QED
    BY <1>00, <2>1
<1>1. CASE Unsupported
  <2>1. uploads < MaxUploads /\ uploads' = uploads + 1
    BY <1>1 DEF Unsupported
  <2>2. uploads' \in 0..MaxUploads
    BY <1>00, <2>1
  <2>3. pc' = "answered" /\ reply' = "unsupported" /\ format' = format
    BY <1>1 DEF Unsupported, Answer
  <2> QED
    BY <1>0, <2>2, <2>3
<1>2. ASSUME NEW p, Receive(p)
      PROVE  /\ pc' \in {"parse", "answered"} /\ format' = format
             /\ reply' \in {reply, "unparsable"} /\ uploads' \in 0..MaxUploads
  <2>1. uploads < MaxUploads /\ uploads' = uploads + 1
    BY <1>2 DEF Receive
  <2>2. uploads' \in 0..MaxUploads
    BY <1>00, <2>1
  <2>3. pc' \in {"parse", "answered"} /\ format' = format /\ reply' \in {reply, "unparsable"}
    BY <1>2 DEF Receive, Answer
  <2> QED
    BY <2>2, <2>3
<1>3. CASE KeepChannel \/ PassOverChannel \/ ParseFails \/ ParseReturns
  BY <1>0, <1>3 DEF KeepChannel, PassOverChannel, ParseFails, ParseReturns, Answer
<1>4. CASE SkipChannel \/ CreateChannel \/ CreateFails
  BY <1>0, <1>4 DEF SkipChannel, CreateChannel, CreateFails, Answer
<1>5. CASE Build
  BY <1>0, <1>5 DEF Build, Answer
<1>6. CASE Finish \/ UNCHANGED vars
  BY <1>0, <1>6 DEF Finish, vars
<1> QED
  BY <1>0, <1>1, <1>2, <1>3, <1>4, <1>5, <1>6 DEF Next

(* How far the loops are, and what they have measured.                     *)
LEMMA LoopsTyped ==
    ASSUME IInv, [Next]_vars
    PROVE  /\ \A i \in DOMAIN measured' : measured'[i].position \in DOMAIN payload'.channels
           /\ next' \in 1..((IF pc' = "parse" THEN Len(payload'.channels) ELSE Len(measured')) + 1)
<1>1. /\ Parses' /\ Ensures' /\ (pc' = "idle" => measured' = <<>> /\ next' = 1)
      /\ pc' \in {"idle", "parse", "ensure", "answered"}
  BY UploadStep, PlacesTyped DEF IInv
<1>2. ASSUME NEW n \in 1..(Len(payload'.channels) + 1), Received', MeasuredBefore(n)'
      PROVE  \A i \in DOMAIN measured' : measured'[i].position \in DOMAIN payload'.channels
  <2>1. /\ DOMAIN payload'.channels = 1..Len(payload'.channels)
        /\ Len(payload'.channels) \in Nat
    BY <1>2, PayloadSequence DEF Received
  <2>2. 1..(n - 1) \subseteq DOMAIN payload'.channels
    BY <2>1
  <2>3. {measured'[i].position : i \in DOMAIN measured'} \subseteq 1..(n - 1)
    BY <1>2 DEF MeasuredBefore, KeptBefore
  <2> QED
    BY <2>2, <2>3
<1>3. CASE pc' = "parse"
  <2>1. /\ Received' /\ MeasuredBefore(next)'
        /\ next' \in 1..(Len(payload'.channels) + 1)
    BY <1>1, <1>3 DEF Parses
  <2>2. ASSUME NEW n, n = next' PROVE MeasuredBefore(n)'
    BY <2>1, <2>2 DEF MeasuredBefore, KeptBefore
  <2> QED
    BY <1>2, <1>3, <2>1, <2>2
<1>4. CASE pc' = "ensure"
  <2>1. /\ Received' /\ MeasuredBefore(Len(payload.channels) + 1)'
        /\ next' \in 1..(Len(measured') + 1)
    BY <1>1, <1>4 DEF Ensures
  <2>2. Len(payload'.channels) + 1 \in 1..(Len(payload'.channels) + 1)
    BY <2>1, PayloadSequence DEF Received
  <2>3. ASSUME NEW n, n = Len(payload'.channels) + 1 PROVE MeasuredBefore(n)'
    BY <2>1, <2>3 DEF MeasuredBefore, KeptBefore
  <2> QED
    BY <1>2, <1>4, <2>1, <2>2, <2>3
<1>5. CASE measured' = <<>> /\ next' = 1 /\ pc' # "parse"
  BY <1>5, EmptySeq
<1>6. CASE /\ UNCHANGED <<measured, next>> /\ pc' # "parse" /\ pc # "parse"
           /\ payload' = payload \/ measured = <<>>
  <2>1. measured = <<>> => DOMAIN measured = {}
    BY EmptySeq
  <2> QED
    BY <1>6, <2>1 DEF IInv, TypeOK
<1>7. CASE pc' = "answered"
  <2> USE DEF IInv
  <2>1. CASE Unsupported
    BY <1>6, <1>7, <2>1 DEF Unsupported, request, locals
  <2>2. ASSUME NEW p, Receive(p)
        PROVE  UNCHANGED <<measured, next>> /\ pc # "parse" /\ measured = <<>>
    BY <2>2 DEF Receive, locals
  <2>3. CASE ParseFails
    BY <1>5, <1>7, <2>3 DEF ParseFails
  <2>4. CASE CreateFails \/ Build
    BY <1>6, <1>7, <2>4 DEF CreateFails, Build, Ensuring, request, locals
  <2>5. CASE UNCHANGED vars
    BY <1>6, <1>7, <2>5 DEF vars, request, locals
  <2>6. CASE KeepChannel \/ PassOverChannel \/ ParseReturns \/ SkipChannel \/ CreateChannel \/ Finish
    BY <1>7, <2>6 DEF KeepChannel, PassOverChannel, ParseReturns, SkipChannel, CreateChannel, Finish,
          Parsing, Ensuring
  <2> QED
    BY <1>6, <1>7, <2>1, <2>2, <2>3, <2>4, <2>5, <2>6 DEF Next
<1> QED
  BY <1>1, <1>3, <1>4, <1>5, <1>7

(* The result of Parse, and the sample.                                    *)
LEMMA ResultsTyped ==
    ASSUME IInv, [Next]_vars
    PROVE  /\ parsed'.occurredAt \in Int
           /\ \A i \in DOMAIN mappings' : mappings'[i].channel \in DOMAIN channels'
           /\ sample'.t0 \in Nat
           /\ sample'.battery \subseteq {"battery"} /\ sample'.signal \subseteq {"rssi"}
           /\ \A i \in DOMAIN sample'.series : sample'.series[i].channel \in DOMAIN channels'
<1>0. TypeOK /\ ChannelsMapped /\ ChannelsMapped' /\ Parses /\ Ensures /\ Answers
  BY MappedStep DEF IInv
<1>1. \A i \in DOMAIN mappings' : mappings'[i].channel \in DOMAIN channels'
  BY <1>0 DEF ChannelsMapped
<1>2. parsed'.occurredAt \in Int
  <2>1. CASE UNCHANGED parsed
    BY <1>0, <2>1 DEF TypeOK
  <2>2. CASE ParseReturns
    <3>1. Received
      BY <1>0, <2>2 DEF ParseReturns, Parses
    <3> QED
      BY <2>2, <3>1, TimeFaithful DEF ParseReturns
  <2>3. CASE Finish
    BY <2>3 DEF Finish, NoResult
  <2>4. ASSUME NEW p, Receive(p) PROVE UNCHANGED parsed
    BY <2>4 DEF Receive, locals
  <2>5. CASE Unsupported \/ KeepChannel \/ PassOverChannel \/ ParseFails
    BY <2>1, <2>5 DEF Unsupported, KeepChannel, PassOverChannel, ParseFails, locals
  <2>6. CASE SkipChannel \/ CreateChannel \/ CreateFails \/ Build \/ UNCHANGED vars
    BY <2>1, <2>6 DEF SkipChannel, CreateChannel, CreateFails, Build, vars, locals
  <2> QED
    BY <2>1, <2>2, <2>3, <2>4, <2>5, <2>6 DEF Next
<1> DEFINE SampleTyped ==
              /\ sample.t0 \in Nat
              /\ sample.battery \subseteq {"battery"} /\ sample.signal \subseteq {"rssi"}
              /\ \A i \in DOMAIN sample.series : sample.series[i].channel \in DOMAIN channels
<1>3. SampleTyped'
  <2>1. CASE sample' = NoSample
    BY <2>1, EmptySeq DEF NoSample
  <2>2. CASE UNCHANGED <<sample, channels>>
    BY <1>0, <2>2 DEF TypeOK
  <2>3. CASE Build
    <3>1. CASE reply' = "accepted"
      BY <1>0, <2>3, <3>1, BuildFaithful DEF Build, device
    <3>2. CASE reply' # "accepted"
      BY <2>2, <2>3, <3>2 DEF Build, Answer, device
    <3> QED
      BY <3>1, <3>2
  <2>4. CASE CreateChannel
    BY <1>0, <2>1, <2>4 DEF CreateChannel, Ensuring, Answers
  <2>5. CASE Finish
    BY <2>1, <2>5 DEF Finish
  <2>6. ASSUME NEW p, Receive(p) PROVE UNCHANGED <<sample, channels>>
    BY <2>6 DEF Receive, device
  <2>7. CASE Unsupported \/ KeepChannel \/ PassOverChannel \/ ParseFails \/ ParseReturns
    BY <2>2, <2>7 DEF Unsupported, KeepChannel, PassOverChannel, ParseFails, ParseReturns, device
  <2>8. CASE SkipChannel \/ UNCHANGED vars
    BY <2>2, <2>8 DEF SkipChannel, vars, device
  <2>9. CASE CreateFails
    BY <1>0, <2>1, <2>9 DEF CreateFails, Ensuring, Answers
  <2> QED
    BY <2>2, <2>3, <2>4, <2>5, <2>6, <2>7, <2>8, <2>9 DEF Next
<1> QED
  BY <1>1, <1>2, <1>3

LEMMA InvStep == IInv /\ [Next]_vars => IInv'
<1> SUFFICES ASSUME IInv, [Next]_vars PROVE IInv'
  OBVIOUS
<1>1. TypeOK'
  BY PlacesTyped, LoopsTyped, ResultsTyped DEF IInv, TypeOK
<1>2. ChannelsMapped'
  BY MappedStep DEF IInv
<1> QED
  BY <1>1, <1>2, UploadStep, AnswerStep DEF IInv

-----------------------------------------------------------------------------

(* The types: what is measured and sampled belongs to the payload at hand  *)
(* and to channels of the deployment, for any payloads.                    *)
THEOREM UploadTypes == Spec => []TypeOK
<1>1. IInv => TypeOK
  BY DEF IInv
<1> QED
  BY <1>1, Initially, InvStep, PTL DEF Spec

(* A sample has exactly the values that were measured, each under its own  *)
(* channel, for payloads of any length and with any channels: the parsers' *)
(* loops, ensureChannels and BuildTelemetry lose, shift and invent nothing *)
(* (parser.go, service.go:205, types.go:63).                               *)
THEOREM SamplesAreFaithful == Spec => []SampleFaithful
<1>1. IInv => SampleFaithful
  BY DEF IInv
<1> QED
  BY <1>1, Initially, InvStep, PTL DEF Spec

(* A payload of a WebSensor or SOAP device that can be read is not turned  *)
(* away for what its channels report, whatever errors they do              *)
(* (websensor/parser.go:136, soaptx/parser.go:221).                        *)
THEOREM FailedProbesTolerated == Spec => []ErrorsTolerated
<1>1. IInv => ErrorsTolerated
  <2> SUFFICES ASSUME IInv, pc = "answered", format \in {"WebSensor", "SoapTx"},
                      payload.header = "good", format = "SoapTx" => payload.element # "other",
                      \A i \in DOMAIN payload.channels :
                          payload.channels[i].value \notin {"unreadable", "0x error"}
               PROVE  reply \in {"accepted", "no channel"}
    BY DEF ErrorsTolerated
  <2>1. Readable(format, payload)
    BY DEF Readable, WebSensorReadable, SoapTxReadable
  <2>2. reply \notin {"none", "unsupported", "unresolved"}
    BY DEF IInv, Answers
  <2>3. reply # "unparsable"
    <3> SUFFICES ASSUME reply = "unparsable" PROVE FALSE
      OBVIOUS
    <3>1. PICK i \in DOMAIN payload.channels : Outcome(format, payload.channels[i]) = "fail"
      BY <2>1 DEF IInv, Answers
    <3>2. format = "WebSensor" => payload.channels[i].value \in HexValues
      BY <2>1, PayloadSequence DEF IInv, Answers, Formats
    <3> QED
      BY <3>1, <3>2, WebAndSoapOutcome
  <2> QED
    BY <2>2, <2>3 DEF IInv, TypeOK
<1> QED
  BY <1>1, Initially, InvStep, PTL DEF Spec

=============================================================================
