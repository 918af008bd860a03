---------------------------- MODULE ScreenHeader ----------------------------
(***************************************************************************)
(* From the replies of the instrument to the answers of the service: the   *)
(* screen header and the controls it reports, the readbacks, the identity, *)
(* the screen trace, and the RPC messages made of them (pkg/owonscpi,      *)
(* pkg/owonrpc).                                                           *)
(*                                                                         *)
(* A text of the instrument is the word that is left when blanks around it *)
(* and the case of its letters are dropped, which every parser but that of *)
(* the screen profile does first; "" is left of blanks. A text with a unit *)
(* is <<number, unit>>. A parser yields Malformed or what it read.         *)
(***************************************************************************)
EXTENDS ControlDialect

CONSTANT MaxInt32  \* 2^31 - 1 in the code

ASSUME MaxInt32Assumption == MaxInt32 \in Nat /\ MaxInt32 >= 200

Malformed == [error |-> "malformed"]

-----------------------------------------------------------------------------
(* The words of the header, and what they are in the domain model. *)

BooleanOf == [ON |-> TRUE, OFF |-> FALSE]
ChannelOf == [CH1 |-> 1, CH2 |-> 2]
CouplingOf == [AC |-> 1, DC |-> 2, GND |-> 3, GROUND |-> 3]
AcquisitionModeOf == [SAMPLE |-> 1, PEAK |-> 2, PEAKDETECT |-> 2, AVERAGE |-> 3]
TriggerSourceOf == [CH1 |-> 1, CH2 |-> 2]
TriggerSlopeOf == [RISE |-> 1, RISING |-> 1, FALL |-> 2, FALLING |-> 2]
TriggerSweepOf == [AUTO |-> 1, NORMAL |-> 2, NORM |-> 2, SINGLE |-> 3]

ProbeReads(text) == text[2] = "X" /\ Positive(text[1])

\* In microvolts.
Multiplier == [UV |-> 1, MV |-> 1000, V |-> 1000000]
VoltageReads(text) == text[2] \in DOMAIN Multiplier /\ Finite(text[1])
Voltage(text) == text[1] * Multiplier[text[2]]

-----------------------------------------------------------------------------
(* ScreenHeader.Controls and ScreenHeader.Probe *)

ChannelReads(c) ==
  /\ c.name \in DOMAIN ChannelOf
  /\ c.display \in DOMAIN BooleanOf
  /\ c.coupling \in DOMAIN CouplingOf
  /\ ProbeReads(c.probe)

ChannelState(c) ==
  [channel |-> ChannelOf[c.name], display |-> BooleanOf[c.display],
   coupling |-> CouplingOf[c.coupling], probeAttenuation |-> c.probe[1],
   scale |-> Trimmed(c.scale), screenHeaderOffset |-> c.offset]

\* Some firmware has the sweep among the items of the trigger.
SweepText(t) == IF t.sweep = "" THEN t.itemsSweep ELSE t.sweep

TriggerReads(t) ==
  /\ t.mode = "SINGLE" /\ t.type = "EDGE"
  /\ t.channel \in DOMAIN TriggerSourceOf
  /\ t.coupling \in DOMAIN CouplingOf
  /\ t.edge \in DOMAIN TriggerSlopeOf
  /\ VoltageReads(t.level)
  /\ SweepText(t) \in DOMAIN TriggerSweepOf

TriggerState(t, status) ==
  [source |-> TriggerSourceOf[t.channel], coupling |-> CouplingOf[t.coupling],
   slope |-> TriggerSlopeOf[t.edge], level |-> Voltage(t.level),
   sweep |-> TriggerSweepOf[SweepText(t)], status |-> status]

Controls(header) ==
  IF /\ header.sampleType \in DOMAIN AcquisitionModeOf
     /\ header.timebaseScale.form # "blank"
     /\ \A i \in DOMAIN header.channels : ChannelReads(header.channels[i])
     /\ TriggerReads(header.trigger)
  THEN [error |-> "ok",
        channels |-> [i \in DOMAIN header.channels |-> ChannelState(header.channels[i])],
        acquisition |-> [mode |-> AcquisitionModeOf[header.sampleType],
                         memoryDepth |-> header.memoryDepth],
        horizontal |-> [scale |-> Trimmed(header.timebaseScale),
                        screenHeaderOffset |-> header.timebaseOffset],
        trigger |-> TriggerState(header.trigger, header.status)]
  ELSE Malformed

\* The first entry of the channel counts, and no entry before it may be unreadable.
Probe(header, channel) ==
  LET cs == header.channels
      found == {i \in DOMAIN cs : cs[i].name = ChannelNames[channel]}
      first == CHOOSE i \in found : \A j \in found : i <= j
  IN  IF /\ found # {}
         /\ \A i \in 1..first : cs[i].name \in DOMAIN ChannelOf
         /\ ProbeReads(cs[first].probe)
      THEN [error |-> "ok", probe |-> cs[first].probe[1]]
      ELSE Malformed

-----------------------------------------------------------------------------
(* Readbacks. A reply is the sequence of its words. *)

ParseAcquisitionMode(reply) ==
  IF Len(reply) = 1 /\ reply[1] \in DOMAIN AcquisitionModeOf
  THEN [error |-> "ok", mode |-> AcquisitionModeOf[reply[1]]] ELSE Malformed

DMMRangeOf == [ON |-> 1, MV |-> 2, V |-> 3]
ParseDMMRange(reply) ==
  IF Len(reply) = 1 /\ reply[1] \in DOMAIN DMMRangeOf
  THEN [error |-> "ok", range |-> DMMRangeOf[reply[1]]] ELSE Malformed

DMMFunctionOf ==
  [VOLTAGE |-> 1, CURRENT |-> 2, RESISTANCE |-> 3, CAPACITANCE |-> 4, DIODE |-> 5,
   CONTINUITY |-> 6]
DMMCurrentTypeOf == [AC |-> 1, DC |-> 2]

\* A current type answers only the two queries that ask for one; 0 is none.
ParseDMMFunction(function, reply) ==
  IF Len(reply) # 1 THEN Malformed
  ELSE IF reply[1] = "error" THEN [error |-> "functionUnavailable"]
  ELSE IF reply[1] \in DOMAIN DMMCurrentTypeOf /\ function \in 1..2
    THEN [error |-> "ok", function |-> function, currentType |-> DMMCurrentTypeOf[reply[1]]]
  ELSE IF reply[1] \in DOMAIN DMMFunctionOf
    THEN [error |-> "ok", function |-> DMMFunctionOf[reply[1]], currentType |-> 0]
  ELSE Malformed

\* A number, and perhaps a unit.
ParseDMMMeasurement(reply) ==
  IF Len(reply) \in 1..2 /\ Finite(reply[1])
  THEN [error |-> "ok", value |-> reply[1], unit |-> IF Len(reply) = 2 THEN reply[2] ELSE ""]
  ELSE Malformed

ParseMeasurement(selector, number) ==
  IF Finite(number)
  THEN [error |-> "ok", channel |-> selector[1], kind |-> selector[2], value |-> number,
        unit |-> MeasurementUnits[selector[2]]]
  ELSE Malformed

\* Four fields between commas, none of them blank.
ParseIdentity(fields) ==
  IF Len(fields) = 4 /\ \A i \in 1..4 : fields[i] # ""
  THEN [error |-> "ok", manufacturer |-> fields[1], model |-> fields[2],
        serial |-> fields[3], firmware |-> fields[4]]
  ELSE Malformed

CapabilitiesForModel(model) == IF model = "HDS2202S" THEN <<1, 2, 3, 4>> ELSE <<>>

-----------------------------------------------------------------------------
(* The screen trace *)

WaveformRefusal(request) ==
  IF request.channel \notin Channels THEN "invalidRequest"
  ELSE IF ~request.screen THEN "unsupportedControl" ELSE "ok"

ScreenTraceWidth == 600
ScreenTraceCenterY == 100
ProvedProfile ==
  [MODEL |-> "HDS2202S_LS", DATATYPE |-> "SCREEN", FULLSCREEN |-> 600, DATALEN |-> 600,
   TYPE |-> "SAMPle", SLOWMOVE |-> -1]

Int8(byte) == IF byte >= 128 THEN byte - 256 ELSE byte

\* Every second sample is the one before it again.
Coordinates(data) ==
  [i \in DOMAIN data |-> ScreenTraceCenterY - Int8(data[IF i % 2 = 0 THEN i - 1 ELSE i])]

UnprovedProfile == [error |-> "unsupportedProfile"]

\* A profile that was not proved to mean coordinates yields no trace, and one that
\* contradicts itself is malformed. An offset puts ground at center - offset.
DecodeScreenTrace(channel, profile, data) ==
  LET named == {i \in DOMAIN profile.channels : profile.channels[i].name = ChannelNames[channel]}
      offset == profile.channels[CHOOSE i \in named : TRUE].offset
  IN  IF ~profile.isObject THEN Malformed
      ELSE IF ~\A f \in DOMAIN ProvedProfile :
                 Has(profile.fields, f) /\ profile.fields[f] = ProvedProfile[f]
        THEN UnprovedProfile
      ELSE IF profile.screenOffset \notin {<<>>, <<0>>} THEN UnprovedProfile
      ELSE IF Cardinality(named) > 1 THEN Malformed
      ELSE IF named = {} \/ offset = <<>> THEN UnprovedProfile
      ELSE IF ~(ScreenTraceCenterY - offset[1] \in (-MaxInt32 - 1)..MaxInt32) THEN Malformed
      ELSE IF Len(data) # ScreenTraceWidth THEN Malformed
      ELSE [error |-> "ok", y |-> Coordinates(data), groundY |-> ScreenTraceCenterY - offset[1]]

-----------------------------------------------------------------------------
(* pkg/owonrpc: the answers. *)

ChannelStateToProto(s) ==
  Converted(s, {"channel", "display", "coupling", "probeAttenuation", "scale",
                "screenHeaderOffset"})
AcquisitionStateToProto(s) == Converted(s, {"mode", "averageCount", "memoryDepth"})
HorizontalStateToProto(s) == Converted(s, {"scale", "screenHeaderOffset"})
TriggerStateToProto(s) == Converted(s, {"source", "coupling", "slope", "level", "sweep", "status"})
DeviceInfoToProto(s) ==
  Converted(s, {"manufacturer", "model", "serial", "firmware", "capabilities"})
DMMMeasurementToProto(s) == Converted(s, {"function", "value", "unit", "raw", "capturedAt"})
ScreenTraceToProto(s) == Converted(s, {"y", "groundY"})
StateSnapshotToProto(controls) ==
  [channels |-> [i \in DOMAIN controls.channels |-> ChannelStateToProto(controls.channels[i])],
   acquisition |-> AcquisitionStateToProto(controls.acquisition),
   horizontal |-> HorizontalStateToProto(controls.horizontal),
   trigger |-> TriggerStateToProto(controls.trigger)]
=============================================================================
