--------------------------- MODULE ControlDialect ---------------------------
(***************************************************************************)
(* From the request of a client to the writes of the instrument: which     *)
(* fields the RPC conversions keep, what the domain model accepts, and     *)
(* which commands the HDS200 dialect makes of it, in which order, or how   *)
(* it refuses (pkg/owonrpc, pkg/owonmodel, pkg/owonscpi).                  *)
(*                                                                         *)
(* A request is a function from the names of the fields that are present   *)
(* to their values, since an absent optional field is a nil pointer. Enum  *)
(* values are the numbers on the wire, which no cast changes. A number is  *)
(* an integer in a unit that each operator names, or NotFinite. A command  *)
(* is what it sets, [set |-> <<subsystem, control>>, to |-> token].        *)
(***************************************************************************)
EXTENDS Integers, Sequences, FiniteSets

NotFinite == -1000000  \* NaN and the infinities

Has(p, f) == f \in DOMAIN p
In(p, f, S) == Has(p, f) => p[f] \in S
Finite(x) == x # NotFinite
Positive(x) == Finite(x) /\ x > 0

\* The first check that fails decides how a patch is refused.
Verdict(checks) ==
  LET failing == {i \in DOMAIN checks : ~checks[i][1]}
  IN  IF failing = {} THEN "ok"
      ELSE checks[CHOOSE i \in failing : \A j \in failing : i <= j][2]
Supported(holds) == <<holds, "invalidSetting">>
Offered(holds) == <<holds, "unsupportedControl">>

-----------------------------------------------------------------------------
(* pkg/owonmodel: the domains, by their numbers; 0 is unspecified. *)

Channels == 1..2
Couplings == 1..3
AcquisitionModes == 1..3
MemoryDepths == 1..2
TriggerSources == 1..3
TriggerSlopes == 1..2
TriggerSweeps == 1..3
MeasurementKinds == 2..8
DMMFunctions == 1..6
DMMCurrentTypes == 1..2
DMMRanges == 1..3
GeneratorWaveforms == 1..12
GeneratorLoads == 1..2

MaximumMeasurementSelectors == 14

\* A selector is <<channel, kind>>; <<>> is nil.
ValidSelector(selector) ==
  selector # <<>> /\ selector[1] \in Channels /\ selector[2] \in MeasurementKinds
ValidSelectors(selectors) ==
  /\ Len(selectors) <= MaximumMeasurementSelectors
  /\ \A i \in DOMAIN selectors : ValidSelector(selectors[i])
  /\ \A i, j \in DOMAIN selectors : selectors[i] = selectors[j] => i = j

ValidChannelPatch(p) ==
  /\ DOMAIN p # {"channel"}
  /\ p["channel"] \in Channels
  /\ In(p, "coupling", Couplings)
  /\ Has(p, "probeAttenuation") => Positive(p["probeAttenuation"])

ValidAcquisitionPatch(p) ==
  /\ DOMAIN p # {}
  /\ In(p, "mode", AcquisitionModes)
  /\ In(p, "memoryDepth", MemoryDepths)

ValidHorizontalPatch(p) == DOMAIN p # {}

ValidTriggerPatch(p) ==
  /\ DOMAIN p # {}
  /\ In(p, "source", TriggerSources)
  /\ In(p, "coupling", Couplings)
  /\ In(p, "slope", TriggerSlopes)
  /\ Has(p, "levelVolts") => Finite(p["levelVolts"])
  /\ In(p, "sweep", TriggerSweeps)

ReplacesVisible(p) == Has(p, "replaceVisible") /\ p["replaceVisible"]
ValidMeasurementPatch(p) ==
  /\ Has(p, "display") \/ ReplacesVisible(p)
  /\ Has(p, "visible") => (p["visible"] = <<>> \/ ReplacesVisible(p))
  /\ Has(p, "visible") => ValidSelectors(p["visible"])

\* Only voltage and current have a current type, and they need one.
ValidDMMPatch(p) ==
  /\ DOMAIN p # {}
  /\ In(p, "function", DMMFunctions)
  /\ In(p, "currentType", DMMCurrentTypes)
  /\ In(p, "range", DMMRanges)
  /\ Has(p, "currentType") <=> Has(p, "function") /\ p["function"] \in 1..2

Timings == {"frequencyHz", "periodSeconds", "pulseWidthSeconds", "risingSeconds", "fallingSeconds"}
Levels == {"amplitudeVolts", "offsetVolts", "highVolts", "lowVolts", "dutyPercent"}

\* These settings belong to a waveform, which the patch has to name.
WaveformCompanions == Timings \cup {"symmetryPercent", "dutyPercent"}
CompanionsHaveWaveform(p) == Has(p, "waveform") \/ DOMAIN p \cap WaveformCompanions = {}

ValidGeneratorPatch(p) ==
  /\ DOMAIN p # {}
  /\ In(p, "waveform", GeneratorWaveforms)
  /\ In(p, "load", GeneratorLoads)
  /\ ~(Has(p, "frequencyHz") /\ Has(p, "periodSeconds"))
  /\ CompanionsHaveWaveform(p)
  /\ \A f \in Timings \cap DOMAIN p : Positive(p[f])
  /\ \A f \in Levels \cap DOMAIN p : Finite(p[f])

-----------------------------------------------------------------------------
(* pkg/owonrpc: a conversion keeps the fields it copies, present or absent. *)

Converted(request, fields) == [f \in fields \cap DOMAIN request |-> request[f]]

ChannelPatchFromProto(r) ==
  Converted(r, {"channel", "display", "coupling", "probeAttenuation", "scale",
                "offsetDivisions", "bandwidthLimit", "inversion"})
AcquisitionPatchFromProto(r) == Converted(r, {"mode", "averageCount", "memoryDepth"})
HorizontalPatchFromProto(r) == Converted(r, {"scale", "offsetDivisions"})
TriggerPatchFromProto(r) == Converted(r, {"source", "coupling", "slope", "levelVolts", "sweep"})
MeasurementPatchFromProto(r) == Converted(r, {"display", "visible", "replaceVisible"})
DMMPatchFromProto(r) == Converted(r, {"function", "currentType", "relative", "range", "autoRange"})
GeneratorPatchFromProto(r) ==
  Converted(r, {"waveform", "load", "output", "symmetryPercent"} \cup Timings \cup Levels)

\* A command is its text, by what ValidateCommand asks of it, and the way it is
\* to be answered: none, a line or a length-prefixed payload.
ResponseModes == 1..3
ValidCommand(command) ==
  /\ command.printable /\ ~command.empty /\ ~command.long /\ ~command.separated
  /\ command.responseMode \in ResponseModes

-----------------------------------------------------------------------------
(* pkg/owonscpi: the tokens. *)

OnOff == [b \in BOOLEAN |-> IF b THEN "ON" ELSE "OFF"]
ChannelNames == <<"CH1", "CH2">>
CouplingTokens == <<"AC", "DC", "GND">>
AcquisitionModeTokens == <<"SAMPLE", "PEAK", "AVERAGE">>
MemoryDepthTokens == <<"4K", "8K">>
TriggerSourceTokens == <<"CH1", "CH2">>
TriggerCouplingTokens == <<"AC", "DC">>
TriggerSlopeTokens == <<"RISE", "FALL">>
TriggerSweepTokens == <<"AUTO", "NORMAL", "SINGLE">>
DMMFunctionTokens ==
  <<"VOLTAGE", "CURRENT", "RESISTANCE", "CAPACITANCE", "DIODE", "CONTINUITY">>
DMMCurrentTypeTokens == <<"AC", "DC">>
DMMRangeTokens == <<"ON", "mV", "V">>
GeneratorWaveformTokens ==
  <<"SINE", "SQUARE", "RAMP", "PULSE", "AmpALT", "AttALT", "StairDn", "StairUD",
    "StairUp", "Besselj", "Bessely", "Sinc">>
GeneratorLoadTokens == <<"ON", "OFF">>

\* Numbers are written so that they read back as the same number.
Token(f, v) ==
  CASE f \in {"display", "relative", "autoRange", "output"} -> OnOff[v]
    [] f = "coupling" -> CouplingTokens[v]
    [] f = "mode" -> AcquisitionModeTokens[v]
    [] f = "memoryDepth" -> MemoryDepthTokens[v]
    [] f = "source" -> TriggerSourceTokens[v]
    [] f = "slope" -> TriggerSlopeTokens[v]
    [] f = "sweep" -> TriggerSweepTokens[v]
    [] f = "range" -> DMMRangeTokens[v]
    [] f = "waveform" -> GeneratorWaveformTokens[v]
    [] f = "load" -> GeneratorLoadTokens[v]
    [] f = "scale" -> v.value
    [] OTHER -> v

\* The commands of the rows <<field, control>> whose field is present, in the
\* order of the rows.
Encoded(p, subsystem, rows) ==
  LET present == {i \in DOMAIN rows : Has(p, rows[i][1])}
      Row(n) == rows[CHOOSE i \in present : Cardinality({j \in present : j <= i}) = n]
  IN  [n \in 1..Cardinality(present) |->
         [set |-> <<subsystem, Row(n)[2]>>, to |-> Token(Row(n)[1], p[Row(n)[1]])]]

Refused(class) == [error |-> class, writes |-> <<>>]
Accepted(writes) == [error |-> "ok", writes |-> writes]

-----------------------------------------------------------------------------
(* pkg/owonscpi: channels. *)

\* The text of a scale is its value, here in millivolts, and its form: a token of
\* the manual, that token with blanks around or inside it, or another spelling.
Trimmed(text) == IF text.form = "around" THEN [text EXCEPT !.form = "token"] ELSE text

\* Mutant: blanks inside are left, as the parser of the header leaves them.
NormalizedScaleTrimmed(text) == Trimmed(text)

NormalizedScale(text) ==
  IF text.form \in {"around", "inside"} THEN [text EXCEPT !.form = "token"] ELSE text

ScaleSteps == <<10, 20, 50, 100, 200, 500, 1000, 2000, 5000, 10000, 20000, 50000,
                100000, 200000, 500000>>
Probes == {1, 10, 100, 1000, 10000}
ChannelScales(probe) ==
  {ScaleSteps[i] : i \in CASE probe = 1 -> 1..10
                           [] probe = 10 -> 4..13
                           [] probe = 100 -> 7..15
                           [] probe = 1000 -> 10..15
                           [] probe = 10000 -> 13..15
                           [] OTHER -> {}}

\* Probe 0 stands for any probe.
ValidChannelScale(scale, probe) ==
  /\ scale.form = "token"
  /\ \E q \in (IF probe = 0 THEN Probes ELSE {probe}) : scale.value \in ChannelScales(q)

ChannelOffsets == -200..200

ChannelRows ==
  <<<<"display", "DISPLAY">>, <<"coupling", "COUPLING">>, <<"probeAttenuation", "PROBE">>,
    <<"scale", "SCALE">>, <<"offsetDivisions", "OFFSET">>>>

CompileChannel(p) ==
  IF ~ValidChannelPatch(p) THEN Refused("invalidRequest")
  ELSE LET scale == NormalizedScale(p["scale"])
           verdict == Verdict(<<
             Supported(In(p, "probeAttenuation", Probes)),
             Supported(Has(p, "scale") => ValidChannelScale(scale, 0)),
             Supported(Has(p, "scale") /\ Has(p, "probeAttenuation") =>
                         ValidChannelScale(scale, p["probeAttenuation"])),
             Supported(In(p, "offsetDivisions", ChannelOffsets)),
             Offered(~Has(p, "bandwidthLimit")),
             Offered(~Has(p, "inversion"))>>)
       IN  IF verdict # "ok" THEN Refused(verdict)
           ELSE Accepted(Encoded(p, ChannelNames[p["channel"]], ChannelRows))

\* The probe that a scale needs is read from the instrument when the patch does
\* not bring it, and judged before anything is written.
ProbeRequired(p) == Has(p, "scale") /\ ~Has(p, "probeAttenuation")
ValidateChannelProbe(p, probe) ==
  /\ Positive(probe)
  /\ ValidChannelScale(NormalizedScale(p["scale"]), probe)

-----------------------------------------------------------------------------
(* pkg/owonscpi: acquisition, horizontal, trigger, measurement. *)

CompileAcquisition(p) ==
  IF ~ValidAcquisitionPatch(p) THEN Refused("invalidRequest")
  ELSE IF Has(p, "averageCount") THEN Refused("unsupportedControl")
  ELSE Accepted(Encoded(p, "ACQUIRE", <<<<"mode", "MODE">>, <<"memoryDepth", "DEPMEM">>>>))

\* A timebase is its place in the list of the manual. Blanks are only trimmed.
HorizontalScales == 1..36
ValidHorizontalScale(text) ==
  Trimmed(text).form = "token" /\ text.value \in HorizontalScales

CompileHorizontal(p) ==
  IF ~ValidHorizontalPatch(p) THEN Refused("invalidRequest")
  ELSE IF Has(p, "scale") /\ ~ValidHorizontalScale(p["scale"]) THEN Refused("invalidSetting")
  ELSE Accepted(Encoded(p, "HORIZONTAL", <<<<"scale", "SCALE">>, <<"offsetDivisions", "OFFSET">>>>))

TriggerRows ==
  <<<<"source", "SOURCE">>, <<"coupling", "COUPLING">>, <<"slope", "EDGE">>,
    <<"levelVolts", "LEVEL">>, <<"sweep", "SWEEP">>>>

CompileTrigger(p) ==
  IF ~ValidTriggerPatch(p) THEN Refused("invalidRequest")
  ELSE IF \/ ~In(p, "source", DOMAIN TriggerSourceTokens)
          \/ ~In(p, "coupling", DOMAIN TriggerCouplingTokens)
    THEN Refused("unsupportedControl")
  ELSE Accepted(Encoded(p, "TRIGGER", TriggerRows))

CompileMeasurement(p) ==
  IF ~ValidMeasurementPatch(p) THEN Refused("invalidRequest")
  ELSE IF ReplacesVisible(p) THEN Refused("unsupportedControl")
  ELSE Accepted(Encoded(p, "MEASUREMENT", <<<<"display", "DISPLAY">>>>))

MeasurementTokens ==
  <<"", "MAX", "MIN", "PKPK", "VAMP", "AVERAGE", "PERIOD", "FREQUENCY">>
MeasurementUnits == <<"", "V", "V", "V", "V", "V", "s", "Hz">>
MeasurementQuery(selector) ==
  <<"MEASUREMENT", ChannelNames[selector[1]], MeasurementTokens[selector[2]]>>

-----------------------------------------------------------------------------
(* pkg/owonscpi: multimeter and generator. *)

\* Voltage and current are configured by their current type.
DMMFunctionCommand(p) ==
  [set |-> <<"DMM", "CONFIGURE">>,
   to |-> IF p["function"] \in 1..2
          THEN <<DMMFunctionTokens[p["function"]], DMMCurrentTypeTokens[p["currentType"]]>>
          ELSE <<DMMFunctionTokens[p["function"]]>>]

CompileDMM(p) ==
  IF ~ValidDMMPatch(p) THEN Refused("invalidRequest")
  ELSE IF Has(p, "autoRange") /\ ~p["autoRange"] THEN Refused("unsupportedControl")
  ELSE Accepted((IF Has(p, "function") THEN <<DMMFunctionCommand(p)>> ELSE <<>>)
                \o Encoded(p, "DMM", <<<<"relative", "REL">>, <<"range", "RANGE">>,
                                       <<"autoRange", "AUTO">>>>))

Builtin == 5..12

\* The frequencies are tenths of a hertz, the periods tens of a nanosecond.
MaximumFrequency(waveform) ==
  CASE waveform = 1 -> 250000000
    [] waveform \in {2, 4} -> 50000000
    [] waveform = 3 -> 10000000
    [] waveform \in Builtin -> 50000000
MinimumPeriod(waveform) == 1000000000 \div MaximumFrequency(waveform)
MaximumPeriod == 1000000000

SupportedTimebase(p) ==
  /\ Has(p, "frequencyHz") => p["frequencyHz"] \in 1..MaximumFrequency(p["waveform"])
  /\ Has(p, "periodSeconds") =>
       p["periodSeconds"] \in MinimumPeriod(p["waveform"])..MaximumPeriod

\* A built-in waveform has no shape of its own to set.
ShapeControls ==
  {"symmetryPercent", "dutyPercent", "pulseWidthSeconds", "risingSeconds", "fallingSeconds"}
BuiltinHasNoShape(p) ==
  Has(p, "waveform") /\ p["waveform"] \in Builtin => DOMAIN p \cap ShapeControls = {}

Percents == 0..100
SupportedSymmetry(p) == In(p, "symmetryPercent", Percents)
SupportedDuty(p) == In(p, "dutyPercent", Percents)

GeneratorRows ==
  <<<<"waveform", "FUNCTION">>, <<"frequencyHz", "FREQUENCY">>, <<"periodSeconds", "PERIOD">>,
    <<"amplitudeVolts", "AMPLITUDE">>, <<"offsetVolts", "OFFSET">>, <<"highVolts", "HIGHT">>,
    <<"lowVolts", "LOW">>, <<"symmetryPercent", "SYMMETRY">>, <<"pulseWidthSeconds", "WIDTH">>,
    <<"risingSeconds", "RISING">>, <<"fallingSeconds", "FALING">>,
    <<"dutyPercent", "DTYCYCLE">>, <<"load", "LOAD">>, <<"output", "CHANNEL">>>>

CompileGenerator(p) ==
  IF ~ValidGeneratorPatch(p) THEN Refused("invalidRequest")
  ELSE LET verdict == Verdict(<<
             Supported(SupportedTimebase(p)),
             Offered(BuiltinHasNoShape(p)),
             Supported(SupportedSymmetry(p)),
             Supported(SupportedDuty(p))>>)
       IN  IF verdict # "ok" THEN Refused(verdict)
           ELSE Accepted(Encoded(p, "GENERATOR", GeneratorRows))
=============================================================================
