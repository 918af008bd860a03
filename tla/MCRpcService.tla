---------------------------- MODULE MCRpcService ----------------------------
(* Two clients and two slots: one client tries the requests, the other one   *)
(* gets in its way.                                                          *)
EXTENDS RpcService

CONSTANTS a, b

\* Patches with a further field, or without it.
With(patches, f, values) == patches \cup {(f :> v) @@ p : p \in patches, v \in values}

Scale(value, form) == [value |-> value, form |-> form]
Set(call, patches) == {[call |-> call, fields |-> p] : p \in patches}

ChannelPatches ==
  {[channel |-> 1, coupling |-> 3, scale |-> Scale(1000, "inside")],
   [channel |-> 1, scale |-> Scale(10, "token")]}
  \cup {[channel |-> 2, probeAttenuation |-> 10, scale |-> Scale(1000, "inside")],
        [channel |-> 0, display |-> TRUE], [channel |-> 2, offsetDivisions |-> 201],
        [channel |-> 1, probeAttenuation |-> 3], [channel |-> 2, inversion |-> TRUE]}

AcquisitionPatches ==
  {[mode |-> 3, memoryDepth |-> 2], [mode |-> 2, averageCount |-> 16]}

HorizontalPatches ==
  {[scale |-> Scale(7, "around"), offsetDivisions |-> 0 - 5], [scale |-> Scale(7, "inside")]}

TriggerPatches ==
  {[source |-> 2, coupling |-> 1, slope |-> 2, levelVolts |-> 1500, sweep |-> 2],
   [coupling |-> 3]}

DMMPatches ==
  {[function |-> 1, currentType |-> 2, range |-> 2], 
   [function |-> 4], [autoRange |-> FALSE]}

GeneratorPatches ==
  {[waveform |-> 1, frequencyHz |-> 250000000, output |-> TRUE],
   [waveform |-> 5, frequencyHz |-> 250000000]}

MeasurementPatches ==
  {[display |-> TRUE], [replaceVisible |-> TRUE, visible |-> <<<<1, 2>>>>]}

States ==
  {[call |-> "GetState", measurements |-> m, includeControls |-> TRUE] :
     m \in {<<<<1, 2>>>>, <<<<>>>>}}

Commands ==
  {[call |-> "Execute",
    command |-> [printable |-> TRUE, empty |-> FALSE, long |-> FALSE, separated |-> s,
                 responseMode |-> 1]] : s \in BOOLEAN}

Waveforms ==
  {[call |-> "GetWaveform", channel |-> 1, screen |-> s] : s \in BOOLEAN}

Others ==
  {[call |-> "Acquire", status |-> "STOP"], [call |-> "Auto"], [call |-> "GetDeviceInfo"],
   [call |-> "GetDmmMeasurement"]}

Everything ==
  {NoRequest} \cup Set("SetChannel", ChannelPatches) \cup Set("SetAcquisition", AcquisitionPatches)
  \cup Set("SetHorizontal", HorizontalPatches) \cup Set("SetTrigger", TriggerPatches)
  \cup Set("SetDmm", DMMPatches) \cup Set("SetMeasurement", MeasurementPatches)
  \cup {[call |-> "SetGenerator", fields |-> p, observe |-> TRUE] : p \in GeneratorPatches}
  \cup States \cup Commands \cup Waveforms \cup Others

Wrong == CHOOSE r \in Commands : r.command.separated
ProbeAlone == [call |-> "SetChannel", fields |-> [channel |-> 1, probeAttenuation |-> 1000]]

Requests ==
  (<<a, 1>> :> Everything) @@ (<<a, 2>> :> {})
  @@ (<<b, 1>> :> {ProbeAlone}) @@ (<<b, 2>> :> {Wrong})

\* The second call of b waits for ever.
Contexts ==
  [c \in Calls |-> CASE c = <<a, 1>> -> {"deadline"} [] c = <<b, 1>> -> {"canceled"} [] OTHER -> {}]

Settings ==
  (<<"CH1", "DISPLAY">> :> "ON") @@ (<<"CH1", "COUPLING">> :> "DC")
  @@ (<<"CH1", "PROBE">> :> 10) @@ (<<"CH1", "SCALE">> :> 2000) @@ (<<"CH1", "OFFSET">> :> 0)
  @@ (<<"CH2", "DISPLAY">> :> "OFF") @@ (<<"CH2", "COUPLING">> :> "GND")
  @@ (<<"CH2", "PROBE">> :> 1) @@ (<<"CH2", "SCALE">> :> 5000) @@ (<<"CH2", "OFFSET">> :> 3)
  @@ (<<"ACQUIRE", "MODE">> :> "SAMPLE") @@ (<<"ACQUIRE", "DEPMEM">> :> "4K")
  @@ (<<"ACQUIRE", "STATUS">> :> "RUN")
  @@ (<<"HORIZONTAL", "SCALE">> :> 20) @@ (<<"HORIZONTAL", "OFFSET">> :> 0)
  @@ (<<"TRIGGER", "SOURCE">> :> "CH1") @@ (<<"TRIGGER", "COUPLING">> :> "DC")
  @@ (<<"TRIGGER", "EDGE">> :> "RISE") @@ (<<"TRIGGER", "LEVEL">> :> 2000)
  @@ (<<"TRIGGER", "SWEEP">> :> "AUTO")
  @@ (<<"DMM", "CONFIGURE">> :> <<"RESISTANCE">>) @@ (<<"DMM", "RANGE">> :> "ON")

\* An autoset that the firmware does not know, and one that changes a part of each
\* group of settings.
Autosets ==
  {<<>>,
   (<<"CH1", "SCALE">> :> 1000) @@ (<<"CH1", "COUPLING">> :> "AC")
   @@ (<<"ACQUIRE", "MODE">> :> "PEAK") @@ (<<"HORIZONTAL", "SCALE">> :> 7)
   @@ (<<"TRIGGER", "SOURCE">> :> "CH2") @@ (<<"ACQUIRE", "STATUS">> :> "TRIG")}

Proved ==
  [isObject |-> TRUE, fields |-> ProvedProfile, screenOffset |-> <<0>>,
   channels |-> <<[name |-> "CH1", offset |-> <<50>>], [name |-> "CH2", offset |-> <<>>]>>]
Samples == [i \in 1..ScreenTraceWidth |-> i % 256]

Usual ==
  [long |-> FALSE, averages |-> FALSE, settles |-> TRUE, tooLarge |-> FALSE, number |-> 7,
   identity |-> <<"OWON", "HDS2202S", "1", "V2.6.0">>, profile |-> Proved, samples |-> Samples]

Kinds ==
  {Usual,
   [Usual EXCEPT !.long = TRUE, !.averages = TRUE, !.tooLarge = TRUE,
                 !.profile.fields = [ProvedProfile EXCEPT !.TYPE = "PEAK"]],
   [Usual EXCEPT !.settles = FALSE, !.number = NotFinite, !.identity = <<"OWON", "">>,
                 !.profile.channels = <<Proved.channels[1], Proved.channels[1]>>]}
=============================================================================
