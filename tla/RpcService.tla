----------------------------- MODULE RpcService -----------------------------
(***************************************************************************)
(* The unary calls of the gRPC service (pkg/owonrpc/owonserver) and the    *)
(* client that makes them (pkg/owonrpc/owonclient). A handler takes one of *)
(* a bounded number of slots or refuses at once, converts and compiles the *)
(* request, holds the instrument for its exchanges, and maps what failed   *)
(* to a status. A client may give up on a call whose handler still runs.   *)
(*                                                                         *)
(* The instrument is external: its settings, the header that reports them  *)
(* in one of the spellings of the firmware, and the writes it ignores.     *)
(***************************************************************************)
EXTENDS ScreenHeader, TLC

CONSTANTS
  Clients,          \* who calls, one call after the other
  MaxCalls,         \* the bound on the calls of a client
  Asked,            \* the requests of each call
  Ends,             \* how the context of each call may end
  NoRequest,        \* a nil request
  NoCall,           \* no call
  MaxActiveRPCs,    \* the slots of the handlers
  Firmwares,        \* how the instrument may behave
  FactorySettings,  \* what it is set to
  AutosetFinds,     \* what an autoset may set it to, of the settings that it shows
  MaxFaults         \* the bound on the exchanges that fail

Calls == Clients \X (1..MaxCalls)

ASSUME RpcAssumption ==
  /\ MaxCalls \in Nat /\ MaxFaults \in Nat
  /\ NoCall \notin Calls
  /\ MaxActiveRPCs \in Nat \ {0}
  /\ IsFiniteSet(Clients)
  /\ Ends \in [Calls -> SUBSET {"canceled", "deadline"}]

\* The fields of the messages whose settings the header shows.
MessageFields ==
  [SetChannel |-> {"channel", "display", "coupling", "probeAttenuation", "scale",
                   "offsetDivisions", "bandwidthLimit", "inversion"},
   SetAcquisition |-> {"mode", "averageCount", "memoryDepth"},
   SetHorizontal |-> {"scale", "offsetDivisions"},
   SetTrigger |-> {"source", "coupling", "slope", "levelVolts", "sweep"}]

\* Messages have their fields, of their types. A level in microvolts is none that
\* would be NotFinite in millivolts.
LevelFits(level) == level \in Int \ {NotFinite, 1000 * NotFinite}
ASSUME MessagesAreTyped ==
  \A c \in Calls : \A r \in Asked[c] \ {NoRequest} :
    /\ r.call = "GetState" => r.measurements \in Seq(Seq(Int))
    /\ r.call \in DOMAIN MessageFields => DOMAIN r.fields \subseteq MessageFields[r.call]
    /\ r.call = "SetChannel" => Has(r.fields, "channel")
    /\ r.call \in {"SetChannel", "SetMeasurement"} => In(r.fields, "display", BOOLEAN)
    /\ r.call = "SetTrigger" /\ Has(r.fields, "levelVolts") =>
         r.fields["levelVolts"] = NotFinite \/ LevelFits(r.fields["levelVolts"])

\* The settings that the header shows, and what each may be.
HeaderSettings ==
  ({"CH1", "CH2"} \X {"DISPLAY", "COUPLING", "PROBE", "SCALE", "OFFSET"})
  \cup ({"ACQUIRE"} \X {"MODE", "DEPMEM", "STATUS"}) \cup ({"HORIZONTAL"} \X {"SCALE", "OFFSET"})
  \cup ({"TRIGGER"} \X {"SOURCE", "COUPLING", "EDGE", "LEVEL", "SWEEP"})

Legal(setting, value) ==
  /\ setting[2] = "DISPLAY" => value \in {"ON", "OFF"}
  /\ setting[2] = "PROBE" => value \in Probes
  /\ setting[2] = "COUPLING" => value \in {"AC", "DC", "GND"}
  /\ setting = <<"ACQUIRE", "MODE">> => value \in {"SAMPLE", "PEAK", "AVERAGE"}
  /\ setting = <<"TRIGGER", "SOURCE">> => value \in {"CH1", "CH2"}
  /\ setting = <<"TRIGGER", "COUPLING">> => value # "GND"
  /\ setting = <<"TRIGGER", "EDGE">> => value \in {"RISE", "FALL"}
  /\ setting = <<"TRIGGER", "LEVEL">> => LevelFits(value)
  /\ setting = <<"TRIGGER", "SWEEP">> => value \in {"AUTO", "NORMAL", "SINGLE"}

ASSUME InstrumentIsSet ==
  /\ HeaderSettings \subseteq DOMAIN FactorySettings
  /\ \A setting \in HeaderSettings : Legal(setting, FactorySettings[setting])
  /\ \A found \in AutosetFinds : \A setting \in DOMAIN found \cap HeaderSettings :
       Legal(setting, found[setting])

VARIABLES
  stage,     \* where each call is
  request,   \* what it asks
  todo,      \* the exchanges that its operation has left
  failure,   \* what its error says went wrong, by errors.Is and errors.As
  result,    \* what it answers with, if all goes well
  touched,   \* the calls of which a write may have reached the instrument
  before,    \* the settings when its transaction began
  givenUp,   \* why its client waits no longer
  answer,    \* the status its client was given
  active,    \* rpcAdmission: the calls that hold a slot
  holder,    \* the call whose transaction the session admitted
  settings,  \* what the instrument is set to
  firmware,  \* how it behaves
  faults     \* the exchanges that failed so far

callVars == <<stage, request, todo, failure, result, touched, before>>
clientVars == <<givenUp, answer>>
deviceVars == <<settings, firmware>>
vars == <<callVars, clientVars, active, holder, deviceVars, faults>>

Handling == {"begin", "exchange", "return"}
Stages == {"unsent", "sent", "answering", "gone"} \cup Handling

None == [none |-> TRUE]

Init ==
  /\ stage = [c \in Calls |-> "unsent"]
  /\ request = [c \in Calls |-> NoRequest]
  /\ todo = [c \in Calls |-> <<>>]
  /\ failure = [c \in Calls |-> {}]
  /\ result = [c \in Calls |-> None]
  /\ touched = {}
  /\ before = [c \in Calls |-> FactorySettings]
  /\ givenUp = [c \in Calls |-> "no"]
  /\ answer = [c \in Calls |-> "none"]
  /\ active = {} /\ holder = NoCall
  /\ settings = FactorySettings
  /\ firmware \in Firmwares
  /\ faults = 0

-----------------------------------------------------------------------------
(* The instrument: the header that shows its settings.                       *)

\* Firmware spells some words in full, and has the sweep among the items then.
Spelled(word) ==
  IF ~firmware.long THEN word
  ELSE CASE word = "PEAK" -> "PEAKDETECT"
         [] word = "GND" -> "GROUND"
         [] word = "RISE" -> "RISING"
         [] word = "FALL" -> "FALLING"
         [] word = "NORMAL" -> "NORM"
         [] OTHER -> word

ChannelText(s, name) ==
  [name |-> name, display |-> s[<<name, "DISPLAY">>],
   coupling |-> Spelled(s[<<name, "COUPLING">>]),
   probe |-> <<s[<<name, "PROBE">>], "X">>,
   scale |-> [value |-> s[<<name, "SCALE">>], form |-> "inside"],
   offset |-> s[<<name, "OFFSET">>]]

TriggerText(s) ==
  LET sweep == Spelled(s[<<"TRIGGER", "SWEEP">>])
      level == s[<<"TRIGGER", "LEVEL">>]
  IN  [mode |-> "SINGLE", type |-> "EDGE", channel |-> s[<<"TRIGGER", "SOURCE">>],
       coupling |-> s[<<"TRIGGER", "COUPLING">>], edge |-> Spelled(s[<<"TRIGGER", "EDGE">>]),
       level |-> IF level % 1000 = 0 THEN <<level \div 1000, "MV">> ELSE <<level, "UV">>,
       sweep |-> IF firmware.long THEN "" ELSE sweep,
       itemsSweep |-> IF firmware.long THEN sweep ELSE ""]

Header(s) ==
  [sampleType |-> Spelled(s[<<"ACQUIRE", "MODE">>]), memoryDepth |-> s[<<"ACQUIRE", "DEPMEM">>],
   timebaseScale |-> [value |-> s[<<"HORIZONTAL", "SCALE">>], form |-> "around"],
   timebaseOffset |-> s[<<"HORIZONTAL", "OFFSET">>],
   channels |-> <<ChannelText(s, "CH1"), ChannelText(s, "CH2")>>,
   status |-> s[<<"ACQUIRE", "STATUS">>], trigger |-> TriggerText(s)]

\* The command that has the instrument find settings of its own. Nobody asks which.
Autoset == [set |-> <<"AUTOSET", "ON">>, to |-> "ON"]

Found(found) ==
  [setting \in DOMAIN settings |->
     IF setting \in DOMAIN found THEN found[setting] ELSE settings[setting]]

\* A firmware may ignore averaging, as the one that was examined does.
Written(step) ==
  IF step.set = <<"ACQUIRE", "MODE">> /\ step.to = "AVERAGE" /\ ~firmware.averages
  THEN settings
  ELSE [setting \in DOMAIN settings \cup {step.set} |->
          IF setting = step.set THEN step.to ELSE settings[setting]]

\* What a write may leave it set to.
Outcomes(step) ==
  IF step = Autoset THEN {Found(found) : found \in AutosetFinds} ELSE {Written(step)}

-----------------------------------------------------------------------------
(* What the operation of a request exchanges with the instrument.            *)

Ask(what) == [ask |-> what]

\* The result of compiling a request: how it is refused, or its exchanges.
Refusal(class) == [error |-> class, steps |-> <<>>]
Exchanges(steps) == [error |-> "ok", steps |-> steps]
Planned(compiled, steps) ==
  IF compiled.error # "ok" THEN Refusal(compiled.error) ELSE Exchanges(steps)

\* Mutant: the probe is read after the writes that depend on it.
SetChannelThenProbe(r) ==
  LET patch == ChannelPatchFromProto(r.fields)
      plan == CompileChannel(patch)
  IN  Planned(plan, plan.writes \o IF ProbeRequired(patch) THEN <<Ask("probe")>> ELSE <<>>)

SetChannel(r) ==
  LET patch == ChannelPatchFromProto(r.fields)
      plan == CompileChannel(patch)
  IN  Planned(plan, (IF ProbeRequired(patch) THEN <<Ask("probe")>> ELSE <<>>) \o plan.writes)

\* Averaging is read back, since the firmware may ignore it.
SetAcquisition(r) ==
  LET patch == AcquisitionPatchFromProto(r.fields)
      plan == CompileAcquisition(patch)
  IN  Planned(plan, plan.writes \o
                    IF Has(patch, "mode") /\ patch["mode"] = 3 THEN <<Ask("mode")>> ELSE <<>>)

SetHorizontal(r) ==
  LET plan == CompileHorizontal(HorizontalPatchFromProto(r.fields)) IN Planned(plan, plan.writes)
SetTrigger(r) ==
  LET plan == CompileTrigger(TriggerPatchFromProto(r.fields)) IN Planned(plan, plan.writes)
SetMeasurement(r) ==
  LET plan == CompileMeasurement(MeasurementPatchFromProto(r.fields)) IN Planned(plan, plan.writes)

\* The function is polled until the instrument reports it, after its write and
\* again after the writes that follow it.
SetDmm(r) ==
  LET patch == DMMPatchFromProto(r.fields)
      plan == CompileDMM(patch)
  IN  Planned(plan,
        IF ~Has(patch, "function") THEN plan.writes
        ELSE <<Head(plan.writes), Ask("function")>> \o Tail(plan.writes) \o
             IF Len(plan.writes) = 1 THEN <<>> ELSE <<Ask("function")>>)

SetGenerator(r) ==
  LET plan == CompileGenerator(GeneratorPatchFromProto(r.fields))
  IN  Planned(plan, plan.writes \o IF r.observe THEN <<Ask("generator")>> ELSE <<>>)

GetState(r) ==
  IF ~ValidSelectors(r.measurements) THEN Refusal("invalidRequest")
  ELSE Exchanges(<<Ask("identity")>> \o
                 [i \in DOMAIN r.measurements |->
                    [ask |-> "measurement", query |-> MeasurementQuery(r.measurements[i])]] \o
                 IF r.includeControls THEN <<Ask("header"), Ask("range")>> ELSE <<>>)

GetWaveform(r) ==
  IF WaveformRefusal(r) # "ok" THEN Refusal(WaveformRefusal(r))
  ELSE Exchanges(<<Ask("profile"), Ask("data")>>)

Execute(r) ==
  IF ~ValidCommand(r.command) THEN Refusal("invalidCommand") ELSE Exchanges(<<Ask("raw")>>)

\* Run, Stop and Single are one command each, and so is Auto, which reads nothing back.
Acquire(r) == Exchanges(<<[set |-> <<"ACQUIRE", "STATUS">>, to |-> r.status]>>)
AutoSetup == Exchanges(<<Autoset>>)
GetDeviceInfo == Exchanges(<<Ask("identity")>>)
GetDmmMeasurement == Exchanges(<<Ask("reading")>>)

Plan(r) ==
  CASE r.call = "SetChannel" -> SetChannel(r)
    [] r.call = "SetAcquisition" -> SetAcquisition(r)
    [] r.call = "SetHorizontal" -> SetHorizontal(r)
    [] r.call = "SetTrigger" -> SetTrigger(r)
    [] r.call = "SetMeasurement" -> SetMeasurement(r)
    [] r.call = "SetDmm" -> SetDmm(r)
    [] r.call = "SetGenerator" -> SetGenerator(r)
    [] r.call = "GetState" -> GetState(r)
    [] r.call = "GetWaveform" -> GetWaveform(r)
    [] r.call = "Execute" -> Execute(r)
    [] r.call = "Acquire" -> Acquire(r)
    [] r.call = "Auto" -> AutoSetup
    [] r.call = "GetDeviceInfo" -> GetDeviceInfo
    [] r.call = "GetDmmMeasurement" -> GetDmmMeasurement

-----------------------------------------------------------------------------
(* rpcError: the first of these that the error wraps decides.                *)

Precedence == <<
  <<"canceled", "Canceled">>,
  <<"deadline", "DeadlineExceeded">>,
  <<"malformed", "DataLoss">>,
  <<"surplus", "DataLoss">>,
  <<"waveformTooLarge", "DataLoss">>,
  <<"nonconvergence", "FailedPrecondition">>,
  <<"invalidCommand", "InvalidArgument">>,
  <<"invalidRequest", "InvalidArgument">>,
  <<"invalidSetting", "InvalidArgument">>,
  <<"unsupportedControl", "Unimplemented">>,
  <<"unavailable", "Unavailable">>>>

RpcError(classes) ==
  IF classes = {} THEN "OK"
  ELSE LET wrapped == {i \in DOMAIN Precedence : Precedence[i][1] \in classes}
       IN  Precedence[CHOOSE i \in wrapped : \A j \in wrapped : i <= j][2]

-----------------------------------------------------------------------------
(* The client *)

Go(c, from, to) == stage[c] = from /\ stage' = [stage EXCEPT ![c] = to]

\* A client makes its calls one after the other.
IsNext(c) == stage[c] = "unsent" /\ \A n \in 1..(c[2] - 1) : answer[<<c[1], n>>] # "none"

Sends(c, methods) ==
  /\ IsNext(c)
  /\ \E r \in Asked[c] \ {NoRequest} :
       r.call \in methods /\ request' = [request EXCEPT ![c] = r]
  /\ stage' = [stage EXCEPT ![c] = "sent"]
  /\ UNCHANGED <<todo, failure, result, touched, before, clientVars, active, holder,
                 deviceVars, faults>>

AskInfo(c) == Sends(c, {"GetDeviceInfo"})
AskQuery(c) == Sends(c, {"Execute", "GetState"})
AskScope(c) ==
  Sends(c, {"SetChannel", "SetAcquisition", "SetHorizontal", "SetTrigger", "SetMeasurement"})
AskSource(c) == Sends(c, {"SetGenerator", "SetDmm"})
AskAction(c) == Sends(c, {"GetDmmMeasurement", "Acquire", "Auto"})
AskWaveform(c) == Sends(c, {"GetWaveform"})

\* A nil request is rejected before it is sent.
RejectNil(c) ==
  /\ IsNext(c) /\ NoRequest \in Asked[c]
  /\ stage' = [stage EXCEPT ![c] = "gone"]
  /\ answer' = [answer EXCEPT ![c] = "rejected"]
  /\ UNCHANGED <<request, todo, failure, result, touched, before, givenUp, active, holder,
                 deviceVars, faults>>

\* The context of the caller ends, and with it the call, for the client at once
\* and for the handler when it looks.
GiveUp(c) ==
  /\ stage[c] # "unsent" /\ answer[c] = "none"
  /\ \E why \in Ends[c] :
       /\ givenUp' = [givenUp EXCEPT ![c] = why]
       /\ answer' = [answer EXCEPT ![c] = RpcError({why})]
  /\ UNCHANGED <<callVars, active, holder, deviceVars, faults>>

\* What the service sends reaches a client that still waits.
Answered(c, status) ==
  answer' = IF answer[c] = "none" THEN [answer EXCEPT ![c] = status] ELSE answer

-----------------------------------------------------------------------------
(* The handlers *)

\* Mutant: the last slot is never given.
SlotIsFreeForOneLess == Cardinality(active) + 1 < MaxActiveRPCs

SlotIsFree == Cardinality(active) < MaxActiveRPCs

Refuse(c) ==
  /\ Go(c, "sent", "gone") /\ ~SlotIsFree
  /\ Answered(c, "ResourceExhausted")
  /\ request' = [request EXCEPT ![c] = NoRequest]
  /\ UNCHANGED <<todo, failure, result, touched, before, givenUp, active, holder,
                 deviceVars, faults>>

\* The slot, the conversion and the compilation, none of which waits.
Admit(c) ==
  LET plan == Plan(request[c]) IN
  /\ stage[c] = "sent" /\ SlotIsFree
  /\ active' = active \cup {c}
  /\ IF plan.error = "ok"
     THEN /\ stage' = [stage EXCEPT ![c] = "begin"]
          /\ todo' = [todo EXCEPT ![c] = plan.steps]
          /\ UNCHANGED failure
     ELSE /\ stage' = [stage EXCEPT ![c] = "return"]
          /\ failure' = [failure EXCEPT ![c] = {plan.error}]
          /\ UNCHANGED todo
  /\ UNCHANGED <<request, result, touched, before, clientVars, holder, deviceVars, faults>>

Begin(c) ==
  /\ Go(c, "begin", "exchange") /\ holder = NoCall
  /\ holder' = c
  /\ before' = [before EXCEPT ![c] = settings]
  /\ UNCHANGED <<request, todo, failure, result, touched, clientVars, active, deviceVars, faults>>

\* The operation fails for these reasons; its transaction, if it had one, closes.
Fail(c, classes) ==
  /\ stage' = [stage EXCEPT ![c] = "return"]
  /\ failure' = [failure EXCEPT ![c] = classes]
  /\ holder' = IF holder = c THEN NoCall ELSE holder

\* The context of the caller may be seen to have ended along with what failed.
Reasons(c, class) ==
  {{class}} \cup IF givenUp[c] = "no" THEN {} ELSE {{class, givenUp[c]}}

BeginFails(c) ==
  /\ stage[c] = "begin"
  /\ \/ givenUp[c] # "no" /\ Fail(c, {givenUp[c]}) /\ UNCHANGED faults
     \/ faults < MaxFaults /\ faults' = faults + 1 /\ Fail(c, {"unavailable"})
  /\ UNCHANGED <<request, todo, result, touched, before, clientVars, active, deviceVars>>

Next1(c) == todo' = [todo EXCEPT ![c] = Tail(@)]
Exchanging(c) == stage[c] = "exchange" /\ todo[c] # <<>>
IsWrite(step) == "set" \in DOMAIN step

Write(c) ==
  /\ Exchanging(c) /\ IsWrite(Head(todo[c]))
  /\ settings' \in Outcomes(Head(todo[c]))
  /\ touched' = touched \cup {c}
  /\ Next1(c)
  /\ UNCHANGED <<stage, request, failure, result, before, clientVars, active, holder,
                 firmware, faults>>

\* What a reply makes of the operation: "ok", or why it fails.
SelectedProbe(c) == Probe(Header(settings), request[c].fields["channel"])
ReadProbe(c) ==
  IF SelectedProbe(c).error # "ok" THEN "malformed"
  ELSE IF ValidateChannelProbe(ChannelPatchFromProto(request[c].fields), SelectedProbe(c).probe)
    THEN "ok" ELSE "invalidSetting"

ReadMode(c) ==
  LET read == ParseAcquisitionMode(<<Spelled(settings[<<"ACQUIRE", "MODE">>])>>)
  IN  IF read.error # "ok" THEN "malformed"
      ELSE IF read.mode = request[c].fields["mode"] THEN "ok" ELSE "unsupportedControl"

Trace(c) == DecodeScreenTrace(request[c].channel, firmware.profile, firmware.samples)

\* A trace that cannot be had is no failure, one that contradicts itself is.
ReadData(c) ==
  IF Trace(c).error = "malformed" THEN "malformed"
  ELSE IF firmware.tooLarge THEN "waveformTooLarge" ELSE "ok"

Observed(c, what) ==
  CASE what = "probe" -> ReadProbe(c)
    [] what = "mode" -> ReadMode(c)
    [] what = "header" -> Controls(Header(settings)).error
    [] what = "identity" -> ParseIdentity(firmware.identity).error
    [] what = "measurement" -> ParseMeasurement(<<1, 2>>, firmware.number).error
    [] what = "reading" -> ParseDMMMeasurement(<<firmware.number, "V">>).error
    [] what = "data" -> ReadData(c)
    [] what = "profile" -> IF firmware.profile.isObject THEN "ok" ELSE "malformed"
    [] what = "generator" -> IF firmware.settles THEN "ok" ELSE "nonconvergence"
    [] OTHER -> "ok"

State == StateSnapshotToProto(Controls(Header(settings)))

Carried(c, what) ==
  CASE what = "header" -> State
    [] what = "data" -> ScreenTraceToProto(Trace(c))
    [] what = "identity" ->
         LET info == ParseIdentity(firmware.identity)
         IN  DeviceInfoToProto([capabilities |-> CapabilitiesForModel(info.model)] @@ info)
    [] what = "reading" -> DMMMeasurementToProto(ParseDMMMeasurement(<<firmware.number, "V">>))
    [] OTHER -> result[c]

Read(c) ==
  LET what == Head(todo[c]).ask IN
  /\ Exchanging(c) /\ ~IsWrite(Head(todo[c])) /\ what # "function"
  /\ IF Observed(c, what) = "ok"
     THEN /\ Next1(c)
          /\ result' = [result EXCEPT ![c] = Carried(c, what)]
          /\ UNCHANGED <<stage, failure, holder>>
     ELSE /\ Fail(c, {Observed(c, what)})
          /\ UNCHANGED <<todo, result>>
  /\ UNCHANGED <<request, touched, before, clientVars, active, deviceVars, faults>>

\* waitForDMMFunction: until the reply is what was asked for, however long.
FunctionReply ==
  LET set == settings[<<"DMM", "CONFIGURE">>] IN
  <<IF ~firmware.settles THEN "error" ELSE set[Len(set)]>>
Converge(c) ==
  LET fields == request[c].fields
      read == ParseDMMFunction(fields["function"], FunctionReply)
  IN
  /\ Exchanging(c) /\ Head(todo[c]) = Ask("function")
  /\ read.error = "ok" /\ read.function = fields["function"]
  /\ read.currentType = IF Has(fields, "currentType") THEN fields["currentType"] ELSE 0
  /\ Next1(c)
  /\ UNCHANGED <<stage, request, failure, result, touched, before, clientVars, active, holder,
                 deviceVars, faults>>

\* The transport fails, the reply is surplus, or the context ended; a write may
\* have reached the instrument.
ExchangeFails(c) ==
  /\ Exchanging(c)
  /\ \/ givenUp[c] # "no" /\ Fail(c, {givenUp[c]}) /\ UNCHANGED faults
     \/ /\ Head(todo[c]) # Ask("range") \/ givenUp[c] # "no"
        /\ faults < MaxFaults /\ faults' = faults + 1
        /\ \E class \in {"unavailable", "surplus"} :
             \E classes \in Reasons(c, class) : Fail(c, classes)
  /\ \/ UNCHANGED <<settings, touched>>
     \/ /\ IsWrite(Head(todo[c]))
        /\ settings' \in Outcomes(Head(todo[c]))
        /\ touched' = touched \cup {c}
  /\ UNCHANGED <<request, todo, result, before, clientVars, active, firmware>>

\* A snapshot does without the range of the multimeter if that cannot be had.
RangeUnavailable(c) ==
  /\ Exchanging(c) /\ Head(todo[c]) = Ask("range")
  /\ faults < MaxFaults /\ faults' = faults + 1
  /\ Next1(c)
  /\ UNCHANGED <<stage, request, failure, result, touched, before, clientVars, active, holder,
                 deviceVars>>

Finish(c) ==
  /\ Go(c, "exchange", "return") /\ todo[c] = <<>>
  /\ holder' = NoCall
  /\ UNCHANGED <<request, todo, failure, result, touched, before, clientVars, active,
                 deviceVars, faults>>

\* Mutant: only the path of success gives the slot back.
ReturnReleasingOnSuccess(c) ==
  /\ Go(c, "return", "answering")
  /\ active' = IF failure[c] = {} THEN active \ {c} ELSE active
  /\ UNCHANGED <<request, todo, failure, result, touched, before, clientVars, holder,
                 deviceVars, faults>>

\* releaseRPC is deferred, so that the slot is free before the answer is sent.
Return(c) ==
  /\ Go(c, "return", "answering")
  /\ active' = active \ {c}
  /\ UNCHANGED <<request, todo, failure, result, touched, before, clientVars, holder,
                 deviceVars, faults>>

\* What the handler knew goes with it.
Answer(c) ==
  /\ Go(c, "answering", "gone")
  /\ Answered(c, RpcError(failure[c]))
  /\ request' = [request EXCEPT ![c] = NoRequest]
  /\ todo' = [todo EXCEPT ![c] = <<>>]
  /\ failure' = [failure EXCEPT ![c] = {}]
  /\ result' = [result EXCEPT ![c] = None]
  /\ before' = [before EXCEPT ![c] = FactorySettings]
  /\ UNCHANGED <<touched, givenUp, active, holder, deviceVars, faults>>

-----------------------------------------------------------------------------
Handle(c) ==
  \/ Refuse(c) \/ Admit(c) \/ Begin(c) \/ BeginFails(c) \/ Write(c) \/ Read(c) \/ Converge(c)
  \/ ExchangeFails(c) \/ RangeUnavailable(c) \/ Finish(c) \/ Return(c) \/ Answer(c)

Invoke(c) ==
  \/ AskInfo(c) \/ AskQuery(c) \/ AskScope(c) \/ AskSource(c) \/ AskAction(c)
  \/ AskWaveform(c) \/ RejectNil(c)

Next == \E c \in Calls : Invoke(c) \/ GiveUp(c) \/ Handle(c)

Spec == Init /\ [][Next]_vars
-----------------------------------------------------------------------------
Types ==
  /\ stage \in [Calls -> Stages]
  /\ givenUp \in [Calls -> {"no", "canceled", "deadline"}]
  /\ answer = [c \in Calls |-> answer[c]]
  /\ holder \in Calls \cup {NoCall}
  /\ active \subseteq Calls /\ touched \subseteq Calls
  /\ faults \in 0..MaxFaults

\* A slot is held exactly while a handler runs, on every path out of it, and the
\* transaction belongs to a handler that exchanges.
SlotsMatch ==
  /\ active = {c \in Calls : stage[c] \in Handling}
  /\ IsFiniteSet(active) /\ Cardinality(active) <= MaxActiveRPCs
  /\ \A c \in Calls : stage[c] = "exchange" <=> holder = c

\* A client has an answer before its next call; one that has it while the call is
\* still handled gave up.
CallsInOrder ==
  \A c \in Calls :
    /\ stage[c] # "unsent" => \A n \in 1..(c[2] - 1) : answer[<<c[1], n>>] # "none"
    /\ stage[c] = "unsent" => answer[c] = "none"
    /\ stage[c] \notin {"unsent", "gone"} /\ answer[c] # "none" => givenUp[c] # "no"

\* Together: what the service and its clients hold of one another.
SlotsAccounted == Types /\ SlotsMatch /\ CallsInOrder

\* Clients that are no more than the slots, and wait for their answers, are never
\* refused for want of one: a call that was given up may still have it.
ExcessIsExplained ==
  [][\A c \in Calls :
       /\ stage[c] = "sent" /\ stage'[c] = "gone" /\ answer[c] = "none"
       /\ Cardinality(Clients) <= MaxActiveRPCs
       => \E d \in active : givenUp[d] # "no"]_vars

\* A request that the service calls wrong, or does not admit, changed nothing. One
\* that it calls unimplemented did so only to find that the firmware averages not.
RefusalsTouchNothing ==
  [][\A c \in touched :
       answer'[c] # answer[c] =>
         /\ answer'[c] \notin {"rejected", "ResourceExhausted", "InvalidArgument"}
         /\ answer'[c] = "Unimplemented" => request[c].fields["mode"] = 3]_vars

\* What a state message shows, with a scale as its value.
Shown(state) ==
  [f \in DOMAIN state |-> IF f = "scale" THEN state[f].value ELSE state[f]]

\* What a field of a request is called in the state, and what it is there.
StateName(f) ==
  CASE f = "offsetDivisions" -> "screenHeaderOffset"
    [] f = "levelVolts" -> "level"
    [] OTHER -> f
StateValue(fields, f) ==
  CASE f = "scale" -> fields[f].value
    [] f = "memoryDepth" -> MemoryDepthTokens[fields[f]]
    [] OTHER -> fields[f]

\* The state with the fields of a request in place of what it had.
Overridden(state, fields) ==
  [k \in DOMAIN state |->
     IF \E f \in DOMAIN fields : StateName(f) = k
     THEN StateValue(fields, CHOOSE f \in DOMAIN fields : StateName(f) = k)
     ELSE Shown(state)[k]]

Report(s) == StateSnapshotToProto(Controls(Header(s)))

\* What GetState would say after the request is what it would have said before it,
\* but for what the request asks, in the numbers of the wire.
Applied(r, was, is) ==
  /\ \A i \in 1..2 :
       Shown(is.channels[i]) =
         IF r.call = "SetChannel" /\ r.fields["channel"] = i
         THEN Overridden(was.channels[i], r.fields) ELSE Shown(was.channels[i])
  /\ Shown(is.acquisition) =
       IF r.call = "SetAcquisition" THEN Overridden(was.acquisition, r.fields)
       ELSE Shown(was.acquisition)
  /\ Shown(is.horizontal) =
       IF r.call = "SetHorizontal" THEN Overridden(was.horizontal, r.fields)
       ELSE Shown(was.horizontal)
  /\ Shown(is.trigger) =
       CASE r.call = "SetTrigger" -> Overridden(was.trigger, r.fields)
         [] r.call = "Acquire" -> [was.trigger EXCEPT !.status = r.status]
         [] OTHER -> Shown(was.trigger)

\* What the multimeter reports is what was asked of it.
MeasuresAsAsked(r) ==
  r.call = "SetDmm" /\ Has(r.fields, "range") =>
    ParseDMMRange(<<IF settings[<<"DMM", "RANGE">>] = "mV" THEN "MV"
                    ELSE settings[<<"DMM", "RANGE">>]>>).range = r.fields["range"]

\* What the state shows of a channel can be asked for again, and writes nothing but
\* what the instrument is set to already, unless its probe was changed and its scale
\* is none of the new one: a patch that names the probe alone is not held against
\* the scale.
ScaleFitsProbe(name) ==
  settings[<<name, "SCALE">>] \in ChannelScales(settings[<<name, "PROBE">>])
CanBeSentBack(state) ==
  \A i \in {j \in 1..2 : ScaleFitsProbe(ChannelNames[j])} :
    LET again == CompileChannel(ChannelPatchFromProto(
                   Converted(state.channels[i], {"channel", "display", "coupling",
                                                 "probeAttenuation", "scale"})))
    IN  /\ again.error = "ok"
        /\ \A j \in DOMAIN again.writes : settings[again.writes[j].set] = again.writes[j].to

\* A setting that the service reports as applied is what the instrument then shows,
\* nothing else is changed, and a snapshot is one moment of the instrument, which a
\* client can send back, whatever other clients ask meanwhile and whatever an autoset
\* found. Of an autoset itself nothing is claimed: its success says that the command
\* was sent, and leaves the settings unknown (server.go:535-537).
OkMeansApplied ==
  [][\A c \in Calls :
       stage[c] = "exchange" /\ stage'[c] = "return" /\ failure'[c] = {} =>
         /\ request[c].call # "Auto" => Applied(request[c], Report(before[c]), Report(settings))
         /\ MeasuresAsAsked(request[c])
         /\ request[c].call = "GetState" /\ request[c].includeControls =>
              result[c] = Report(before[c]) /\ CanBeSentBack(result[c])]_vars
=============================================================================
