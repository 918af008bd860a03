-------------------------- MODULE RpcService_proofs --------------------------
(***************************************************************************)
(* Proofs about RpcService, for any number of clients, calls and slots,    *)
(* whatever the calls ask. First the admission, in which what a request    *)
(* compiles to and what its exchanges find plays no part; then the order   *)
(* in which an operation looks and writes, in which it does; and then what *)
(* the writes of a plan make of the settings, and what a header says of    *)
(* them: that a request which is reported as applied is.                   *)
(***************************************************************************)
EXTENDS RpcService, FiniteSetTheorems, WellFoundedInduction, TLAPS

LEMMA CallsArePairs ==
  ASSUME NEW c \in Calls
  PROVE  c = <<c[1], c[2]>> /\ c[1] \in Clients /\ c[2] \in 1..MaxCalls
  BY DEF Calls

LEMMA InitSlots == Init => SlotsAccounted
<1> SUFFICES ASSUME Init PROVE SlotsAccounted
  OBVIOUS
<1> USE RpcAssumption DEF Init
<1>1. Types
  BY DEF Types, Stages
<1>2. SlotsMatch
  BY FS_EmptySet DEF SlotsMatch, Handling
<1>3. CallsInOrder
  BY DEF CallsInOrder
<1>4. QED
  BY <1>1, <1>2, <1>3 DEF SlotsAccounted

\* What a step may do to a call: the clients' side of it is in order afterwards.
LEMMA ClientsStayInOrder ==
  ASSUME SlotsAccounted, NEW c \in Calls,
         \A d \in Calls \ {c} : stage'[d] = stage[d] /\ answer'[d] = answer[d] /\ givenUp'[d] = givenUp[d],
         answer[c] # "none" => answer'[c] # "none",
         givenUp[c] # "no" => givenUp'[c] # "no",
         stage[c] = "unsent" => stage'[c] \in {"unsent", "gone"} \/ (IsNext(c) /\ answer'[c] = answer[c]),
         stage'[c] # "unsent" => stage[c] # "unsent" \/ IsNext(c),
         stage'[c] = "unsent" => answer'[c] = "none",
         stage'[c] \notin {"unsent", "gone"} /\ answer'[c] # "none" => givenUp'[c] # "no"
  PROVE  CallsInOrder'
<1> SUFFICES ASSUME NEW d \in Calls, stage'[d] # "unsent", NEW n \in 1..(d[2] - 1)
             PROVE  answer'[<<d[1], n>>] # "none"
  BY DEF SlotsAccounted, CallsInOrder
<1>1. <<d[1], n>> \in Calls
  BY CallsArePairs, RpcAssumption DEF Calls
<1>2. answer[<<d[1], n>>] # "none"
  BY DEF SlotsAccounted, CallsInOrder, IsNext
<1>3. QED
  BY <1>1, <1>2

LEMMA NewCallsAreUnanswered ==
  ASSUME SlotsAccounted, NEW c \in Calls, stage[c] = "unsent"
  PROVE  answer[c] = "none"
  BY DEF SlotsAccounted, CallsInOrder

LEMMA OneMore ==
  ASSUME NEW S, IsFiniteSet(S), NEW e, e \notin S, NEW n \in Nat, Cardinality(S) < n
  PROVE  IsFiniteSet(S \cup {e}) /\ Cardinality(S \cup {e}) <= n
<1>1. IsFiniteSet(S \cup {e}) /\ Cardinality(S \cup {e}) = Cardinality(S) + 1
  BY FS_AddElement
<1>2. Cardinality(S) \in Nat
  BY FS_CardinalityType
<1>3. QED
  BY <1>1, <1>2

LEMMA OneLess ==
  ASSUME NEW S, IsFiniteSet(S), NEW e \in S, NEW n \in Nat, Cardinality(S) <= n
  PROVE  IsFiniteSet(S \ {e}) /\ Cardinality(S \ {e}) <= n
<1>1. IsFiniteSet(S \ {e}) /\ Cardinality(S \ {e}) = Cardinality(S) - 1
  BY FS_RemoveElement
<1>2. Cardinality(S) \in Nat
  BY FS_CardinalityType
<1>3. QED
  BY <1>1, <1>2

\* The steps of the clients and of the handlers.

LEMMA SendsPreserves ==
  ASSUME SlotsAccounted, NEW c \in Calls, NEW methods, Sends(c, methods)
  PROVE  SlotsAccounted'
<1> USE RpcAssumption DEF SlotsAccounted, Sends, IsNext, clientVars, deviceVars, callVars
<1>1. Types'
  BY DEF Types, SlotsMatch, Stages, Handling
<1>2. SlotsMatch'
  BY DEF Types, SlotsMatch, Handling, Stages
<1>3. CallsInOrder'
  <2>1. stage[c] = "unsent" /\ IsNext(c) /\ stage' = [stage EXCEPT ![c] = "sent"]
        /\ UNCHANGED <<answer, givenUp>>
    BY DEF IsNext
  <2>2. stage'[c] = "sent" /\ \A d \in Calls \ {c} : stage'[d] = stage[d]
    BY <2>1 DEF Types
  <2>3. answer[c] # "none" => givenUp[c] # "no"
    BY <2>1, NewCallsAreUnanswered
  <2>4. QED
    BY <2>1, <2>2, <2>3, ClientsStayInOrder
<1>4. QED
  BY <1>1, <1>2, <1>3

LEMMA RejectNilPreserves ==
  ASSUME SlotsAccounted, NEW c \in Calls, RejectNil(c)
  PROVE  SlotsAccounted'
<1> USE RpcAssumption DEF clientVars, deviceVars, callVars
<1>1. Types'
  BY DEF SlotsAccounted, RejectNil, IsNext, Types, SlotsMatch, Stages, Handling
<1>2. SlotsMatch'
  BY DEF SlotsAccounted, RejectNil, IsNext, Types, SlotsMatch, Handling, Stages
<1>3. CallsInOrder'
  <2>1. /\ stage[c] = "unsent" /\ IsNext(c) /\ UNCHANGED givenUp
        /\ stage' = [stage EXCEPT ![c] = "gone"]
        /\ answer' = [answer EXCEPT ![c] = "rejected"]
    BY DEF RejectNil, IsNext
  <2>2. /\ stage'[c] = "gone" /\ answer'[c] = "rejected"
        /\ \A d \in Calls \ {c} :
             stage'[d] = stage[d] /\ answer'[d] = answer[d] /\ givenUp'[d] = givenUp[d]
        /\ givenUp[c] # "no" => givenUp'[c] # "no"
    BY <2>1 DEF SlotsAccounted, Types
  <2>3. QED
    BY <2>1, <2>2, ClientsStayInOrder
<1>4. QED
  BY <1>1, <1>2, <1>3 DEF SlotsAccounted

LEMMA GiveUpPreserves ==
  ASSUME SlotsAccounted, NEW c \in Calls, GiveUp(c)
  PROVE  SlotsAccounted'
<1> USE RpcAssumption DEF SlotsAccounted, GiveUp, clientVars, deviceVars, callVars
<1>0. PICK why \in {"canceled", "deadline"} :
        /\ givenUp' = [givenUp EXCEPT ![c] = why]
        /\ answer' = [answer EXCEPT ![c] = RpcError({why})]
  BY DEF GiveUp
<1>1. Types'
  BY <1>0 DEF Types, SlotsMatch, Stages, Handling
<1>2. SlotsMatch'
  BY DEF Types, SlotsMatch, Handling, Stages
<1>3. CallsInOrder'
  BY <1>0, ClientsStayInOrder DEF Types, CallsInOrder
<1>4. QED
  BY <1>1, <1>2, <1>3

LEMMA RefusePreserves ==
  ASSUME SlotsAccounted, NEW c \in Calls, Refuse(c)
  PROVE  SlotsAccounted'
<1> USE RpcAssumption DEF SlotsAccounted, Refuse, Go, Answered, clientVars, deviceVars, callVars
<1>1. Types'
  BY DEF Types, SlotsMatch, Stages, Handling
<1>2. SlotsMatch'
  BY DEF Types, SlotsMatch, Handling, Stages
<1>3. CallsInOrder'
  BY ClientsStayInOrder DEF Types, CallsInOrder
<1>4. QED
  BY <1>1, <1>2, <1>3

LEMMA AdmitPreserves ==
  ASSUME SlotsAccounted, NEW c \in Calls, Admit(c)
  PROVE  SlotsAccounted'
<1> USE RpcAssumption DEF SlotsAccounted, Admit, SlotIsFree, clientVars, deviceVars, callVars
<1>1. Types'
  BY DEF Types, SlotsMatch, Stages, Handling
<1>2. SlotsMatch'
  <2>1. c \notin active /\ active' = active \cup {c} /\ stage'[c] \in Handling
    BY DEF Types, SlotsMatch, Handling, Stages
  <2>2. active' = {d \in Calls : stage'[d] \in Handling}
    BY <2>1 DEF Types, SlotsMatch, Handling, Stages
  <2>3. IsFiniteSet(active') /\ Cardinality(active') <= MaxActiveRPCs
    <3>1. /\ IsFiniteSet(active) /\ Cardinality(active) < MaxActiveRPCs
          /\ MaxActiveRPCs \in Nat
      BY DEF SlotsMatch
    <3>2. IsFiniteSet(active \cup {c}) /\ Cardinality(active \cup {c}) <= MaxActiveRPCs
      BY <2>1, <3>1, OneMore
    <3>3. QED
      BY <2>1, <3>2
  <2>4. \A d \in Calls : stage'[d] = "exchange" <=> holder' = d
    BY DEF Types, SlotsMatch
  <2>5. QED
    BY <2>2, <2>3, <2>4 DEF SlotsMatch
<1>3. CallsInOrder'
  BY ClientsStayInOrder DEF Types, CallsInOrder
<1>4. QED
  BY <1>1, <1>2, <1>3

LEMMA BeginPreserves ==
  ASSUME SlotsAccounted, NEW c \in Calls, Begin(c)
  PROVE  SlotsAccounted'
<1> USE RpcAssumption DEF SlotsAccounted, Begin, Go, clientVars, deviceVars, callVars
<1>1. Types'
  BY DEF Types, SlotsMatch, Stages, Handling
<1>2. SlotsMatch'
  BY DEF Types, SlotsMatch, Handling, Stages
<1>3. CallsInOrder'
  BY ClientsStayInOrder DEF Types, CallsInOrder
<1>4. QED
  BY <1>1, <1>2, <1>3

LEMMA BeginFailsPreserves ==
  ASSUME SlotsAccounted, NEW c \in Calls, BeginFails(c)
  PROVE  SlotsAccounted'
<1> USE RpcAssumption DEF SlotsAccounted, BeginFails, Fail, clientVars, deviceVars, callVars
<1>1. Types'
  BY DEF Types, SlotsMatch, Stages, Handling
<1>2. SlotsMatch'
  BY DEF Types, SlotsMatch, Handling, Stages
<1>3. CallsInOrder'
  BY ClientsStayInOrder DEF Types, CallsInOrder
<1>4. QED
  BY <1>1, <1>2, <1>3

LEMMA WritePreserves ==
  ASSUME SlotsAccounted, NEW c \in Calls, Write(c)
  PROVE  SlotsAccounted'
<1> USE RpcAssumption DEF SlotsAccounted, Write, Exchanging, Next1, clientVars, deviceVars, callVars
<1>1. Types'
  BY DEF Types, SlotsMatch, Stages, Handling
<1>2. SlotsMatch'
  BY DEF Types, SlotsMatch, Handling, Stages
<1>3. CallsInOrder'
  BY ClientsStayInOrder DEF Types, CallsInOrder
<1>4. QED
  BY <1>1, <1>2, <1>3

LEMMA ReadPreserves ==
  ASSUME SlotsAccounted, NEW c \in Calls, Read(c)
  PROVE  SlotsAccounted'
<1> USE RpcAssumption DEF SlotsAccounted, Read, Exchanging, Next1, Fail, clientVars, deviceVars, callVars
<1>1. Types'
  BY DEF Types, SlotsMatch, Stages, Handling
<1>2. SlotsMatch'
  BY DEF Types, SlotsMatch, Handling, Stages
<1>3. CallsInOrder'
  BY ClientsStayInOrder DEF Types, CallsInOrder
<1>4. QED
  BY <1>1, <1>2, <1>3

LEMMA ConvergePreserves ==
  ASSUME SlotsAccounted, NEW c \in Calls, Converge(c)
  PROVE  SlotsAccounted'
<1> USE RpcAssumption DEF SlotsAccounted, Converge, Exchanging, Next1, clientVars, deviceVars, callVars
<1>1. Types'
  BY DEF Types, SlotsMatch, Stages, Handling
<1>2. SlotsMatch'
  BY DEF Types, SlotsMatch, Handling, Stages
<1>3. CallsInOrder'
  BY ClientsStayInOrder DEF Types, CallsInOrder
<1>4. QED
  BY <1>1, <1>2, <1>3

LEMMA ExchangeFailsPreserves ==
  ASSUME SlotsAccounted, NEW c \in Calls, ExchangeFails(c)
  PROVE  SlotsAccounted'
<1> USE RpcAssumption DEF SlotsAccounted, ExchangeFails, Exchanging, Fail, clientVars, deviceVars, callVars
<1>1. Types'
  BY DEF Types, SlotsMatch, Stages, Handling
<1>2. SlotsMatch'
  BY DEF Types, SlotsMatch, Handling, Stages
<1>3. CallsInOrder'
  BY ClientsStayInOrder DEF Types, CallsInOrder
<1>4. QED
  BY <1>1, <1>2, <1>3

LEMMA RangeUnavailablePreserves ==
  ASSUME SlotsAccounted, NEW c \in Calls, RangeUnavailable(c)
  PROVE  SlotsAccounted'
<1> USE RpcAssumption DEF SlotsAccounted, RangeUnavailable, Exchanging, Next1, clientVars, deviceVars, callVars
<1>1. Types'
  BY DEF Types, SlotsMatch, Stages, Handling
<1>2. SlotsMatch'
  BY DEF Types, SlotsMatch, Handling, Stages
<1>3. CallsInOrder'
  BY ClientsStayInOrder DEF Types, CallsInOrder
<1>4. QED
  BY <1>1, <1>2, <1>3

LEMMA FinishPreserves ==
  ASSUME SlotsAccounted, NEW c \in Calls, Finish(c)
  PROVE  SlotsAccounted'
<1> USE RpcAssumption DEF SlotsAccounted, Finish, Go, clientVars, deviceVars, callVars
<1>1. Types'
  BY DEF Types, SlotsMatch, Stages, Handling
<1>2. SlotsMatch'
  BY DEF Types, SlotsMatch, Handling, Stages
<1>3. CallsInOrder'
  BY ClientsStayInOrder DEF Types, CallsInOrder
<1>4. QED
  BY <1>1, <1>2, <1>3

LEMMA ReturnPreserves ==
  ASSUME SlotsAccounted, NEW c \in Calls, Return(c)
  PROVE  SlotsAccounted'
<1> USE RpcAssumption DEF SlotsAccounted, Return, Go, clientVars, deviceVars, callVars
<1>1. Types'
  BY DEF Types, SlotsMatch, Stages, Handling
<1>2. SlotsMatch'
  <2>1. c \in active /\ active' = active \ {c} /\ stage'[c] \notin Handling
    BY DEF Types, SlotsMatch, Handling, Stages
  <2>2. active' = {d \in Calls : stage'[d] \in Handling}
    BY <2>1 DEF Types, SlotsMatch, Handling, Stages
  <2>3. IsFiniteSet(active') /\ Cardinality(active') <= MaxActiveRPCs
    <3>1. /\ IsFiniteSet(active) /\ Cardinality(active) <= MaxActiveRPCs
          /\ MaxActiveRPCs \in Nat
      BY DEF SlotsMatch
    <3>2. IsFiniteSet(active \ {c}) /\ Cardinality(active \ {c}) <= MaxActiveRPCs
      BY <2>1, <3>1, OneLess
    <3>3. QED
      BY <2>1, <3>2
  <2>4. \A d \in Calls : stage'[d] = "exchange" <=> holder' = d
    BY DEF Types, SlotsMatch
  <2>5. QED
    BY <2>2, <2>3, <2>4 DEF SlotsMatch
<1>3. CallsInOrder'
  BY ClientsStayInOrder DEF Types, CallsInOrder
<1>4. QED
  BY <1>1, <1>2, <1>3

LEMMA AnswerPreserves ==
  ASSUME SlotsAccounted, NEW c \in Calls, Answer(c)
  PROVE  SlotsAccounted'
<1> USE RpcAssumption DEF SlotsAccounted, Answer, Go, Answered, clientVars, deviceVars, callVars
<1>1. Types'
  BY DEF Types, SlotsMatch, Stages, Handling
<1>2. SlotsMatch'
  BY DEF Types, SlotsMatch, Handling, Stages
<1>3. CallsInOrder'
  BY ClientsStayInOrder DEF Types, CallsInOrder
<1>4. QED
  BY <1>1, <1>2, <1>3

LEMMA StepPreserves == SlotsAccounted /\ [Next]_vars => SlotsAccounted'
<1>1. ASSUME SlotsAccounted, NEW c \in Calls, Invoke(c) \/ GiveUp(c) \/ Handle(c)
      PROVE  SlotsAccounted'
  BY <1>1, SendsPreserves, RejectNilPreserves, GiveUpPreserves, RefusePreserves,
     AdmitPreserves, BeginPreserves, BeginFailsPreserves, WritePreserves, ReadPreserves,
     ConvergePreserves, ExchangeFailsPreserves, RangeUnavailablePreserves,
     FinishPreserves, ReturnPreserves, AnswerPreserves
     DEF Invoke, Handle, AskInfo, AskQuery, AskScope, AskSource, AskAction, AskWaveform
<1>2. ASSUME SlotsAccounted, UNCHANGED vars
      PROVE  SlotsAccounted'
  BY <1>2 DEF vars, callVars, clientVars, deviceVars, SlotsAccounted, Types, SlotsMatch,
              CallsInOrder
<1>3. QED
  BY <1>1, <1>2 DEF Next

\* Every handler that runs has one slot, every handler that has left has given its
\* slot and the transaction back, and the slots are never exceeded.
THEOREM SlotsTheorem == Spec => []SlotsAccounted
<1>1. QED
  BY InitSlots, StepPreserves, PTL DEF Spec

\* A client that waits for its answers has at most one call under way.
LEMMA OneCallPerClient ==
  ASSUME SlotsAccounted, NEW d \in Calls, NEW e \in Calls,
         d[1] = e[1], stage[d] # "unsent", stage[e] # "unsent",
         answer[d] = "none", answer[e] = "none"
  PROVE  d = e
<1>1. d[2] \in Nat /\ e[2] \in Nat /\ d[2] >= 1 /\ e[2] >= 1
  BY CallsArePairs, RpcAssumption
<1>2. ~(d[2] < e[2])
  <2> SUFFICES ASSUME d[2] < e[2] PROVE FALSE
    OBVIOUS
  <2>1. d[2] \in 1..(e[2] - 1)
    BY <1>1
  <2>2. answer[<<e[1], d[2]>>] # "none"
    BY <2>1 DEF SlotsAccounted, CallsInOrder
  <2>3. QED
    BY <2>2, CallsArePairs
<1>3. ~(e[2] < d[2])
  <2> SUFFICES ASSUME e[2] < d[2] PROVE FALSE
    OBVIOUS
  <2>1. e[2] \in 1..(d[2] - 1)
    BY <1>1
  <2>2. answer[<<d[1], e[2]>>] # "none"
    BY <2>1 DEF SlotsAccounted, CallsInOrder
  <2>3. QED
    BY <2>2, CallsArePairs
<1>4. QED
  BY <1>1, <1>2, <1>3, CallsArePairs

\* If a call is refused although the clients are no more than the slots, some slot
\* is that of a call whose client no longer waits: otherwise the calls that hold a
\* slot would belong to as many clients, and none of them is the one refused.
LEMMA RefusedBehindGivenUp ==
  ASSUME SlotsAccounted, NEW c \in Calls, stage[c] = "sent", answer[c] = "none",
         ~SlotIsFree, Cardinality(Clients) <= MaxActiveRPCs
  PROVE  \E d \in active : givenUp[d] # "no"
<1> SUFFICES ASSUME \A d \in active : givenUp[d] = "no" PROVE FALSE
  OBVIOUS
<1> DEFINE others == Clients \ {c[1]}
           client == [d \in active |-> d[1]]
<1>1. \A d \in active : d \in Calls /\ stage[d] \in Handling /\ answer[d] = "none"
  BY DEF SlotsAccounted, SlotsMatch, CallsInOrder, Handling
<1>2. \A d \in active : d[1] \in others
  <2> SUFFICES ASSUME NEW d \in active, d[1] = c[1] PROVE FALSE
    BY <1>1, CallsArePairs
  <2>1. d = c
    BY <1>1, OneCallPerClient DEF Handling
  <2>2. QED
    BY <1>1, <2>1 DEF Handling
<1>3. client \in Injection(active, others)
  <2>1. client \in [active -> others]
    BY <1>2
  <2>2. ASSUME NEW d \in active, NEW e \in active, client[d] = client[e]
        PROVE  d = e
    BY <1>1, <2>2, OneCallPerClient DEF Handling
  <2>3. QED
    BY <2>1, <2>2 DEF Injection, IsInjective
<1>4. IsFiniteSet(others) /\ Cardinality(others) = Cardinality(Clients) - 1
  BY CallsArePairs, RpcAssumption, FS_RemoveElement
<1>5. Cardinality(active) <= Cardinality(others)
  <2> HIDE DEF client, others
  <2>1. QED
    BY <1>3, <1>4, FS_Injection
<1>6. Cardinality(active) \in Nat /\ Cardinality(Clients) \in Nat
  BY RpcAssumption, FS_CardinalityType DEF SlotsAccounted, SlotsMatch
<1>7. QED
  BY <1>4, <1>5, <1>6, RpcAssumption DEF SlotIsFree

\* The clients that wait are never refused, unless for those that did not.
THEOREM ExcessTheorem == Spec => ExcessIsExplained
<1> DEFINE Explained ==
      \A c \in Calls :
        /\ stage[c] = "sent" /\ stage'[c] = "gone" /\ answer[c] = "none"
        /\ Cardinality(Clients) <= MaxActiveRPCs
        => \E d \in active : givenUp[d] # "no"
<1>1. ASSUME SlotsAccounted, [Next]_vars
      PROVE  [Explained]_vars
  <2> SUFFICES ASSUME NEW c \in Calls, stage[c] = "sent", stage'[c] = "gone",
                      answer[c] = "none", Cardinality(Clients) <= MaxActiveRPCs
               PROVE  \E d \in active : givenUp[d] # "no"
    OBVIOUS
  <2>1. PICK d \in Calls : Invoke(d) \/ GiveUp(d) \/ Handle(d)
    BY <1>1 DEF Next, vars, callVars
  <2>2. d = c /\ Refuse(c)
    BY <1>1, <2>1
       DEF SlotsAccounted, Types, Invoke, Handle, Sends, AskInfo, AskQuery, AskScope,
           AskSource, AskAction, AskWaveform, RejectNil, GiveUp, Admit, Begin, BeginFails,
           Write, Read, Converge, ExchangeFails, RangeUnavailable, Finish, Return, Answer,
           Refuse, Fail, Go, Exchanging, IsNext, callVars
  <2>3. QED
    BY <1>1, <2>2, RefusedBehindGivenUp DEF Refuse
<1>2. QED
  BY <1>1, SlotsTheorem, PTL DEF Spec, ExcessIsExplained, Explained
-----------------------------------------------------------------------------
(* Refusals come before the first write. Whatever an operation reads once a   *)
(* write may have reached the instrument can fail, but cannot call the        *)
(* request wrong, except to find that averaging did not take.                 *)

Methods ==
  {"SetChannel", "SetAcquisition", "SetHorizontal", "SetTrigger", "SetMeasurement", "SetDmm",
   "SetGenerator", "GetState", "GetWaveform", "Execute", "Acquire", "Auto", "GetDeviceInfo",
   "GetDmmMeasurement"}

IsSequence(s) == s \in Seq({s[i] : i \in DOMAIN s})

\* The reads that may follow a write.
ReadsLate(r, step) ==
  \/ step.ask \in {"function", "generator"}
  \/ step.ask = "mode" /\ r.fields["mode"] = 3

\* Of these exchanges, any other read comes before the first write.
LooksFirst(r, steps, wrote) ==
  \A i \in DOMAIN steps :
    \/ IsWrite(steps[i]) \/ ReadsLate(r, steps[i])
    \/ ~wrote /\ \A j \in 1..(i - 1) : ~IsWrite(steps[j])

\* What can go wrong once a write may have reached the instrument.
LateFailures ==
  {"canceled", "deadline", "malformed", "surplus", "nonconvergence", "unavailable",
   "unsupportedControl"}

\* What refuses a call is known before its first write.
Early(c) ==
  /\ stage[c] = "sent" => request[c] \in Asked[c] \ {NoRequest} /\ request[c].call \in Methods
  /\ stage[c] \in {"begin", "exchange"} =>
       IsSequence(todo[c]) /\ LooksFirst(request[c], todo[c], c \in touched)
  /\ stage[c] \in {"unsent", "sent", "begin", "exchange"} => failure[c] = {}
  /\ c \in touched => stage[c] \in {"exchange", "return", "answering", "gone"}
  /\ c \in touched /\ stage[c] \in {"return", "answering"} =>
       /\ failure[c] \subseteq LateFailures
       /\ "unsupportedControl" \in failure[c] => request[c].fields["mode"] = 3

RefusalsAreEarly ==
  /\ request = [c \in Calls |-> request[c]]
  /\ todo = [c \in Calls |-> todo[c]]
  /\ failure = [c \in Calls |-> failure[c]]
  /\ \A c \in Calls : Early(c)

\* Sequences of exchanges: of reads, and of writes with the reads that may follow.
AllReads(s) == IsSequence(s) /\ \A i \in DOMAIN s : ~IsWrite(s[i])
AllLate(r, s) == IsSequence(s) /\ \A i \in DOMAIN s : IsWrite(s[i]) \/ ReadsLate(r, s[i])
AllWrites(s) == IsSequence(s) /\ \A i \in DOMAIN s : IsWrite(s[i])

LEMMA SequencesByElements ==
  ASSUME NEW s, NEW S, s \in Seq(S)
  PROVE  IsSequence(s)
  BY DEF IsSequence

LEMMA Concatenation ==
  ASSUME NEW s, NEW t, IsSequence(s), IsSequence(t)
  PROVE  /\ IsSequence(s \o t)
         /\ Len(s) \in Nat /\ Len(t) \in Nat
         /\ DOMAIN s = 1..Len(s) /\ DOMAIN t = 1..Len(t)
         /\ DOMAIN (s \o t) = 1..(Len(s) + Len(t))
         /\ \A i \in DOMAIN (s \o t) :
              (s \o t)[i] = IF i <= Len(s) THEN s[i] ELSE t[i - Len(s)]
<1> DEFINE E == {s[i] : i \in DOMAIN s} \cup {t[i] : i \in DOMAIN t}
<1>1. s \in Seq(E) /\ t \in Seq(E)
  <2>1. s \in Seq({s[i] : i \in DOMAIN s}) /\ t \in Seq({t[i] : i \in DOMAIN t})
    BY DEF IsSequence
  <2>2. QED
    BY <2>1
<1>2. s \o t \in Seq(E)
  <2> HIDE DEF E
  <2>1. QED
    BY <1>1
<1>3. IsSequence(s \o t)
  BY <1>2, SequencesByElements
<1>4. QED
  <2> HIDE DEF E
  <2>1. QED
    BY <1>1, <1>3

LEMMA ReadsThenLate ==
  ASSUME NEW r, NEW s, NEW t, AllReads(s), AllLate(r, t)
  PROVE  IsSequence(s \o t) /\ LooksFirst(r, s \o t, FALSE)
<1>1. IsSequence(s) /\ IsSequence(t)
  BY DEF AllReads, AllLate
<1>2. SUFFICES ASSUME NEW i \in DOMAIN (s \o t)
               PROVE  \/ IsWrite((s \o t)[i]) \/ ReadsLate(r, (s \o t)[i])
                      \/ \A j \in 1..(i - 1) : ~IsWrite((s \o t)[j])
  BY <1>1, Concatenation DEF LooksFirst
<1>3. CASE i <= Len(s)
  <2>1. SUFFICES ASSUME NEW j \in 1..(i - 1) PROVE ~IsWrite((s \o t)[j])
    OBVIOUS
  <2>2. j \in DOMAIN s /\ (s \o t)[j] = s[j]
    BY <1>1, <1>3, Concatenation
  <2>3. QED
    BY <2>2 DEF AllReads
<1>4. CASE ~(i <= Len(s))
  <2>1. i - Len(s) \in DOMAIN t /\ (s \o t)[i] = t[i - Len(s)]
    BY <1>1, <1>4, Concatenation
  <2>2. QED
    BY <2>1 DEF AllLate
<1>5. QED
  BY <1>3, <1>4

LEMMA MoreReads ==
  ASSUME NEW s, NEW t, AllReads(s), AllReads(t)
  PROVE  AllReads(s \o t)
<1>1. IsSequence(s) /\ IsSequence(t)
  BY DEF AllReads
<1>2. ASSUME NEW i \in DOMAIN (s \o t)
      PROVE  ~IsWrite((s \o t)[i])
  <2>1. \/ i \in DOMAIN s /\ (s \o t)[i] = s[i]
        \/ i - Len(s) \in DOMAIN t /\ (s \o t)[i] = t[i - Len(s)]
    BY <1>1, Concatenation
  <2>2. QED
    BY <2>1 DEF AllReads
<1>3. QED
  BY <1>1, <1>2, Concatenation DEF AllReads

LEMMA MoreLate ==
  ASSUME NEW r, NEW s, NEW t, AllLate(r, s), AllLate(r, t)
  PROVE  AllLate(r, s \o t)
<1>1. IsSequence(s) /\ IsSequence(t)
  BY DEF AllLate
<1>2. ASSUME NEW i \in DOMAIN (s \o t)
      PROVE  IsWrite((s \o t)[i]) \/ ReadsLate(r, (s \o t)[i])
  <2>1. \/ i \in DOMAIN s /\ (s \o t)[i] = s[i]
        \/ i - Len(s) \in DOMAIN t /\ (s \o t)[i] = t[i - Len(s)]
    BY <1>1, Concatenation
  <2>2. QED
    BY <2>1 DEF AllLate
<1>3. QED
  BY <1>1, <1>2, Concatenation DEF AllLate

LEMMA Nothing ==
  AllReads(<<>>) /\ AllWrites(<<>>) /\ \A r : AllLate(r, <<>>)
<1>1. IsSequence(<<>>)
  BY SequencesByElements, <<>> \in Seq({})
<1>2. QED
  BY <1>1 DEF AllReads, AllWrites, AllLate

LEMMA WritesAreLate ==
  ASSUME NEW s, AllWrites(s), NEW r
  PROVE  AllLate(r, s)
  BY DEF AllWrites, AllLate

LEMMA One ==
  ASSUME NEW e
  PROVE  IsSequence(<<e>>) /\ \A i \in DOMAIN <<e>> : <<e>>[i] = e
<1>1. <<e>> \in Seq({e}) /\ \A i \in DOMAIN <<e>> : <<e>>[i] = e
  OBVIOUS
<1>2. QED
  BY <1>1, SequencesByElements

LEMMA Pair ==
  ASSUME NEW d, NEW e
  PROVE  <<d>> \o <<e>> = <<d, e>>
<1> DEFINE both == <<d>> \o <<e>>
           pair == <<d, e>>
<1>1. both \in Seq({d, e}) /\ Len(both) = 2 /\ both[1] = d /\ both[2] = e
  OBVIOUS
<1>2. pair \in Seq({d, e}) /\ Len(pair) = 2 /\ pair[1] = d /\ pair[2] = e
  OBVIOUS
<1> HIDE DEF both, pair
<1>3. /\ both = [i \in 1..2 |-> both[i]]
      /\ pair = [i \in 1..2 |-> pair[i]]
  BY <1>1, <1>2
<1>4. \A i \in 1..2 : both[i] = pair[i]
  BY <1>1, <1>2
<1>5. both = pair
  BY <1>3, <1>4
<1>6. QED
  BY <1>5 DEF both, pair

LEMMA OneRead ==
  ASSUME NEW what
  PROVE  AllReads(<<Ask(what)>>)
<1>1. ~IsWrite(Ask(what))
  BY DEF IsWrite, Ask
<1>2. QED
  BY <1>1, One DEF AllReads

LEMMA OneLate ==
  ASSUME NEW r, NEW what, ReadsLate(r, Ask(what))
  PROVE  AllLate(r, <<Ask(what)>>)
  BY One DEF AllLate

LEMMA OneWrite ==
  ASSUME NEW what, NEW token
  PROVE  AllWrites(<<[set |-> what, to |-> token]>>)
<1> DEFINE write == [set |-> what, to |-> token]
<1>1. IsWrite(write)
  BY DEF IsWrite
<1> HIDE DEF write
<1>2. AllWrites(<<write>>)
  BY <1>1, One DEF AllWrites
<1>3. QED
  BY <1>2 DEF write

-----------------------------------------------------------------------------
(* What a request compiles to. *)

LEMMA EncodedIsWrites ==
  ASSUME NEW p, NEW subsystem, NEW rows, NEW m \in Nat, DOMAIN rows = 1..m
  PROVE  AllWrites(Encoded(p, subsystem, rows))
<1> DEFINE present == {i \in DOMAIN rows : Has(p, rows[i][1])}
           Row(n) == rows[CHOOSE i \in present : Cardinality({j \in present : j <= i}) = n]
           n == Cardinality(present)
           writes == [k \in 1..n |->
                        [set |-> <<subsystem, Row(k)[2]>>,
                         to |-> Token(Row(k)[1], p[Row(k)[1]])]]
<1>1. n \in Nat
  <2>1. IsFiniteSet(present)
    BY FS_Interval, FS_Subset
  <2>2. QED
    BY <2>1, FS_CardinalityType
<1>2. Encoded(p, subsystem, rows) = writes
  BY DEF Encoded
<1>3. \A k \in 1..n : IsWrite(writes[k])
  BY DEF IsWrite
<1> HIDE DEF writes, n
<1>4. DOMAIN writes = 1..n /\ writes = [k \in 1..n |-> writes[k]]
  BY DEF writes
<1>5. writes \in Seq({writes[k] : k \in 1..n})
  BY <1>1, <1>4
<1>6. QED
  BY <1>2, <1>3, <1>4, <1>5, SequencesByElements DEF AllWrites

LEMMA PlainCompilations ==
  ASSUME NEW p
  PROVE  /\ CompileChannel(p).error = "ok" => AllWrites(CompileChannel(p).writes)
         /\ CompileAcquisition(p).error = "ok" => AllWrites(CompileAcquisition(p).writes)
         /\ CompileHorizontal(p).error = "ok" => AllWrites(CompileHorizontal(p).writes)
         /\ CompileTrigger(p).error = "ok" => AllWrites(CompileTrigger(p).writes)
         /\ CompileMeasurement(p).error = "ok" => AllWrites(CompileMeasurement(p).writes)
         /\ CompileGenerator(p).error = "ok" => AllWrites(CompileGenerator(p).writes)
<1>1. \A class : Refused(class).writes = <<>>
  BY DEF Refused
<1>2. \A writes : Accepted(writes).writes = writes
  BY DEF Accepted
<1>3. /\ DOMAIN ChannelRows = 1..5 /\ DOMAIN TriggerRows = 1..5 /\ DOMAIN GeneratorRows = 1..14
      /\ DOMAIN <<<<"mode", "MODE">>, <<"memoryDepth", "DEPMEM">>>> = 1..2
      /\ DOMAIN <<<<"scale", "SCALE">>, <<"offsetDivisions", "OFFSET">>>> = 1..2
      /\ DOMAIN <<<<"display", "DISPLAY">>>> = 1..1
  BY DEF ChannelRows, TriggerRows, GeneratorRows
<1>4. AllWrites(CompileChannel(p).writes)
  BY <1>1, <1>2, <1>3, Nothing, EncodedIsWrites DEF CompileChannel
<1>5. AllWrites(CompileAcquisition(p).writes)
  BY <1>1, <1>2, <1>3, Nothing, EncodedIsWrites DEF CompileAcquisition
<1>6. AllWrites(CompileHorizontal(p).writes)
  BY <1>1, <1>2, <1>3, Nothing, EncodedIsWrites DEF CompileHorizontal
<1>7. AllWrites(CompileTrigger(p).writes)
  BY <1>1, <1>2, <1>3, Nothing, EncodedIsWrites DEF CompileTrigger
<1>8. AllWrites(CompileMeasurement(p).writes)
  BY <1>1, <1>2, <1>3, Nothing, EncodedIsWrites DEF CompileMeasurement
<1>9. AllWrites(CompileGenerator(p).writes)
  BY <1>1, <1>2, <1>3, Nothing, EncodedIsWrites DEF CompileGenerator
<1>10. QED
  BY <1>4, <1>5, <1>6, <1>7, <1>8, <1>9

\* The function of the multimeter is the first write, if there is one.
LEMMA DmmCompilation ==
  ASSUME NEW p, CompileDMM(p).error = "ok"
  PROVE  \E more : /\ AllWrites(more)
                   /\ CompileDMM(p).writes =
                        (IF Has(p, "function") THEN <<DMMFunctionCommand(p)>> ELSE <<>>) \o more
<1> DEFINE rows == <<<<"relative", "REL">>, <<"range", "RANGE">>, <<"autoRange", "AUTO">>>>
           more == Encoded(p, "DMM", rows)
           first == IF Has(p, "function") THEN <<DMMFunctionCommand(p)>> ELSE <<>>
<1>1. AllWrites(more)
  <2>1. DOMAIN rows = 1..3
    OBVIOUS
  <2> HIDE DEF rows
  <2>2. QED
    BY <2>1, EncodedIsWrites
<1>2. CompileDMM(p) = Accepted(first \o more)
  BY DEF CompileDMM, Refused
<1> HIDE DEF first, more
<1>3. CompileDMM(p).writes = first \o more
  BY <1>2 DEF Accepted
<1>4. QED
  BY <1>1, <1>3 DEF first

\* The plan of an operation is sound: what may refuse it comes before its writes.
Sound(r, steps) == IsSequence(steps) /\ LooksFirst(r, steps, FALSE)
SoundPlan(r, plan) == plan.error = "ok" => Sound(r, plan.steps)

LEMMA PlannedIsSound ==
  ASSUME NEW r, NEW compiled, NEW steps, compiled.error = "ok" => Sound(r, steps)
  PROVE  SoundPlan(r, Planned(compiled, steps))
<1>1. CASE compiled.error = "ok"
  <2>1. Planned(compiled, steps).steps = steps
    BY <1>1 DEF Planned, Exchanges
  <2>2. QED
    BY <1>1, <2>1 DEF SoundPlan
<1>2. CASE compiled.error # "ok"
  <2>1. Planned(compiled, steps).error = compiled.error
    BY <1>2 DEF Planned, Refusal
  <2>2. QED
    BY <1>2, <2>1 DEF SoundPlan
<1>3. QED
  BY <1>1, <1>2

LEMMA LateIsSound ==
  ASSUME NEW r, NEW s, AllLate(r, s)
  PROVE  Sound(r, s)
  BY DEF AllLate, LooksFirst, Sound

LEMMA ReadsAreSound ==
  ASSUME NEW r, NEW s, AllReads(s)
  PROVE  Sound(r, s)
<1>1. IsSequence(s)
  BY DEF AllReads
<1>2. DOMAIN s = 1..Len(s) /\ Len(s) \in Nat
  BY <1>1 DEF IsSequence
<1>3. \A i \in DOMAIN s : \A j \in 1..(i - 1) : j \in DOMAIN s
  BY <1>2
<1>4. QED
  BY <1>1, <1>3 DEF AllReads, LooksFirst, Sound

LEMMA SetChannelIsSound ==
  ASSUME NEW r
  PROVE  SoundPlan(r, SetChannel(r))
<1> DEFINE patch == ChannelPatchFromProto(r.fields)
           plan == CompileChannel(patch)
           probe == IF ProbeRequired(patch) THEN <<Ask("probe")>> ELSE <<>>
<1>1. AllReads(probe)
  BY OneRead, Nothing
<1>2. plan.error = "ok" => AllWrites(plan.writes)
  BY PlainCompilations
<1>3. SetChannel(r) = Planned(plan, probe \o plan.writes)
  BY DEF SetChannel
<1> HIDE DEF plan, probe
<1>4. plan.error = "ok" => Sound(r, probe \o plan.writes)
  BY <1>1, <1>2, WritesAreLate, ReadsThenLate DEF Sound
<1>5. QED
  BY <1>3, <1>4, PlannedIsSound

LEMMA SetAcquisitionIsSound ==
  ASSUME NEW r
  PROVE  SoundPlan(r, SetAcquisition(r))
<1> DEFINE patch == AcquisitionPatchFromProto(r.fields)
           plan == CompileAcquisition(patch)
           mode == IF Has(patch, "mode") /\ patch["mode"] = 3 THEN <<Ask("mode")>> ELSE <<>>
<1>1. AllLate(r, mode)
  <2>1. Has(patch, "mode") /\ patch["mode"] = 3 => ReadsLate(r, Ask("mode"))
    BY DEF AcquisitionPatchFromProto, Converted, Has, ReadsLate, Ask
  <2>2. QED
    BY <2>1, OneLate, Nothing
<1>2. plan.error = "ok" => AllWrites(plan.writes)
  BY PlainCompilations
<1>3. SetAcquisition(r) = Planned(plan, plan.writes \o mode)
  BY DEF SetAcquisition
<1> HIDE DEF plan, mode
<1>4. plan.error = "ok" => Sound(r, plan.writes \o mode)
  BY <1>1, <1>2, WritesAreLate, MoreLate, LateIsSound
<1>5. QED
  BY <1>3, <1>4, PlannedIsSound

LEMMA SetGeneratorIsSound ==
  ASSUME NEW r
  PROVE  SoundPlan(r, SetGenerator(r))
<1> DEFINE plan == CompileGenerator(GeneratorPatchFromProto(r.fields))
           look == IF r.observe THEN <<Ask("generator")>> ELSE <<>>
<1>1. AllLate(r, look)
  <2>1. ReadsLate(r, Ask("generator"))
    BY DEF ReadsLate, Ask
  <2>2. QED
    BY <2>1, OneLate, Nothing
<1>2. plan.error = "ok" => AllWrites(plan.writes)
  BY PlainCompilations
<1>3. SetGenerator(r) = Planned(plan, plan.writes \o look)
  BY DEF SetGenerator
<1> HIDE DEF plan, look
<1>4. plan.error = "ok" => Sound(r, plan.writes \o look)
  BY <1>1, <1>2, WritesAreLate, MoreLate, LateIsSound
<1>5. QED
  BY <1>3, <1>4, PlannedIsSound

LEMMA PlainSettingsAreSound ==
  ASSUME NEW r
  PROVE  /\ SoundPlan(r, SetHorizontal(r)) /\ SoundPlan(r, SetTrigger(r))
         /\ SoundPlan(r, SetMeasurement(r))
<1>1. ASSUME NEW plan, plan.error = "ok" => AllWrites(plan.writes)
      PROVE  SoundPlan(r, Planned(plan, plan.writes))
  BY <1>1, PlannedIsSound, WritesAreLate, LateIsSound
<1>2. QED
  BY <1>1, PlainCompilations DEF SetHorizontal, SetTrigger, SetMeasurement

LEMMA SetDmmIsSound ==
  ASSUME NEW r
  PROVE  SoundPlan(r, SetDmm(r))
<1> DEFINE patch == DMMPatchFromProto(r.fields)
           plan == CompileDMM(patch)
           poll == <<Ask("function")>>
           steps == IF ~Has(patch, "function") THEN plan.writes
                    ELSE <<Head(plan.writes), Ask("function")>> \o Tail(plan.writes) \o
                         IF Len(plan.writes) = 1 THEN <<>> ELSE poll
<1>1. AllLate(r, poll)
  <2>1. ReadsLate(r, Ask("function"))
    BY DEF ReadsLate, Ask
  <2>2. QED
    BY <2>1, OneLate
<1>2. SetDmm(r) = Planned(plan, steps)
  BY DEF SetDmm
<1>3. SUFFICES ASSUME plan.error = "ok"
               PROVE  AllLate(r, steps)
  <2> HIDE DEF plan, steps
  <2>1. QED
    BY <1>2, PlannedIsSound, LateIsSound
<1>4. PICK more : /\ AllWrites(more)
                  /\ plan.writes =
                       (IF Has(patch, "function") THEN <<DMMFunctionCommand(patch)>> ELSE <<>>)
                       \o more
  BY <1>3, DmmCompilation
<1>5. more \in Seq({more[i] : i \in DOMAIN more})
  BY <1>4 DEF AllWrites, IsSequence
<1>6. CASE ~Has(patch, "function")
  <2>1. plan.writes = more
    <3>1. plan.writes = <<>> \o more
      BY <1>4, <1>6
    <3>2. <<>> \o more = more
      BY <1>5
    <3>3. QED
      BY <3>1, <3>2
  <2>2. QED
    BY <1>4, <1>6, <2>1, WritesAreLate
<1>7. CASE Has(patch, "function")
  <2> DEFINE first == DMMFunctionCommand(patch)
             tail == IF Len(plan.writes) = 1 THEN <<>> ELSE poll
  <2>1. plan.writes = <<first>> \o more
    BY <1>4, <1>7
  <2>2. AllLate(r, <<first>>)
    BY OneWrite, WritesAreLate DEF DMMFunctionCommand
  <2>3. Head(plan.writes) = first /\ Tail(plan.writes) = more
    <3> HIDE DEF first, plan
    <3>1. Head(<<first>> \o more) = first /\ Tail(<<first>> \o more) = more
      BY <1>5
    <3>2. QED
      BY <2>1, <3>1
  <2>4. steps = <<first, Ask("function")>> \o more \o tail
    <3> HIDE DEF first, plan
    <3>1. QED
      BY <1>7, <2>3
  <2>5. <<first, Ask("function")>> = <<first>> \o poll
    <3> HIDE DEF first
    <3>1. QED
      OBVIOUS
  <2>6. AllLate(r, <<first>> \o poll)
    <3> HIDE DEF first, poll
    <3>1. QED
      BY <1>1, <2>2, MoreLate
  <2>7. AllLate(r, more) /\ AllLate(r, tail)
    <3> HIDE DEF poll, plan
    <3>1. QED
      BY <1>1, <1>4, Nothing, WritesAreLate
  <2>8. QED
    <3> HIDE DEF first, poll, tail, steps
    <3>1. QED
      BY <2>4, <2>5, <2>6, <2>7, MoreLate
<1>8. QED
  BY <1>6, <1>7

LEMMA GetStateIsSound ==
  ASSUME NEW r, r.measurements \in Seq(Seq(Int))
  PROVE  SoundPlan(r, GetState(r))
<1> DEFINE Query(i) == [ask |-> "measurement", query |-> MeasurementQuery(r.measurements[i])]
           queries == [i \in DOMAIN r.measurements |-> Query(i)]
           controls == IF r.includeControls THEN <<Ask("header"), Ask("range")>> ELSE <<>>
<1>1. AllReads(queries)
  <2>1. Len(r.measurements) \in Nat /\ DOMAIN r.measurements = 1..Len(r.measurements)
    OBVIOUS
  <2>2. DOMAIN queries = 1..Len(r.measurements)
    BY <2>1
  <2>3. \A i \in DOMAIN queries : ~IsWrite(queries[i])
    BY DEF IsWrite
  <2> HIDE DEF queries
  <2>4. queries = [i \in 1..Len(r.measurements) |-> queries[i]]
    BY <2>2 DEF queries
  <2>5. queries \in Seq({queries[i] : i \in DOMAIN queries})
    BY <2>1, <2>2, <2>4
  <2>6. QED
    BY <2>3, <2>5 DEF AllReads, IsSequence
<1>2. AllReads(controls)
  <2>1. AllReads(<<Ask("header")>> \o <<Ask("range")>>)
    BY OneRead, MoreReads
  <2>2. <<Ask("header")>> \o <<Ask("range")>> = <<Ask("header"), Ask("range")>>
    BY Pair
  <2>3. QED
    BY <2>1, <2>2, Nothing
<1>3. AllReads(<<Ask("identity")>> \o queries \o controls)
  <2> HIDE DEF queries, controls
  <2>1. QED
    BY <1>1, <1>2, OneRead, MoreReads
<1>4. \/ GetState(r) = Refusal("invalidRequest")
      \/ GetState(r) = Exchanges(<<Ask("identity")>> \o queries \o controls)
  BY DEF GetState
<1> HIDE DEF queries, controls
<1> DEFINE steps == <<Ask("identity")>> \o queries \o controls
<1>5. Sound(r, steps)
  BY <1>3, ReadsAreSound
<1>6. SoundPlan(r, Exchanges(steps)) /\ SoundPlan(r, Refusal("invalidRequest"))
  <2> HIDE DEF steps
  <2>1. QED
    BY <1>5 DEF SoundPlan, Exchanges, Refusal
<1>7. QED
  BY <1>4, <1>6

LEMMA OneStepIsSound ==
  ASSUME NEW r
  PROVE  /\ SoundPlan(r, GetWaveform(r)) /\ SoundPlan(r, Execute(r)) /\ SoundPlan(r, Acquire(r))
         /\ SoundPlan(r, AutoSetup)
         /\ SoundPlan(r, GetDeviceInfo) /\ SoundPlan(r, GetDmmMeasurement)
<1>1. ASSUME NEW s, AllReads(s)
      PROVE  SoundPlan(r, Exchanges(s))
  BY <1>1, ReadsAreSound DEF SoundPlan, Exchanges
<1>2. SoundPlan(r, GetWaveform(r))
  <2>1. AllReads(<<Ask("profile")>> \o <<Ask("data")>>)
    BY OneRead, MoreReads
  <2>2. <<Ask("profile")>> \o <<Ask("data")>> = <<Ask("profile"), Ask("data")>>
    BY Pair
  <2>3. SoundPlan(r, Exchanges(<<Ask("profile"), Ask("data")>>))
    BY <1>1, <2>1, <2>2
  <2>4. WaveformRefusal(r) # "ok" => SoundPlan(r, Refusal(WaveformRefusal(r)))
    BY DEF SoundPlan, Refusal
  <2>5. QED
    BY <2>3, <2>4 DEF GetWaveform
<1>3. SoundPlan(r, Execute(r))
  <2>1. SoundPlan(r, Refusal("invalidCommand"))
    BY DEF SoundPlan, Refusal
  <2>2. QED
    BY <1>1, <2>1, OneRead DEF Execute
<1>4. SoundPlan(r, Acquire(r))
  <2> DEFINE steps == <<[set |-> <<"ACQUIRE", "STATUS">>, to |-> r.status]>>
  <2>1. AllLate(r, steps)
    BY OneWrite, WritesAreLate
  <2>2. Acquire(r) = Exchanges(steps)
    BY DEF Acquire
  <2> HIDE DEF steps
  <2>3. QED
    BY <2>1, <2>2, LateIsSound DEF SoundPlan, Exchanges
<1>5. SoundPlan(r, GetDeviceInfo) /\ SoundPlan(r, GetDmmMeasurement)
  BY <1>1, OneRead DEF GetDeviceInfo, GetDmmMeasurement
<1>6. SoundPlan(r, AutoSetup)
  <2>1. AllLate(r, <<Autoset>>)
    BY OneWrite, WritesAreLate DEF Autoset
  <2>2. QED
    BY <2>1, LateIsSound DEF SoundPlan, Exchanges, AutoSetup
<1>7. QED
  BY <1>2, <1>3, <1>4, <1>5, <1>6

\* Whatever is asked, a plan looks before it writes.
LEMMA PlansAreSound ==
  ASSUME NEW r, r.call \in Methods,
         r.call = "GetState" => r.measurements \in Seq(Seq(Int))
  PROVE  SoundPlan(r, Plan(r))
<1> USE DEF Plan
<1>1. CASE r.call = "SetChannel"
  BY <1>1, SetChannelIsSound
<1>2. CASE r.call = "SetAcquisition"
  BY <1>2, SetAcquisitionIsSound
<1>3. CASE r.call \in {"SetHorizontal", "SetTrigger", "SetMeasurement"}
  BY <1>3, PlainSettingsAreSound
<1>4. CASE r.call = "SetDmm"
  BY <1>4, SetDmmIsSound
<1>5. CASE r.call = "SetGenerator"
  BY <1>5, SetGeneratorIsSound
<1>6. CASE r.call = "GetState"
  BY <1>6, GetStateIsSound
<1>7. CASE r.call \in {"GetWaveform", "Execute", "Acquire", "Auto", "GetDeviceInfo",
                      "GetDmmMeasurement"}
  BY <1>7, OneStepIsSound
<1>8. QED
  BY <1>1, <1>2, <1>3, <1>4, <1>5, <1>6, <1>7 DEF Methods

\* A set of numbers that is not empty has a least one.
LEMMA LeastNumber ==
  ASSUME NEW R \in SUBSET Nat, R # {}
  PROVE  \E i \in R : \A j \in R : i <= j
<1>1. IsWellFoundedOn(OpToRel(<, Nat), Nat)
  BY NatLessThanWellFounded
<1>2. PICK k \in R : \A j \in R : ~ (<<j, k>> \in OpToRel(<, Nat))
  BY <1>1, WFMin
<1>3. \A j \in R : j \in Nat /\ k \in Nat /\ ~ (j < k)
  BY <1>2 DEF OpToRel
<1>4. QED
  BY <1>3

-----------------------------------------------------------------------------
(* The invariant. *)

LEMMA InitEarly == Init => RefusalsAreEarly
  BY DEF Init, RefusalsAreEarly, Early

\* A step that concerns one call leaves the others as they were.
LEMMA OthersStayEarly ==
  ASSUME RefusalsAreEarly, NEW c \in Calls,
         request' = [d \in Calls |-> request'[d]], todo' = [d \in Calls |-> todo'[d]],
         failure' = [d \in Calls |-> failure'[d]],
         \A d \in Calls \ {c} :
           /\ stage'[d] = stage[d] /\ request'[d] = request[d] /\ todo'[d] = todo[d]
           /\ failure'[d] = failure[d] /\ (d \in touched' <=> d \in touched),
         Early(c)'
  PROVE  RefusalsAreEarly'
<1>1. ASSUME NEW d \in Calls \ {c} PROVE Early(d)'
  <2>1. /\ stage'[d] = stage[d] /\ request'[d] = request[d] /\ todo'[d] = todo[d]
        /\ failure'[d] = failure[d] /\ (d \in touched') = (d \in touched)
    BY <1>1
  <2>2. Early(d)
    BY DEF RefusalsAreEarly
  <2>3. QED
    BY <2>1, <2>2 DEF Early
<1>2. QED
  BY <1>1 DEF RefusalsAreEarly

\* What is left of the exchanges after the first is a sequence that looks first.
LEMMA RestLooksFirst ==
  ASSUME NEW r, NEW s, IsSequence(s), s # <<>>, NEW c, NEW T, NEW U,
         LooksFirst(r, s, c \in T), c \in U => c \in T \/ IsWrite(s[1])
  PROVE  IsSequence(Tail(s)) /\ LooksFirst(r, Tail(s), c \in U)
<1> DEFINE E == {s[i] : i \in DOMAIN s}
<1>1. s \in Seq(E)
  BY DEF IsSequence
<1> HIDE DEF E
<1>2. /\ Tail(s) \in Seq(E) /\ Len(s) \in Nat /\ Len(s) >= 1 /\ DOMAIN s = 1..Len(s)
      /\ DOMAIN Tail(s) = 1..(Len(s) - 1)
      /\ \A i \in 1..(Len(s) - 1) : Tail(s)[i] = s[i + 1]
  BY <1>1
<1>3. ASSUME NEW i \in DOMAIN Tail(s), ~IsWrite(Tail(s)[i]), ~ReadsLate(r, Tail(s)[i])
      PROVE  c \notin U /\ \A j \in 1..(i - 1) : ~IsWrite(Tail(s)[j])
  <2>1. i + 1 \in DOMAIN s /\ Tail(s)[i] = s[i + 1] /\ i \in 1..(Len(s) - 1)
    BY <1>2
  <2>2. c \notin T /\ \A j \in 1..((i + 1) - 1) : ~IsWrite(s[j])
    BY <1>3, <2>1 DEF LooksFirst
  <2>3. \A j \in 1..(i - 1) : j + 1 \in 1..((i + 1) - 1) /\ Tail(s)[j] = s[j + 1]
    BY <1>2, <2>1
  <2>4. 1 \in 1..((i + 1) - 1)
    BY <2>1
  <2>5. QED
    BY <2>2, <2>3, <2>4
<1>4. LooksFirst(r, Tail(s), c \in U)
  BY <1>3 DEF LooksFirst
<1>5. QED
  BY <1>2, <1>4, SequencesByElements

LEMMA SendsEarly ==
  ASSUME SlotsAccounted, RefusalsAreEarly, NEW c \in Calls,
         AskInfo(c) \/ AskQuery(c) \/ AskScope(c) \/ AskSource(c) \/ AskAction(c) \/ AskWaveform(c)
  PROVE  RefusalsAreEarly'
<1>1. PICK methods \in SUBSET Methods : Sends(c, methods)
  BY DEF AskInfo, AskQuery, AskScope, AskSource, AskAction, AskWaveform, Methods
<1>2. PICK r \in Asked[c] \ {NoRequest} : r.call \in methods /\ request' = [request EXCEPT ![c] = r]
  BY <1>1 DEF Sends
<1>3. /\ stage[c] = "unsent" /\ stage' = [stage EXCEPT ![c] = "sent"]
      /\ UNCHANGED <<todo, failure, touched>>
  BY <1>1 DEF Sends, IsNext
<1>4. c \notin touched /\ failure[c] = {}
  BY <1>3 DEF RefusalsAreEarly, Early
<1>5. stage'[c] = "sent" /\ request'[c] = r
  BY <1>2, <1>3 DEF RefusalsAreEarly, SlotsAccounted, Types
<1>6. Early(c)'
  BY <1>2, <1>3, <1>4, <1>5 DEF Early
<1>7. QED
  BY <1>2, <1>3, <1>6, OthersStayEarly DEF RefusalsAreEarly, SlotsAccounted, Types

LEMMA AdmitEarly ==
  ASSUME SlotsAccounted, RefusalsAreEarly, NEW c \in Calls, Admit(c)
  PROVE  RefusalsAreEarly'
<1> DEFINE plan == Plan(request[c])
<1>1. stage[c] = "sent" /\ UNCHANGED <<request, touched>>
  BY DEF Admit
<1>2. c \notin touched /\ failure[c] = {}
  BY <1>1 DEF RefusalsAreEarly, Early
<1>3. SoundPlan(request[c], plan)
  <2>1. request[c] \in Asked[c] \ {NoRequest} /\ request[c].call \in Methods
    BY <1>1 DEF RefusalsAreEarly, Early
  <2>2. QED
    BY <2>1, PlansAreSound, MessagesAreTyped
<1>4. \/ /\ plan.error = "ok" /\ stage' = [stage EXCEPT ![c] = "begin"]
         /\ todo' = [todo EXCEPT ![c] = plan.steps] /\ UNCHANGED failure
      \/ /\ stage' = [stage EXCEPT ![c] = "return"]
         /\ failure' = [failure EXCEPT ![c] = {plan.error}] /\ UNCHANGED todo
  BY DEF Admit
<1> HIDE DEF plan
<1>5. Early(c)'
  <2>1. CASE /\ plan.error = "ok" /\ stage' = [stage EXCEPT ![c] = "begin"]
             /\ todo' = [todo EXCEPT ![c] = plan.steps] /\ UNCHANGED failure
    <3>1. stage'[c] = "begin" /\ todo'[c] = plan.steps
      BY <2>1 DEF RefusalsAreEarly, SlotsAccounted, Types
    <3>2. IsSequence(plan.steps) /\ LooksFirst(request[c], plan.steps, FALSE)
      BY <1>3, <2>1 DEF SoundPlan, Sound
    <3>3. LooksFirst(request'[c], todo'[c], c \in touched')
      BY <1>1, <1>2, <3>1, <3>2 DEF LooksFirst
    <3>4. QED
      BY <1>1, <1>2, <2>1, <3>1, <3>2, <3>3 DEF Early
  <2>2. CASE stage' = [stage EXCEPT ![c] = "return"]
    <3>1. stage'[c] = "return"
      BY <2>2 DEF SlotsAccounted, Types
    <3>2. QED
      BY <1>1, <1>2, <3>1 DEF Early
  <2>3. QED
    BY <1>4, <2>1, <2>2
<1>6. QED
  BY <1>1, <1>4, <1>5, OthersStayEarly DEF RefusalsAreEarly, SlotsAccounted, Types

\* The steps that leave the request, the exchanges and the failure alone.
LEMMA QuietEarly ==
  ASSUME SlotsAccounted, RefusalsAreEarly, NEW c \in Calls,
         RejectNil(c) \/ GiveUp(c) \/ Begin(c) \/ Finish(c) \/ Return(c)
  PROVE  RefusalsAreEarly'
<1>1. UNCHANGED <<request, todo, failure, touched>>
  BY DEF RejectNil, GiveUp, Begin, Finish, Return, callVars
<1>2. \A d \in Calls \ {c} : stage'[d] = stage[d]
  BY DEF RejectNil, GiveUp, Begin, Finish, Return, Go, callVars, SlotsAccounted, Types
<1>3. \/ stage'[c] = stage[c]
      \/ stage[c] = "unsent" /\ stage'[c] = "gone"
      \/ stage[c] = "begin" /\ stage'[c] = "exchange"
      \/ stage[c] = "exchange" /\ stage'[c] = "return"
      \/ stage[c] = "return" /\ stage'[c] = "answering"
  BY DEF RejectNil, GiveUp, Begin, Finish, Return, Go, IsNext, callVars, SlotsAccounted, Types
<1>4. Early(c)
  BY DEF RefusalsAreEarly
<1>5. Early(c)'
  BY <1>1, <1>3, <1>4 DEF Early
<1>6. QED
  BY <1>1, <1>2, <1>5, OthersStayEarly DEF RefusalsAreEarly

\* The steps after which the handler knows nothing of the call.
LEMMA GoneEarly ==
  ASSUME SlotsAccounted, RefusalsAreEarly, NEW c \in Calls, Refuse(c) \/ Answer(c)
  PROVE  RefusalsAreEarly'
<1>1. stage' = [stage EXCEPT ![c] = "gone"] /\ UNCHANGED touched
  BY DEF Refuse, Answer, Go
<1>2. stage'[c] = "gone" /\ \A d \in Calls \ {c} : stage'[d] = stage[d]
  BY <1>1 DEF SlotsAccounted, Types
<1>3. Early(c)'
  BY <1>2 DEF Early
<1>4. /\ request' = [d \in Calls |-> request'[d]] /\ todo' = [d \in Calls |-> todo'[d]]
      /\ failure' = [d \in Calls |-> failure'[d]]
      /\ \A d \in Calls \ {c} :
           request'[d] = request[d] /\ todo'[d] = todo[d] /\ failure'[d] = failure[d]
  BY DEF Refuse, Answer, RefusalsAreEarly
<1>5. QED
  BY <1>1, <1>2, <1>3, <1>4, OthersStayEarly

\* An operation that fails before it writes, or of what may go wrong later.
LEMMA FailEarly ==
  ASSUME SlotsAccounted, RefusalsAreEarly, NEW c \in Calls, NEW classes, Fail(c, classes),
         touched' = touched \/ touched' = touched \cup {c}, UNCHANGED <<request, todo>>,
         \/ c \notin touched'
         \/ /\ classes \subseteq LateFailures
            /\ "unsupportedControl" \in classes => request[c].fields["mode"] = 3
  PROVE  RefusalsAreEarly'
<1>1. /\ stage'[c] = "return" /\ failure'[c] = classes
      /\ failure' = [d \in Calls |-> failure'[d]]
      /\ \A d \in Calls \ {c} : stage'[d] = stage[d] /\ failure'[d] = failure[d]
  BY DEF Fail, SlotsAccounted, Types, RefusalsAreEarly
<1>2. Early(c)'
  BY <1>1 DEF Early
<1>3. QED
  BY <1>1, <1>2, OthersStayEarly DEF RefusalsAreEarly

\* An exchange that succeeds.
LEMMA NextEarly ==
  ASSUME SlotsAccounted, RefusalsAreEarly, NEW c \in Calls, Exchanging(c), Next1(c),
         \/ touched' = touched
         \/ touched' = touched \cup {c} /\ IsWrite(Head(todo[c])),
         UNCHANGED <<stage, request, failure>>
  PROVE  RefusalsAreEarly'
<1>1. /\ stage[c] = "exchange" /\ todo[c] # <<>> /\ failure[c] = {}
      /\ IsSequence(todo[c]) /\ LooksFirst(request[c], todo[c], c \in touched)
  BY DEF Exchanging, RefusalsAreEarly, Early
<1>2. /\ todo'[c] = Tail(todo[c]) /\ todo' = [d \in Calls |-> todo'[d]]
      /\ \A d \in Calls \ {c} : todo'[d] = todo[d]
  BY DEF Next1, RefusalsAreEarly
<1>3. IsSequence(Tail(todo[c])) /\ LooksFirst(request[c], Tail(todo[c]), c \in touched')
  <2>1. Head(todo[c]) = todo[c][1]
    BY <1>1 DEF IsSequence
  <2>2. c \in touched' => c \in touched \/ IsWrite(todo[c][1])
    BY <2>1
  <2>3. QED
    BY <1>1, <2>2, RestLooksFirst
<1>4. Early(c)'
  BY <1>1, <1>2, <1>3 DEF Early
<1>5. QED
  BY <1>2, <1>4, OthersStayEarly DEF RefusalsAreEarly

\* What a late read finds wrong.
LEMMA LateReads ==
  ASSUME NEW c, NEW step, ReadsLate(request[c], step), Observed(c, step.ask) # "ok"
  PROVE  /\ Observed(c, step.ask) \in LateFailures
         /\ Observed(c, step.ask) = "unsupportedControl" => request[c].fields["mode"] = 3
  BY DEF ReadsLate, Observed, ReadMode, LateFailures

LEMMA ReadEarly ==
  ASSUME SlotsAccounted, RefusalsAreEarly, NEW c \in Calls, Read(c)
  PROVE  RefusalsAreEarly'
<1> DEFINE step == Head(todo[c])
           seen == Observed(c, step.ask)
<1>1. /\ Exchanging(c) /\ ~IsWrite(step) /\ UNCHANGED <<request, touched>>
      /\ \/ Next1(c) /\ UNCHANGED <<stage, failure>>
         \/ seen # "ok" /\ Fail(c, {seen}) /\ UNCHANGED todo
  BY DEF Read
<1>2. c \notin touched \/ ReadsLate(request[c], step)
  <2>1. /\ todo[c] # <<>> /\ IsSequence(todo[c])
        /\ LooksFirst(request[c], todo[c], c \in touched)
    BY <1>1 DEF Exchanging, RefusalsAreEarly, Early
  <2>2. 1 \in DOMAIN todo[c] /\ step = todo[c][1]
    BY <2>1 DEF IsSequence
  <2>3. QED
    BY <1>1, <2>1, <2>2 DEF LooksFirst
<1>3. seen # "ok" => c \notin touched \/ ({seen} \subseteq LateFailures
        /\ ("unsupportedControl" \in {seen} => request[c].fields["mode"] = 3))
  BY <1>2, LateReads
<1> HIDE DEF seen, step
<1>4. CASE Next1(c) /\ UNCHANGED <<stage, failure>>
  BY <1>1, <1>4, NextEarly
<1>5. CASE seen # "ok" /\ Fail(c, {seen}) /\ UNCHANGED todo
  BY <1>1, <1>3, <1>5, FailEarly
<1>6. QED
  BY <1>1, <1>4, <1>5

LEMMA WriteEarly ==
  ASSUME SlotsAccounted, RefusalsAreEarly, NEW c \in Calls,
         Write(c) \/ Converge(c) \/ RangeUnavailable(c)
  PROVE  RefusalsAreEarly'
<1>1. /\ Exchanging(c) /\ Next1(c) /\ UNCHANGED <<stage, request, failure>>
      /\ touched' = touched \/ (touched' = touched \cup {c} /\ IsWrite(Head(todo[c])))
  BY DEF Write, Converge, RangeUnavailable
<1>2. QED
  BY <1>1, NextEarly

LEMMA FailuresEarly ==
  ASSUME SlotsAccounted, RefusalsAreEarly, NEW c \in Calls, BeginFails(c) \/ ExchangeFails(c)
  PROVE  RefusalsAreEarly'
<1>1. givenUp[c] \in {"no", "canceled", "deadline"}
  BY DEF SlotsAccounted, Types
<1>2. CASE BeginFails(c)
  <2>1. PICK classes : Fail(c, classes)
    BY <1>2 DEF BeginFails
  <2>2. c \notin touched /\ UNCHANGED <<request, todo, touched>>
    BY <1>2 DEF BeginFails, RefusalsAreEarly, Early
  <2>3. QED
    BY <2>1, <2>2, FailEarly
<1>3. CASE ExchangeFails(c)
  <2>1. PICK classes : /\ Fail(c, classes)
                       /\ classes \subseteq {"canceled", "deadline", "unavailable", "surplus"}
    BY <1>1, <1>3 DEF ExchangeFails, Reasons
  <2>2. touched' \in {touched, touched \cup {c}} /\ UNCHANGED <<request, todo>>
    BY <1>3 DEF ExchangeFails
  <2>3. classes \subseteq LateFailures /\ "unsupportedControl" \notin classes
    BY <2>1 DEF LateFailures
  <2>4. QED
    BY <2>1, <2>2, <2>3, FailEarly
<1>4. QED
  BY <1>2, <1>3

LEMMA StepEarly == SlotsAccounted /\ RefusalsAreEarly /\ [Next]_vars => RefusalsAreEarly'
<1>1. ASSUME SlotsAccounted, RefusalsAreEarly, NEW c \in Calls, Invoke(c) \/ GiveUp(c) \/ Handle(c)
      PROVE  RefusalsAreEarly'
  BY <1>1, SendsEarly, AdmitEarly, QuietEarly, GoneEarly, ReadEarly, WriteEarly, FailuresEarly
     DEF Invoke, Handle
<1>2. ASSUME RefusalsAreEarly, UNCHANGED vars
      PROVE  RefusalsAreEarly'
  BY <1>2 DEF vars, callVars, RefusalsAreEarly, Early
<1>3. QED
  BY <1>1, <1>2 DEF Next

\* What refuses a call is known before the first write of its operation.
THEOREM EarlyRefusals == Spec => []RefusalsAreEarly
<1>1. QED
  BY InitEarly, StepEarly, SlotsTheorem, PTL DEF Spec

\* The status of what went wrong late.
LEMMA LateStatuses ==
  ASSUME NEW classes \in SUBSET LateFailures
  PROVE  /\ RpcError(classes) \notin {"rejected", "ResourceExhausted", "InvalidArgument"}
         /\ RpcError(classes) = "Unimplemented" => "unsupportedControl" \in classes
<1> DEFINE wrapped == {i \in DOMAIN Precedence : Precedence[i][1] \in classes}
           first == CHOOSE i \in wrapped : \A j \in wrapped : i <= j
<1>1. CASE classes = {}
  BY <1>1 DEF RpcError
<1>2. CASE classes # {}
  <2>1. DOMAIN Precedence = 1..11
    BY DEF Precedence
  <2>2. wrapped # {}
    <3>1. \A class \in LateFailures : \E i \in 1..11 : Precedence[i][1] = class
      <4>1. /\ Precedence[1][1] = "canceled" /\ Precedence[2][1] = "deadline"
            /\ Precedence[3][1] = "malformed" /\ Precedence[4][1] = "surplus"
            /\ Precedence[6][1] = "nonconvergence" /\ Precedence[10][1] = "unsupportedControl"
            /\ Precedence[11][1] = "unavailable"
        BY DEF Precedence
      <4>2. QED
        BY <4>1 DEF LateFailures
    <3>2. QED
      BY <1>2, <2>1, <3>1
  <2>3. first \in wrapped
    <3>1. wrapped \in SUBSET (1..11)
      BY <2>1
    <3> HIDE DEF wrapped
    <3>2. \E i \in wrapped : \A j \in wrapped : i <= j
      BY <2>2, <3>1, LeastNumber
    <3>3. QED
      BY <3>2
  <2>4. RpcError(classes) = Precedence[first][2]
    BY <1>2 DEF RpcError
  <2>5. first \in 1..11 /\ Precedence[first][1] \in classes
    BY <2>1, <2>3
  <2> HIDE DEF first
  <2>6. /\ Precedence[first][2] \notin {"rejected", "ResourceExhausted", "InvalidArgument"}
        /\ Precedence[first][2] = "Unimplemented" => Precedence[first][1] = "unsupportedControl"
    <3>1. Precedence[first][1] \in LateFailures
      BY <2>5
    <3>2. first \in {1, 2, 3, 4, 5, 6, 7, 8, 9, 10, 11}
      BY <2>5
    <3>3. QED
      BY <3>1, <3>2 DEF Precedence, LateFailures
  <2>7. QED
    BY <2>4, <2>5, <2>6
<1>3. QED
  BY <1>1, <1>2

\* A call that is refused as wrong, or for want of a slot, has written nothing, and
\* one that is refused as unimplemented only that averaging was asked for.
THEOREM RefusalsTheorem == Spec => RefusalsTouchNothing
<1> DEFINE Explained ==
      \A c \in touched :
        answer'[c] # answer[c] =>
          /\ answer'[c] \notin {"rejected", "ResourceExhausted", "InvalidArgument"}
          /\ answer'[c] = "Unimplemented" => request[c].fields["mode"] = 3
<1>1. ASSUME SlotsAccounted, RefusalsAreEarly, [Next]_vars
      PROVE  [Explained]_vars
  <2> SUFFICES ASSUME NEW c \in touched, answer'[c] # answer[c]
               PROVE  /\ answer'[c] \notin {"rejected", "ResourceExhausted", "InvalidArgument"}
                      /\ answer'[c] = "Unimplemented" => request[c].fields["mode"] = 3
    OBVIOUS
  <2>1. c \in Calls /\ stage[c] \in {"exchange", "return", "answering", "gone"}
    BY <1>1 DEF SlotsAccounted, Types, RefusalsAreEarly, Early
  <2>2. PICK d \in Calls : Invoke(d) \/ GiveUp(d) \/ Handle(d)
    BY <1>1 DEF Next, vars, clientVars
  <2>3. d = c /\ (GiveUp(c) \/ Answer(c))
    BY <1>1, <2>1, <2>2
       DEF SlotsAccounted, Types, Invoke, Handle, Sends, AskInfo, AskQuery, AskScope,
           AskSource, AskAction, AskWaveform, RejectNil, GiveUp, Admit, Begin, BeginFails,
           Write, Read, Converge, ExchangeFails, RangeUnavailable, Finish, Return, Answer,
           Refuse, Go, Answered, IsNext, clientVars
  <2>4. CASE GiveUp(c)
    <3>1. PICK why \in {"canceled", "deadline"} : answer' = [answer EXCEPT ![c] = RpcError({why})]
      BY <2>1, <2>4, RpcAssumption DEF GiveUp
    <3>2. answer'[c] = RpcError({why})
      BY <1>1, <2>1, <3>1 DEF SlotsAccounted, Types
    <3>3. {why} \in SUBSET LateFailures /\ "unsupportedControl" \notin {why}
      BY DEF LateFailures
    <3>4. QED
      BY <3>2, <3>3, LateStatuses
  <2>5. CASE Answer(c)
    <3>1. stage[c] = "answering" /\ answer'[c] = RpcError(failure[c])
      BY <1>1, <2>1, <2>5 DEF Answer, Go, Answered, SlotsAccounted, Types
    <3>2. /\ failure[c] \subseteq LateFailures
          /\ "unsupportedControl" \in failure[c] => request[c].fields["mode"] = 3
      BY <1>1, <2>1, <3>1 DEF RefusalsAreEarly, Early
    <3>3. QED
      BY <3>1, <3>2, LateStatuses
  <2>6. QED
    BY <2>3, <2>4, <2>5
<1>2. QED
  BY <1>1, SlotsTheorem, EarlyRefusals, PTL DEF Spec, RefusalsTouchNothing, Explained

-----------------------------------------------------------------------------
(* What was asked is what the instrument is set to. *)

IsSetting(s) ==
  /\ HeaderSettings \subseteq DOMAIN s
  /\ \A setting \in HeaderSettings : Legal(setting, s[setting])

Averaging(step) == step.set = <<"ACQUIRE", "MODE">> /\ step.to = "AVERAGE"

\* What the header says of such settings, however it spells them.
ChannelStateOf(s, name) ==
  [channel |-> ChannelOf[name], display |-> BooleanOf[s[<<name, "DISPLAY">>]],
   coupling |-> CouplingOf[s[<<name, "COUPLING">>]], probeAttenuation |-> s[<<name, "PROBE">>],
   scale |-> [value |-> s[<<name, "SCALE">>], form |-> "inside"],
   screenHeaderOffset |-> s[<<name, "OFFSET">>]]
AcquisitionStateOf(s) ==
  [mode |-> AcquisitionModeOf[s[<<"ACQUIRE", "MODE">>]], memoryDepth |-> s[<<"ACQUIRE", "DEPMEM">>]]
HorizontalStateOf(s) ==
  [scale |-> [value |-> s[<<"HORIZONTAL", "SCALE">>], form |-> "token"],
   screenHeaderOffset |-> s[<<"HORIZONTAL", "OFFSET">>]]
TriggerStateOf(s) ==
  [source |-> TriggerSourceOf[s[<<"TRIGGER", "SOURCE">>]],
   coupling |-> CouplingOf[s[<<"TRIGGER", "COUPLING">>]],
   slope |-> TriggerSlopeOf[s[<<"TRIGGER", "EDGE">>]], level |-> s[<<"TRIGGER", "LEVEL">>],
   sweep |-> TriggerSweepOf[s[<<"TRIGGER", "SWEEP">>]], status |-> s[<<"ACQUIRE", "STATUS">>]]
StateOf(s) ==
  [channels |-> <<ChannelStateOf(s, "CH1"), ChannelStateOf(s, "CH2")>>,
   acquisition |-> AcquisitionStateOf(s), horizontal |-> HorizontalStateOf(s),
   trigger |-> TriggerStateOf(s)]

\* Of the exchanges of a plan, n are done: what was written is set, but for averaging
\* that the firmware may have ignored until it is read back, and nothing else changed.
Done(steps, n, was, is) ==
  /\ \A i \in 1..n : IsWrite(steps[i]) =>
       \/ steps[i].set \in DOMAIN is /\ is[steps[i].set] = steps[i].to
       \/ Averaging(steps[i])
  /\ \A i \in 1..n : steps[i] = Ask("mode") => is[<<"ACQUIRE", "MODE">>] = "AVERAGE"
  /\ DOMAIN was \subseteq DOMAIN is
  /\ \A setting \in DOMAIN was :
       (\A i \in 1..n : IsWrite(steps[i]) => steps[i].set # setting) => is[setting] = was[setting]

\* What is left of the exchanges is the end of the plan of the request.
Follows(c) ==
  LET steps == Plan(request[c]).steps
      n == Len(steps) - Len(todo[c])
  IN  /\ request[c] \in Asked[c] \ {NoRequest} /\ request[c].call \in Methods
      /\ Plan(request[c]).error = "ok"
      /\ n \in Nat
      /\ \A i \in 1..Len(todo[c]) : todo[c][i] = steps[n + i]
      /\ stage[c] = "begin" => n = 0
      /\ stage[c] = "exchange" =>
           /\ request[c].call # "Auto" => Done(steps, n, before[c], settings)
           /\ \A i \in 1..n : steps[i] = Ask("header") => result[c] = StateOf(before[c])

PlansAreFollowed ==
  /\ before = [c \in Calls |-> before[c]] /\ result = [c \in Calls |-> result[c]]
  /\ IsSetting(settings)
  /\ \A c \in Calls :
       /\ IsSetting(before[c])
       /\ stage[c] \in {"begin", "exchange"} => Follows(c)

-----------------------------------------------------------------------------
(* Every present row becomes one write, and nothing else does. *)

LEMMA Ranks ==
  ASSUME NEW m \in Nat, NEW R \in SUBSET (1..m),
         NEW rank, rank = [i \in R |-> Cardinality({j \in R : j <= i})]
  PROVE  /\ IsFiniteSet(R) /\ Cardinality(R) \in Nat
         /\ rank \in Injection(R, 1..Cardinality(R))
         /\ rank \in Surjection(R, 1..Cardinality(R))
<1> DEFINE Upto(i) == {j \in R : j <= i}
           N == Cardinality(R)
<1>1. IsFiniteSet(R) /\ N \in Nat
  <2>1. IsFiniteSet(1..m)
    BY FS_Interval
  <2>2. IsFiniteSet(R)
    BY <2>1, FS_Subset
  <2>3. QED
    BY <2>2, FS_CardinalityType
<1>2. ASSUME NEW i \in R
      PROVE  IsFiniteSet(Upto(i)) /\ Cardinality(Upto(i)) \in 1..N
  <2>1. IsFiniteSet(Upto(i)) /\ Cardinality(Upto(i)) <= N
    BY <1>1, FS_Subset
  <2>2. Cardinality(Upto(i)) # 0
    <3>1. i \in Upto(i)
      BY <1>2
    <3>2. QED
      BY <2>1, <3>1, FS_EmptySet
  <2>3. Cardinality(Upto(i)) \in Nat
    BY <2>1, FS_CardinalityType
  <2>4. QED
    BY <1>1, <2>1, <2>2, <2>3
<1>3. ASSUME NEW i \in R, NEW k \in R, i < k
      PROVE  Cardinality(Upto(i)) # Cardinality(Upto(k))
  <2>1. Upto(i) \in SUBSET Upto(k) /\ k \in Upto(k) /\ k \notin Upto(i)
    <3>1. i \in Nat /\ k \in Nat /\ R \subseteq Nat
      OBVIOUS
    <3>2. ~(k <= i) /\ k <= k /\ \A j \in Nat : j <= i => j <= k
      BY <1>3, <3>1
    <3> HIDE DEF N
    <3>3. QED
      BY <3>1, <3>2
  <2>2. IsFiniteSet(Upto(k))
    BY <1>2
  <2> HIDE DEF Upto
  <2>3. QED
    BY <2>1, <2>2, FS_Subset
<1>4. rank \in Injection(R, 1..N)
  <2>1. rank \in [R -> 1..N]
    BY <1>2
  <2>2. ASSUME NEW i \in R, NEW k \in R, rank[i] = rank[k]
        PROVE  i = k
    <3>1. i < k \/ k < i \/ i = k
      OBVIOUS
    <3>2. rank[i] = Cardinality(Upto(i)) /\ rank[k] = Cardinality(Upto(k))
      OBVIOUS
    <3> HIDE DEF Upto
    <3>3. QED
      BY <1>3, <2>2, <3>1, <3>2
  <2>3. QED
    BY <2>1, <2>2 DEF Injection, IsInjective
<1>5. IsFiniteSet(1..N) /\ Cardinality(1..N) = N
  BY <1>1, FS_Interval
<1> HIDE DEF N
<1>6. rank \in Surjection(R, 1..N)
  BY <1>4, <1>5, FS_Injection DEF N
<1>7. QED
  BY <1>1, <1>4, <1>6 DEF N

\* The command of a row.
Command(p, subsystem, row) ==
  [set |-> <<subsystem, row[2]>>, to |-> Token(row[1], p[row[1]])]

LEMMA EncodedRows ==
  ASSUME NEW p, NEW subsystem, NEW rows, NEW m \in Nat, DOMAIN rows = 1..m,
         \A i, j \in 1..m : rows[i][2] = rows[j][2] => i = j
  PROVE  LET writes == Encoded(p, subsystem, rows)
             present == {i \in 1..m : Has(p, rows[i][1])}
         IN  /\ \A n \in DOMAIN writes :
                  \E i \in present : writes[n] = Command(p, subsystem, rows[i])
             /\ \A i \in present :
                  \E n \in DOMAIN writes : writes[n] = Command(p, subsystem, rows[i])
             /\ \A n, k \in DOMAIN writes : writes[n].set = writes[k].set => n = k
<1> DEFINE writes == Encoded(p, subsystem, rows)
           present == {i \in 1..m : Has(p, rows[i][1])}
           N == Cardinality(present)
           rank == [i \in present |-> Cardinality({j \in present : j <= i})]
           place(n) == CHOOSE i \in present : Cardinality({j \in present : j <= i}) = n
<1>1. /\ IsFiniteSet(present) /\ N \in Nat
      /\ rank \in Injection(present, 1..N) /\ rank \in Surjection(present, 1..N)
  BY Ranks
<1>2. DOMAIN writes = 1..N /\ \A n \in 1..N : writes[n] = Command(p, subsystem, rows[place(n)])
  BY DEF Encoded, Command
<1>3. ASSUME NEW n \in 1..N PROVE place(n) \in present /\ rank[place(n)] = n
  <2>1. \E i \in present : rank[i] = n
    <3> HIDE DEF rank, present
    <3>1. QED
      BY <1>1, <1>3 DEF Surjection
  <2>2. \E i \in present : Cardinality({j \in present : j <= i}) = n
    BY <2>1
  <2> HIDE DEF present
  <2>3. QED
    BY <2>2
<1>4. ASSUME NEW i \in present PROVE rank[i] \in 1..N /\ place(rank[i]) = i
  <2>1. rank[i] \in 1..N
    <3> HIDE DEF rank, present
    <3>1. QED
      BY <1>1, <1>4 DEF Injection
  <2>2. rank[place(rank[i])] = rank[i] /\ place(rank[i]) \in present
    BY <1>3, <2>1
  <2>3. place(rank[i]) = i
    <3> HIDE DEF rank, present, place
    <3>1. QED
      BY <1>1, <1>4, <2>2 DEF Injection, IsInjective
  <2>4. QED
    BY <2>1, <2>3
<1>5. \A i \in present : i \in 1..m
  OBVIOUS
<1> HIDE DEF rank, present, place, N, writes
<1>6. ASSUME NEW n \in DOMAIN writes, NEW k \in DOMAIN writes, writes[n].set = writes[k].set
      PROVE  n = k
  <2>1. rows[place(n)][2] = rows[place(k)][2]
    BY <1>2, <1>6 DEF Command
  <2>2. place(n) = place(k)
    BY <1>2, <1>3, <1>5, <2>1
  <2>3. QED
    BY <1>2, <1>3, <2>2
<1>7. \A n \in DOMAIN writes : \E i \in present : writes[n] = Command(p, subsystem, rows[i])
  BY <1>2, <1>3
<1>8. \A i \in present : \E n \in DOMAIN writes : writes[n] = Command(p, subsystem, rows[i])
  BY <1>2, <1>4
<1>9. QED
  BY <1>6, <1>7, <1>8 DEF writes, present

-----------------------------------------------------------------------------
(* The shape of a sequence of exchanges: it writes exactly W, each setting at  *)
(* most once, and reads nothing but A.                                         *)

OnceEach(s) ==
  \A i, j \in DOMAIN s : IsWrite(s[i]) /\ IsWrite(s[j]) /\ s[i].set = s[j].set => i = j

Shape(s, W, A) ==
  /\ IsSequence(s) /\ OnceEach(s)
  /\ \A i \in DOMAIN s : IsWrite(s[i]) => s[i] \in W
  /\ \A w \in W : \E i \in DOMAIN s : s[i] = w /\ IsWrite(s[i])
  /\ \A i \in DOMAIN s : ~IsWrite(s[i]) => s[i].ask \in A

LEMMA ShapesJoin ==
  ASSUME NEW s, NEW V, NEW A, NEW t, NEW W, NEW B, Shape(s, V, A), Shape(t, W, B),
         \A v \in V : \A w \in W : v.set # w.set
  PROVE  Shape(s \o t, V \cup W, A \cup B)
<1>1. IsSequence(s) /\ IsSequence(t)
  BY DEF Shape
<1>2. /\ Len(s) \in Nat /\ Len(t) \in Nat /\ DOMAIN s = 1..Len(s) /\ DOMAIN t = 1..Len(t)
      /\ IsSequence(s \o t) /\ DOMAIN (s \o t) = 1..(Len(s) + Len(t))
      /\ \A i \in DOMAIN (s \o t) :
           (s \o t)[i] = IF i <= Len(s) THEN s[i] ELSE t[i - Len(s)]
  BY <1>1, Concatenation
<1> DEFINE u == s \o t
           n == Len(s)
<1> HIDE DEF u, n
<1>3. /\ n \in Nat /\ DOMAIN s = 1..n
      /\ \A i \in DOMAIN u :
           \/ i \in DOMAIN s /\ u[i] = s[i]
           \/ i - n \in DOMAIN t /\ u[i] = t[i - n] /\ i \in Int
      /\ \A i \in DOMAIN s : i \in DOMAIN u /\ u[i] = s[i]
      /\ \A i \in DOMAIN t : i + n \in DOMAIN u /\ u[i + n] = t[i]
  BY <1>2 DEF u, n
<1>4. ASSUME NEW i \in DOMAIN u, NEW j \in DOMAIN u, IsWrite(u[i]), IsWrite(u[j]), u[i].set = u[j].set
      PROVE  i = j
  <2>1. CASE i \in DOMAIN s /\ u[i] = s[i] /\ j \in DOMAIN s /\ u[j] = s[j]
    BY <1>4, <2>1 DEF Shape, OnceEach
  <2>2. CASE i \in DOMAIN s /\ u[i] = s[i] /\ j - n \in DOMAIN t /\ u[j] = t[j - n]
    BY <1>4, <2>2 DEF Shape
  <2>3. CASE i - n \in DOMAIN t /\ u[i] = t[i - n] /\ j \in DOMAIN s /\ u[j] = s[j]
    BY <1>4, <2>3 DEF Shape
  <2>4. CASE /\ i - n \in DOMAIN t /\ u[i] = t[i - n] /\ i \in Int
             /\ j - n \in DOMAIN t /\ u[j] = t[j - n] /\ j \in Int
    <3>1. i - n = j - n
      BY <1>4, <2>4 DEF Shape, OnceEach
    <3>2. QED
      BY <1>3, <2>4, <3>1
  <2>5. QED
    BY <1>3, <2>1, <2>2, <2>3, <2>4
<1>5. \A i \in DOMAIN u : IsWrite(u[i]) => u[i] \in V \cup W
  BY <1>3 DEF Shape
<1>6. ASSUME NEW w \in V \cup W PROVE \E i \in DOMAIN u : u[i] = w /\ IsWrite(u[i])
  <2>1. CASE w \in V
    BY <1>3, <2>1 DEF Shape
  <2>2. CASE w \in W
    <3>1. PICK i \in DOMAIN t : t[i] = w /\ IsWrite(t[i])
      BY <2>2 DEF Shape
    <3>2. i + n \in DOMAIN u /\ u[i + n] = t[i]
      BY <1>3
    <3>3. QED
      BY <3>1, <3>2
  <2>3. QED
    BY <1>6, <2>1, <2>2
<1>7. \A i \in DOMAIN u : ~IsWrite(u[i]) => u[i].ask \in A \cup B
  BY <1>3 DEF Shape
<1>8. IsSequence(u) /\ OnceEach(u)
  BY <1>2, <1>4 DEF u, OnceEach
<1>9. QED
  BY <1>5, <1>6, <1>7, <1>8 DEF Shape, u

LEMMA ShapeOfReads ==
  ASSUME NEW s, AllReads(s), NEW A, \A i \in DOMAIN s : s[i].ask \in A
  PROVE  Shape(s, {}, A)
  BY DEF AllReads, Shape, OnceEach

LEMMA ShapeOfNothing == Shape(<<>>, {}, {})
  BY Nothing, ShapeOfReads

LEMMA ShapeOfRead ==
  ASSUME NEW what
  PROVE  Shape(<<Ask(what)>>, {}, {what})
<1>1. \A i \in DOMAIN <<Ask(what)>> : <<Ask(what)>>[i] = Ask(what)
  BY One
<1>2. Ask(what).ask = what
  BY DEF Ask
<1>3. QED
  BY <1>1, <1>2, OneRead, ShapeOfReads

LEMMA ShapeOfWrite ==
  ASSUME NEW setting, NEW value
  PROVE  Shape(<<[set |-> setting, to |-> value]>>, {[set |-> setting, to |-> value]}, {})
<1> DEFINE w == [set |-> setting, to |-> value]
<1>1. IsWrite(w)
  BY DEF IsWrite
<1> HIDE DEF w
<1>2. IsSequence(<<w>>) /\ DOMAIN <<w>> = {1} /\ <<w>>[1] = w
  BY One
<1>3. Shape(<<w>>, {w}, {})
  BY <1>1, <1>2 DEF Shape, OnceEach
<1>4. QED
  BY <1>3 DEF w

\* The commands of the present rows.
RowCommands(p, subsystem, rows) ==
  {Command(p, subsystem, rows[i]) : i \in {j \in DOMAIN rows : Has(p, rows[j][1])}}

LEMMA ShapeOfEncoded ==
  ASSUME NEW p, NEW subsystem, NEW rows, NEW m \in Nat, DOMAIN rows = 1..m,
         \A i, j \in 1..m : rows[i][2] = rows[j][2] => i = j
  PROVE  Shape(Encoded(p, subsystem, rows), RowCommands(p, subsystem, rows), {})
<1> DEFINE writes == Encoded(p, subsystem, rows)
           present == {i \in 1..m : Has(p, rows[i][1])}
<1>1. AllWrites(writes)
  BY EncodedIsWrites
<1>2. /\ \A n \in DOMAIN writes : \E i \in present : writes[n] = Command(p, subsystem, rows[i])
      /\ \A i \in present : \E n \in DOMAIN writes : writes[n] = Command(p, subsystem, rows[i])
      /\ \A n, k \in DOMAIN writes : writes[n].set = writes[k].set => n = k
  BY EncodedRows
<1> HIDE DEF writes
<1>3. RowCommands(p, subsystem, rows) = {Command(p, subsystem, rows[i]) : i \in present}
  BY DEF RowCommands
<1> HIDE DEF present
<1>4. OnceEach(writes)
  BY <1>2 DEF OnceEach
<1>5. Shape(writes, {Command(p, subsystem, rows[i]) : i \in present}, {})
  BY <1>1, <1>2, <1>4 DEF Shape, AllWrites
<1>6. QED
  BY <1>3, <1>5 DEF writes

LEMMA VerdictHolds ==
  ASSUME NEW checks, NEW m \in Nat, DOMAIN checks = 1..m, \A i \in 1..m : checks[i][2] # "ok",
         Verdict(checks) = "ok"
  PROVE  \A i \in 1..m : checks[i][1]
<1> DEFINE failing == {i \in 1..m : ~checks[i][1]}
<1> SUFFICES ASSUME failing # {} PROVE FALSE
  OBVIOUS
<1>1. failing \in SUBSET Nat
  OBVIOUS
<1>2. Verdict(checks) = checks[CHOOSE i \in failing : \A j \in failing : i <= j][2]
  BY DEF Verdict
<1>3. \A i \in failing : i \in 1..m
  OBVIOUS
<1> HIDE DEF failing
<1>4. \E i \in failing : \A j \in failing : i <= j
  BY <1>1, LeastNumber
<1>5. (CHOOSE i \in failing : \A j \in failing : i <= j) \in 1..m
  BY <1>3, <1>4
<1>6. QED
  BY <1>2, <1>5

-----------------------------------------------------------------------------
(* What the patches compile to. *)

\* Writes that a header can show, none of which asks for averaging.
Plain(W) == \A w \in W : Legal(w.set, w.to) /\ ~Averaging(w)

LEMMA LegalOfChannel ==
  ASSUME NEW name \in {"CH1", "CH2"}, NEW v
  PROVE  /\ v \in {"ON", "OFF"} => Legal(<<name, "DISPLAY">>, v)
         /\ v \in {"AC", "DC", "GND"} => Legal(<<name, "COUPLING">>, v)
         /\ v \in Probes => Legal(<<name, "PROBE">>, v)
         /\ Legal(<<name, "SCALE">>, v) /\ Legal(<<name, "OFFSET">>, v)
  BY DEF Legal

LEMMA LegalOfTrigger ==
  ASSUME NEW v
  PROVE  /\ v \in {"CH1", "CH2"} => Legal(<<"TRIGGER", "SOURCE">>, v)
         /\ v \in {"AC", "DC"} => Legal(<<"TRIGGER", "COUPLING">>, v)
         /\ v \in {"RISE", "FALL"} => Legal(<<"TRIGGER", "EDGE">>, v)
         /\ LevelFits(v) => Legal(<<"TRIGGER", "LEVEL">>, v)
         /\ v \in {"AUTO", "NORMAL", "SINGLE"} => Legal(<<"TRIGGER", "SWEEP">>, v)
  BY DEF Legal

LEMMA LegalOfOthers ==
  ASSUME NEW v
  PROVE  /\ v \in {"SAMPLE", "PEAK", "AVERAGE"} => Legal(<<"ACQUIRE", "MODE">>, v)
         /\ Legal(<<"ACQUIRE", "DEPMEM">>, v) /\ Legal(<<"ACQUIRE", "STATUS">>, v)
         /\ v \in {"ON", "OFF"} => Legal(<<"MEASUREMENT", "DISPLAY">>, v)
  BY DEF Legal

LEMMA ChannelCompilation ==
  ASSUME NEW p, In(p, "display", BOOLEAN), CompileChannel(p).error = "ok"
  PROVE  /\ p["channel"] \in Channels
         /\ Shape(CompileChannel(p).writes,
                  RowCommands(p, ChannelNames[p["channel"]], ChannelRows), {})
         /\ Plain(RowCommands(p, ChannelNames[p["channel"]], ChannelRows))
<1> DEFINE name == ChannelNames[p["channel"]]
           scale == NormalizedScale(p["scale"])
           checks == <<
             Supported(In(p, "probeAttenuation", Probes)),
             Supported(Has(p, "scale") => ValidChannelScale(scale, 0)),
             Supported(Has(p, "scale") /\ Has(p, "probeAttenuation") =>
                         ValidChannelScale(scale, p["probeAttenuation"])),
             Supported(In(p, "offsetDivisions", ChannelOffsets)),
             Offered(~Has(p, "bandwidthLimit")),
             Offered(~Has(p, "inversion"))>>
<1>1. /\ ValidChannelPatch(p) /\ Verdict(checks) = "ok"
      /\ CompileChannel(p).writes = Encoded(p, name, ChannelRows)
  BY DEF CompileChannel, Refused, Accepted
<1>2. /\ DOMAIN ChannelRows = 1..5
      /\ \A i, j \in 1..5 : ChannelRows[i][2] = ChannelRows[j][2] => i = j
  BY DEF ChannelRows
<1>3. Shape(Encoded(p, name, ChannelRows), RowCommands(p, name, ChannelRows), {})
  BY <1>2, ShapeOfEncoded
<1>4. In(p, "probeAttenuation", Probes)
  <2>1. DOMAIN checks = 1..6 /\ \A i \in 1..6 : checks[i][2] # "ok"
    BY DEF Supported, Offered
  <2>2. checks[1][1] = In(p, "probeAttenuation", Probes)
    BY DEF Supported
  <2> HIDE DEF checks
  <2>3. \A i \in 1..6 : checks[i][1]
    BY <1>1, <2>1, VerdictHolds
  <2>4. QED
    BY <2>2, <2>3
<1>5. p["channel"] \in 1..2 /\ name \in {"CH1", "CH2"} /\ In(p, "coupling", 1..3)
  BY <1>1 DEF ValidChannelPatch, Channels, Couplings, ChannelNames
<1> HIDE DEF name
<1>6. ASSUME NEW i \in 1..5, Has(p, ChannelRows[i][1])
      PROVE  LET w == Command(p, name, ChannelRows[i]) IN Legal(w.set, w.to) /\ ~Averaging(w)
  <2>1. /\ ChannelRows[1] = <<"display", "DISPLAY">> /\ ChannelRows[2] = <<"coupling", "COUPLING">>
        /\ ChannelRows[3] = <<"probeAttenuation", "PROBE">> /\ ChannelRows[4] = <<"scale", "SCALE">>
        /\ ChannelRows[5] = <<"offsetDivisions", "OFFSET">>
    BY DEF ChannelRows
  <2> DEFINE w == Command(p, name, ChannelRows[i])
  <2>2. CASE i = 1
    <3>1. w.set = <<name, "DISPLAY">> /\ w.to = OnOff[p["display"]] /\ Has(p, "display")
      BY <1>6, <2>1, <2>2 DEF Command, Token
    <3>2. w.to \in {"ON", "OFF"}
      BY <3>1 DEF In, OnOff
    <3>3. QED
      BY <1>5, <3>1, <3>2, LegalOfChannel DEF Averaging
  <2>3. CASE i = 2
    <3>1. w.set = <<name, "COUPLING">> /\ w.to = CouplingTokens[p["coupling"]] /\ Has(p, "coupling")
      BY <1>6, <2>1, <2>3 DEF Command, Token
    <3>2. w.to \in {"AC", "DC", "GND"}
      BY <1>5, <3>1 DEF In, CouplingTokens
    <3>3. QED
      BY <1>5, <3>1, <3>2, LegalOfChannel DEF Averaging
  <2>4. CASE i = 3
    <3>1. w.set = <<name, "PROBE">> /\ w.to = p["probeAttenuation"] /\ Has(p, "probeAttenuation")
      BY <1>6, <2>1, <2>4 DEF Command, Token
    <3>2. QED
      BY <1>4, <1>5, <3>1, LegalOfChannel DEF Averaging, In
  <2>5. CASE i \in {4, 5}
    <3>1. w.set = <<name, "SCALE">> \/ w.set = <<name, "OFFSET">>
      BY <2>1, <2>5 DEF Command
    <3>2. QED
      BY <1>5, <3>1, LegalOfChannel DEF Averaging
  <2>6. QED
    BY <2>2, <2>3, <2>4, <2>5
<1>7. Plain(RowCommands(p, name, ChannelRows))
  BY <1>2, <1>6 DEF Plain, RowCommands
<1>8. QED
  BY <1>1, <1>3, <1>5, <1>7 DEF name, Channels

AcquisitionRows == <<<<"mode", "MODE">>, <<"memoryDepth", "DEPMEM">>>>
HorizontalRows == <<<<"scale", "SCALE">>, <<"offsetDivisions", "OFFSET">>>>
MeasurementRows == <<<<"display", "DISPLAY">>>>
DmmRows == <<<<"relative", "REL">>, <<"range", "RANGE">>, <<"autoRange", "AUTO">>>>

LEMMA AcquisitionCompilation ==
  ASSUME NEW p, CompileAcquisition(p).error = "ok"
  PROVE  /\ Shape(CompileAcquisition(p).writes, RowCommands(p, "ACQUIRE", AcquisitionRows), {})
         /\ \A w \in RowCommands(p, "ACQUIRE", AcquisitionRows) :
              /\ Legal(w.set, w.to)
              /\ Averaging(w) => Has(p, "mode") /\ p["mode"] = 3
<1>1. /\ In(p, "mode", 1..3)
      /\ CompileAcquisition(p).writes = Encoded(p, "ACQUIRE", AcquisitionRows)
  BY DEF CompileAcquisition, Refused, Accepted, ValidAcquisitionPatch, AcquisitionModes,
         AcquisitionRows
<1>2. /\ DOMAIN AcquisitionRows = 1..2
      /\ AcquisitionRows[1] = <<"mode", "MODE">> /\ AcquisitionRows[2] = <<"memoryDepth", "DEPMEM">>
  BY DEF AcquisitionRows
<1>3. \A i, j \in 1..2 : AcquisitionRows[i][2] = AcquisitionRows[j][2] => i = j
  BY <1>2
<1>4. ASSUME NEW i \in 1..2, Has(p, AcquisitionRows[i][1])
      PROVE  LET w == Command(p, "ACQUIRE", AcquisitionRows[i])
             IN  Legal(w.set, w.to) /\ (Averaging(w) => Has(p, "mode") /\ p["mode"] = 3)
  <2>1. CASE i = 1
    <3> DEFINE w == Command(p, "ACQUIRE", AcquisitionRows[i])
    <3>1. /\ w.set = <<"ACQUIRE", "MODE">> /\ w.to = AcquisitionModeTokens[p["mode"]]
          /\ Has(p, "mode") /\ p["mode"] \in 1..3
      BY <1>1, <1>2, <1>4, <2>1 DEF In, Command, Token
    <3>2. w.to \in {"SAMPLE", "PEAK", "AVERAGE"} /\ (w.to = "AVERAGE" => p["mode"] = 3)
      BY <3>1 DEF AcquisitionModeTokens
    <3>3. QED
      BY <3>1, <3>2, LegalOfOthers DEF Averaging
  <2>2. CASE i = 2
    BY <1>2, <1>4, <2>2 DEF Command, Legal, Averaging
  <2>3. QED
    BY <2>1, <2>2
<1>5. Shape(Encoded(p, "ACQUIRE", AcquisitionRows), RowCommands(p, "ACQUIRE", AcquisitionRows), {})
  BY <1>2, <1>3, ShapeOfEncoded
<1>6. QED
  BY <1>1, <1>2, <1>4, <1>5 DEF RowCommands

LEMMA HorizontalCompilation ==
  ASSUME NEW p, CompileHorizontal(p).error = "ok"
  PROVE  /\ Shape(CompileHorizontal(p).writes, RowCommands(p, "HORIZONTAL", HorizontalRows), {})
         /\ Plain(RowCommands(p, "HORIZONTAL", HorizontalRows))
<1>1. CompileHorizontal(p).writes = Encoded(p, "HORIZONTAL", HorizontalRows)
  BY DEF CompileHorizontal, Refused, Accepted, HorizontalRows
<1>2. /\ DOMAIN HorizontalRows = 1..2
      /\ HorizontalRows[1][2] = "SCALE" /\ HorizontalRows[2][2] = "OFFSET"
  BY DEF HorizontalRows
<1>3. \A i, j \in 1..2 : HorizontalRows[i][2] = HorizontalRows[j][2] => i = j
  BY <1>2
<1>4. \A i \in 1..2 : LET w == Command(p, "HORIZONTAL", HorizontalRows[i])
                      IN  Legal(w.set, w.to) /\ ~Averaging(w)
  BY <1>2 DEF Command, Legal, Averaging
<1>5. Shape(Encoded(p, "HORIZONTAL", HorizontalRows), RowCommands(p, "HORIZONTAL", HorizontalRows), {})
  BY <1>2, <1>3, ShapeOfEncoded
<1>6. QED
  BY <1>1, <1>2, <1>4, <1>5 DEF RowCommands, Plain

LEMMA TriggerCompilation ==
  ASSUME NEW p, CompileTrigger(p).error = "ok",
         Has(p, "levelVolts") => p["levelVolts"] = NotFinite \/ LevelFits(p["levelVolts"])
  PROVE  /\ Shape(CompileTrigger(p).writes, RowCommands(p, "TRIGGER", TriggerRows), {})
         /\ Plain(RowCommands(p, "TRIGGER", TriggerRows))
<1>1. /\ ValidTriggerPatch(p)
      /\ In(p, "source", DOMAIN TriggerSourceTokens)
      /\ In(p, "coupling", DOMAIN TriggerCouplingTokens)
      /\ CompileTrigger(p).writes = Encoded(p, "TRIGGER", TriggerRows)
  BY DEF CompileTrigger, Refused, Accepted
<1>2. /\ DOMAIN TriggerRows = 1..5
      /\ TriggerRows[1] = <<"source", "SOURCE">> /\ TriggerRows[2] = <<"coupling", "COUPLING">>
      /\ TriggerRows[3] = <<"slope", "EDGE">> /\ TriggerRows[4] = <<"levelVolts", "LEVEL">>
      /\ TriggerRows[5] = <<"sweep", "SWEEP">>
  BY DEF TriggerRows
<1>3. \A i, j \in 1..5 : TriggerRows[i][2] = TriggerRows[j][2] => i = j
  BY <1>2
<1>4. /\ DOMAIN TriggerSourceTokens = 1..2 /\ DOMAIN TriggerCouplingTokens = 1..2
      /\ In(p, "slope", 1..2) /\ In(p, "sweep", 1..3)
      /\ Has(p, "levelVolts") => LevelFits(p["levelVolts"])
  BY <1>1 DEF ValidTriggerPatch, TriggerSourceTokens, TriggerCouplingTokens, TriggerSlopes,
              TriggerSweeps, Finite
<1>5. ASSUME NEW i \in 1..5, Has(p, TriggerRows[i][1])
      PROVE  LET w == Command(p, "TRIGGER", TriggerRows[i]) IN Legal(w.set, w.to) /\ ~Averaging(w)
  <2> DEFINE w == Command(p, "TRIGGER", TriggerRows[i])
  <2>1. CASE i = 1
    <3>1. w.set = <<"TRIGGER", "SOURCE">> /\ w.to = TriggerSourceTokens[p["source"]] /\ Has(p, "source")
      BY <1>2, <1>5, <2>1 DEF Command, Token
    <3>2. w.to \in {"CH1", "CH2"}
      BY <1>1, <1>4, <3>1 DEF In, TriggerSourceTokens
    <3>3. QED
      BY <3>1, <3>2, LegalOfTrigger DEF Averaging
  <2>2. CASE i = 2
    <3>1. w.set = <<"TRIGGER", "COUPLING">> /\ w.to = CouplingTokens[p["coupling"]] /\ Has(p, "coupling")
      BY <1>2, <1>5, <2>2 DEF Command, Token
    <3>2. w.to \in {"AC", "DC"}
      BY <1>1, <1>4, <3>1 DEF In, CouplingTokens
    <3>3. QED
      BY <3>1, <3>2, LegalOfTrigger DEF Averaging
  <2>3. CASE i = 3
    <3>1. w.set = <<"TRIGGER", "EDGE">> /\ w.to = TriggerSlopeTokens[p["slope"]] /\ Has(p, "slope")
      BY <1>2, <1>5, <2>3 DEF Command, Token
    <3>2. w.to \in {"RISE", "FALL"}
      BY <1>4, <3>1 DEF In, TriggerSlopeTokens
    <3>3. QED
      BY <3>1, <3>2, LegalOfTrigger DEF Averaging
  <2>4. CASE i = 4
    <3>1. w.set = <<"TRIGGER", "LEVEL">> /\ w.to = p["levelVolts"] /\ Has(p, "levelVolts")
      BY <1>2, <1>5, <2>4 DEF Command, Token
    <3>2. QED
      BY <1>4, <3>1, LegalOfTrigger DEF Averaging
  <2>5. CASE i = 5
    <3>1. w.set = <<"TRIGGER", "SWEEP">> /\ w.to = TriggerSweepTokens[p["sweep"]] /\ Has(p, "sweep")
      BY <1>2, <1>5, <2>5 DEF Command, Token
    <3>2. w.to \in {"AUTO", "NORMAL", "SINGLE"}
      BY <1>4, <3>1 DEF In, TriggerSweepTokens
    <3>3. QED
      BY <3>1, <3>2, LegalOfTrigger DEF Averaging
  <2>6. QED
    BY <2>1, <2>2, <2>3, <2>4, <2>5
<1>6. Shape(Encoded(p, "TRIGGER", TriggerRows), RowCommands(p, "TRIGGER", TriggerRows), {})
  BY <1>2, <1>3, ShapeOfEncoded
<1>7. QED
  BY <1>1, <1>2, <1>5, <1>6 DEF RowCommands, Plain

LEMMA MeasurementCompilation ==
  ASSUME NEW p, CompileMeasurement(p).error = "ok", In(p, "display", BOOLEAN)
  PROVE  /\ Shape(CompileMeasurement(p).writes, RowCommands(p, "MEASUREMENT", MeasurementRows), {})
         /\ Plain(RowCommands(p, "MEASUREMENT", MeasurementRows))
<1>1. CompileMeasurement(p).writes = Encoded(p, "MEASUREMENT", MeasurementRows)
  BY DEF CompileMeasurement, Refused, Accepted, MeasurementRows
<1>2. DOMAIN MeasurementRows = 1..1 /\ MeasurementRows[1] = <<"display", "DISPLAY">>
  BY DEF MeasurementRows
<1>3. \A i, j \in 1..1 : MeasurementRows[i][2] = MeasurementRows[j][2] => i = j
  OBVIOUS
<1>4. ASSUME NEW i \in 1..1, Has(p, MeasurementRows[i][1])
      PROVE  LET w == Command(p, "MEASUREMENT", MeasurementRows[i])
             IN  Legal(w.set, w.to) /\ ~Averaging(w)
  <2> DEFINE w == Command(p, "MEASUREMENT", MeasurementRows[i])
  <2>1. w.set = <<"MEASUREMENT", "DISPLAY">> /\ w.to = OnOff[p["display"]] /\ Has(p, "display")
    BY <1>2, <1>4 DEF Command, Token
  <2>2. w.to \in {"ON", "OFF"}
    BY <2>1 DEF In, OnOff
  <2>3. QED
    BY <2>1, <2>2, LegalOfOthers DEF Averaging
<1>5. Shape(Encoded(p, "MEASUREMENT", MeasurementRows), RowCommands(p, "MEASUREMENT", MeasurementRows), {})
  BY <1>2, <1>3, ShapeOfEncoded
<1>6. QED
  BY <1>1, <1>2, <1>4, <1>5 DEF RowCommands, Plain

LEMMA GeneratorCompilation ==
  ASSUME NEW p, CompileGenerator(p).error = "ok"
  PROVE  /\ Shape(CompileGenerator(p).writes, RowCommands(p, "GENERATOR", GeneratorRows), {})
         /\ Plain(RowCommands(p, "GENERATOR", GeneratorRows))
<1>1. CompileGenerator(p).writes = Encoded(p, "GENERATOR", GeneratorRows)
  BY DEF CompileGenerator, Refused, Accepted
<1>2. DOMAIN GeneratorRows = 1..14
  BY DEF GeneratorRows
<1>3. /\ \A i, j \in 1..14 : GeneratorRows[i][2] = GeneratorRows[j][2] => i = j
      /\ \A i \in 1..14 : GeneratorRows[i][2] \notin {"DISPLAY", "PROBE", "COUPLING"}
  BY DEF GeneratorRows
<1>4. \A i \in 1..14 : LET w == Command(p, "GENERATOR", GeneratorRows[i])
                       IN  Legal(w.set, w.to) /\ ~Averaging(w)
  BY <1>3 DEF Command, Legal, Averaging
<1>5. Shape(Encoded(p, "GENERATOR", GeneratorRows), RowCommands(p, "GENERATOR", GeneratorRows), {})
  BY <1>2, <1>3, ShapeOfEncoded
<1>6. QED
  BY <1>1, <1>2, <1>4, <1>5 DEF RowCommands, Plain

LEMMA DmmRowsCompilation ==
  ASSUME NEW p
  PROVE  /\ Shape(Encoded(p, "DMM", DmmRows), RowCommands(p, "DMM", DmmRows), {})
         /\ Plain(RowCommands(p, "DMM", DmmRows))
         /\ \A w \in RowCommands(p, "DMM", DmmRows) : w.set # <<"DMM", "CONFIGURE">>
<1>1. /\ DOMAIN DmmRows = 1..3
      /\ DmmRows[1][2] = "REL" /\ DmmRows[2][2] = "RANGE" /\ DmmRows[3][2] = "AUTO"
  BY DEF DmmRows
<1>2. \A i, j \in 1..3 : DmmRows[i][2] = DmmRows[j][2] => i = j
  BY <1>1
<1>3. \A i \in 1..3 : LET w == Command(p, "DMM", DmmRows[i])
                      IN  Legal(w.set, w.to) /\ ~Averaging(w) /\ w.set # <<"DMM", "CONFIGURE">>
  BY <1>1 DEF Command, Legal, Averaging
<1>4. QED
  BY <1>1, <1>2, <1>3, ShapeOfEncoded DEF RowCommands, Plain

-----------------------------------------------------------------------------
(* The plan of a request is faithful to it: it makes these writes, each once,  *)
(* reads averaging back after the last of them, and reads the header only if   *)
(* it writes nothing, with the range alone to follow.                          *)

Faithful(r, steps, W) ==
  /\ IsSequence(steps) /\ OnceEach(steps)
  /\ \A i \in DOMAIN steps : IsWrite(steps[i]) => steps[i] \in W
  /\ \A w \in W : Legal(w.set, w.to) /\ \E i \in DOMAIN steps : steps[i] = w /\ IsWrite(w)
  /\ \A i \in DOMAIN steps : steps[i] = Ask("mode") =>
       r.fields["mode"] = 3 /\ \A j \in DOMAIN steps : IsWrite(steps[j]) => j < i
  /\ \A w \in W : Averaging(w) => \E i \in DOMAIN steps : steps[i] = Ask("mode")
  /\ \A i \in DOMAIN steps : steps[i] = Ask("header") =>
       W = {} /\ \A j \in DOMAIN steps : j > i => steps[j] = Ask("range")

\* What the writes of each request are.
ChannelCommands(r) ==
  RowCommands(ChannelPatchFromProto(r.fields),
              ChannelNames[ChannelPatchFromProto(r.fields)["channel"]], ChannelRows)
AcquisitionCommands(r) ==
  RowCommands(AcquisitionPatchFromProto(r.fields), "ACQUIRE", AcquisitionRows)
HorizontalCommands(r) ==
  RowCommands(HorizontalPatchFromProto(r.fields), "HORIZONTAL", HorizontalRows)
TriggerCommands(r) ==
  RowCommands(TriggerPatchFromProto(r.fields), "TRIGGER", TriggerRows)
MeasurementCommands(r) ==
  RowCommands(MeasurementPatchFromProto(r.fields), "MEASUREMENT", MeasurementRows)
GeneratorCommands(r) ==
  RowCommands(GeneratorPatchFromProto(r.fields), "GENERATOR", GeneratorRows)
DmmCommands(r) ==
  RowCommands(DMMPatchFromProto(r.fields), "DMM", DmmRows)
  \cup IF Has(DMMPatchFromProto(r.fields), "function")
       THEN {DMMFunctionCommand(DMMPatchFromProto(r.fields))} ELSE {}
ActionCommands(r) == {[set |-> <<"ACQUIRE", "STATUS">>, to |-> r.status]}
AutoCommands == {Autoset}

Commanded(r) ==
  CASE r.call = "SetChannel" -> ChannelCommands(r)
    [] r.call = "SetAcquisition" -> AcquisitionCommands(r)
    [] r.call = "SetHorizontal" -> HorizontalCommands(r)
    [] r.call = "SetTrigger" -> TriggerCommands(r)
    [] r.call = "SetMeasurement" -> MeasurementCommands(r)
    [] r.call = "SetGenerator" -> GeneratorCommands(r)
    [] r.call = "SetDmm" -> DmmCommands(r)
    [] r.call = "Acquire" -> ActionCommands(r)
    [] r.call = "Auto" -> AutoCommands
    [] OTHER -> {}

FaithfulPlan(r, plan, W) == plan.error = "ok" => Faithful(r, plan.steps, W)

LEMMA PlannedIsFaithful ==
  ASSUME NEW r, NEW compiled, NEW steps, NEW W, compiled.error = "ok" => Faithful(r, steps, W)
  PROVE  FaithfulPlan(r, Planned(compiled, steps), W)
<1>1. CASE compiled.error = "ok"
  <2>1. Planned(compiled, steps).steps = steps
    BY <1>1 DEF Planned, Exchanges
  <2>2. QED
    BY <1>1, <2>1 DEF FaithfulPlan
<1>2. CASE compiled.error # "ok"
  <2>1. Planned(compiled, steps).error = compiled.error
    BY <1>2 DEF Planned, Refusal
  <2>2. QED
    BY <1>2, <2>1 DEF FaithfulPlan
<1>3. QED
  BY <1>1, <1>2

\* A plan that reads neither the mode nor the header back.
LEMMA PlainIsFaithful ==
  ASSUME NEW r, NEW steps, NEW W, NEW A, Shape(steps, W, A), Plain(W),
         "mode" \notin A, "header" \notin A
  PROVE  Faithful(r, steps, W)
<1>1. \A what \in {"mode", "header"} : ~IsWrite(Ask(what)) /\ Ask(what).ask = what
  BY DEF IsWrite, Ask
<1>2. \A i \in DOMAIN steps : steps[i] # Ask("mode") /\ steps[i] # Ask("header")
  BY <1>1 DEF Shape
<1>3. QED
  BY <1>2 DEF Shape, Plain, Faithful

LEMMA ReadsBefore ==
  ASSUME NEW s, NEW A, Shape(s, {}, A), NEW t, NEW W, NEW B, Shape(t, W, B)
  PROVE  Shape(s \o t, W, A \cup B)
<1>1. Shape(s \o t, {} \cup W, A \cup B)
  BY ShapesJoin
<1>2. {} \cup W = W
  OBVIOUS
<1>3. QED
  BY <1>1, <1>2

LEMMA ReadsAfter ==
  ASSUME NEW s, NEW A, Shape(s, {}, A), NEW t, NEW W, NEW B, Shape(t, W, B)
  PROVE  Shape(t \o s, W, B \cup A)
<1>1. Shape(t \o s, W \cup {}, B \cup A)
  BY ShapesJoin
<1>2. W \cup {} = W
  OBVIOUS
<1>3. QED
  BY <1>1, <1>2

LEMMA SetChannelIsFaithful ==
  ASSUME NEW r, In(r.fields, "display", BOOLEAN)
  PROVE  FaithfulPlan(r, SetChannel(r), ChannelCommands(r))
<1> DEFINE patch == ChannelPatchFromProto(r.fields)
           plan == CompileChannel(patch)
           probe == IF ProbeRequired(patch) THEN <<Ask("probe")>> ELSE <<>>
           A == IF ProbeRequired(patch) THEN {"probe"} ELSE {}
<1>1. SetChannel(r) = Planned(plan, probe \o plan.writes)
  BY DEF SetChannel
<1>2. In(patch, "display", BOOLEAN)
  BY DEF ChannelPatchFromProto, Converted, In, Has
<1>3. plan.error = "ok" => Shape(plan.writes, ChannelCommands(r), {}) /\ Plain(ChannelCommands(r))
  BY <1>2, ChannelCompilation DEF ChannelCommands
<1>4. Shape(probe, {}, A)
  BY ShapeOfRead, ShapeOfNothing
<1>5. "mode" \notin A \cup {} /\ "header" \notin A \cup {}
  OBVIOUS
<1> HIDE DEF plan, probe, A
<1>6. plan.error = "ok" => Faithful(r, probe \o plan.writes, ChannelCommands(r))
  BY <1>3, <1>4, <1>5, ReadsBefore, PlainIsFaithful
<1>7. QED
  BY <1>1, <1>6, PlannedIsFaithful

LEMMA SetGeneratorIsFaithful ==
  ASSUME NEW r
  PROVE  FaithfulPlan(r, SetGenerator(r), GeneratorCommands(r))
<1> DEFINE plan == CompileGenerator(GeneratorPatchFromProto(r.fields))
           look == IF r.observe THEN <<Ask("generator")>> ELSE <<>>
           A == IF r.observe THEN {"generator"} ELSE {}
<1>1. SetGenerator(r) = Planned(plan, plan.writes \o look)
  BY DEF SetGenerator
<1>2. plan.error = "ok" => Shape(plan.writes, GeneratorCommands(r), {}) /\ Plain(GeneratorCommands(r))
  BY GeneratorCompilation DEF GeneratorCommands
<1>3. Shape(look, {}, A)
  BY ShapeOfRead, ShapeOfNothing
<1>4. "mode" \notin {} \cup A /\ "header" \notin {} \cup A
  OBVIOUS
<1> HIDE DEF plan, look, A
<1>5. plan.error = "ok" => Faithful(r, plan.writes \o look, GeneratorCommands(r))
  BY <1>2, <1>3, <1>4, ReadsAfter, PlainIsFaithful
<1>6. QED
  BY <1>1, <1>5, PlannedIsFaithful

LevelIsTyped(r) ==
  Has(r.fields, "levelVolts") =>
    r.fields["levelVolts"] = NotFinite \/ LevelFits(r.fields["levelVolts"])

LEMMA PlainSettingsAreFaithful ==
  ASSUME NEW r
  PROVE  /\ FaithfulPlan(r, SetHorizontal(r), HorizontalCommands(r))
         /\ LevelIsTyped(r) => FaithfulPlan(r, SetTrigger(r), TriggerCommands(r))
         /\ In(r.fields, "display", BOOLEAN)
              => FaithfulPlan(r, SetMeasurement(r), MeasurementCommands(r))
<1>1. ASSUME NEW plan, NEW W, plan.error = "ok" => Shape(plan.writes, W, {}) /\ Plain(W)
      PROVE  FaithfulPlan(r, Planned(plan, plan.writes), W)
  <2>1. plan.error = "ok" => Faithful(r, plan.writes, W)
    BY <1>1, PlainIsFaithful
  <2>2. QED
    BY <2>1, PlannedIsFaithful
<1>2. FaithfulPlan(r, SetHorizontal(r), HorizontalCommands(r))
  BY <1>1, HorizontalCompilation DEF SetHorizontal, HorizontalCommands
<1>3. ASSUME LevelIsTyped(r)
      PROVE  FaithfulPlan(r, SetTrigger(r), TriggerCommands(r))
  <2> DEFINE p == TriggerPatchFromProto(r.fields)
  <2>1. Has(p, "levelVolts") => p["levelVolts"] = NotFinite \/ LevelFits(p["levelVolts"])
    BY <1>3 DEF LevelIsTyped, TriggerPatchFromProto, Converted, Has
  <2>2. SetTrigger(r) = Planned(CompileTrigger(p), CompileTrigger(p).writes)
        /\ TriggerCommands(r) = RowCommands(p, "TRIGGER", TriggerRows)
    BY DEF SetTrigger, TriggerCommands
  <2> HIDE DEF p
  <2>3. QED
    BY <1>1, <2>1, <2>2, TriggerCompilation
<1>4. ASSUME In(r.fields, "display", BOOLEAN)
      PROVE  FaithfulPlan(r, SetMeasurement(r), MeasurementCommands(r))
  <2> DEFINE p == MeasurementPatchFromProto(r.fields)
  <2>1. In(p, "display", BOOLEAN)
    BY <1>4 DEF MeasurementPatchFromProto, Converted, In, Has
  <2>2. SetMeasurement(r) = Planned(CompileMeasurement(p), CompileMeasurement(p).writes)
        /\ MeasurementCommands(r) = RowCommands(p, "MEASUREMENT", MeasurementRows)
    BY DEF SetMeasurement, MeasurementCommands
  <2> HIDE DEF p
  <2>3. QED
    BY <1>1, <2>1, <2>2, MeasurementCompilation
<1>5. QED
  BY <1>2, <1>3, <1>4

\* Averaging is asked for exactly when it is read back, at the end.
LEMMA SetAcquisitionIsFaithful ==
  ASSUME NEW r
  PROVE  FaithfulPlan(r, SetAcquisition(r), AcquisitionCommands(r))
<1> DEFINE patch == AcquisitionPatchFromProto(r.fields)
           plan == CompileAcquisition(patch)
           averages == Has(patch, "mode") /\ patch["mode"] = 3
           mode == IF averages THEN <<Ask("mode")>> ELSE <<>>
           W == AcquisitionCommands(r)
<1>1. SetAcquisition(r) = Planned(plan, plan.writes \o mode)
  BY DEF SetAcquisition
<1>2. SUFFICES ASSUME plan.error = "ok"
               PROVE  Faithful(r, plan.writes \o mode, W)
  <2> HIDE DEF plan, mode
  <2>1. QED
    BY <1>1, <1>2, PlannedIsFaithful
<1>3. /\ Shape(plan.writes, W, {})
      /\ \A w \in W : Legal(w.set, w.to) /\ (Averaging(w) => averages)
  BY <1>2, AcquisitionCompilation DEF AcquisitionCommands
<1>4. averages => r.fields["mode"] = 3
  BY DEF AcquisitionPatchFromProto, Converted, Has
<1>5. ~IsWrite(Ask("mode")) /\ Ask("mode").ask = "mode" /\ Ask("header").ask = "header"
  BY DEF IsWrite, Ask
<1>6. AllWrites(plan.writes)
  BY <1>2, PlainCompilations
<1> HIDE DEF plan, W
<1>7. CASE ~averages
  <2>1. plan.writes \o mode = plan.writes
    <3>1. plan.writes \in Seq({plan.writes[i] : i \in DOMAIN plan.writes}) /\ mode = <<>>
      BY <1>6, <1>7 DEF AllWrites, IsSequence
    <3> HIDE DEF mode
    <3>2. plan.writes \o <<>> = plan.writes
      BY <3>1
    <3>3. QED
      BY <3>1, <3>2
  <2>2. Plain(W)
    BY <1>3, <1>7 DEF Plain
  <2> HIDE DEF mode, averages
  <2>3. QED
    BY <1>3, <2>1, <2>2, PlainIsFaithful
<1>8. CASE averages
  <2> DEFINE steps == plan.writes \o mode
             n == Len(plan.writes)
  <2>1. mode = <<Ask("mode")>>
    BY <1>8
  <2> HIDE DEF mode, averages
  <2>2. Shape(steps, W, {} \cup {"mode"})
    BY <1>3, <2>1, ShapeOfRead, ReadsAfter
  <2>3. IsSequence(plan.writes) /\ IsSequence(mode) /\ Len(mode) = 1 /\ mode[1] = Ask("mode")
    BY <1>6, <2>1, One, OneRead DEF AllWrites, AllReads
  <2>4. /\ DOMAIN steps = 1..(n + 1) /\ n \in Nat
        /\ \A i \in 1..(n + 1) : steps[i] = IF i <= n THEN plan.writes[i] ELSE mode[i - n]
        /\ DOMAIN plan.writes = 1..n
    BY <2>3, Concatenation
  <2> HIDE DEF steps
  <2>5. \A i \in 1..n : IsWrite(steps[i])
    BY <1>6, <2>4 DEF AllWrites
  <2>6. steps[n + 1] = Ask("mode")
    BY <2>3, <2>4
  <2>7. \A i \in DOMAIN steps : ~IsWrite(steps[i]) => i = n + 1
    BY <2>4, <2>5
  <2>8. \A i \in DOMAIN steps : steps[i] = Ask("mode") => i = n + 1
    BY <1>5, <2>7
  <2>9. \A j \in DOMAIN steps : IsWrite(steps[j]) => j < n + 1
    BY <1>5, <2>4, <2>6
  <2>10. \A i \in DOMAIN steps : steps[i] # Ask("header")
    BY <1>5, <2>5, <2>4, <2>6, <2>7 DEF IsWrite, Ask
  <2>11. n + 1 \in DOMAIN steps
    BY <2>4
  <2>12. Faithful(r, steps, W)
    BY <1>3, <1>4, <1>8, <2>2, <2>6, <2>8, <2>9, <2>10, <2>11 DEF Shape, Faithful
  <2>13. QED
    BY <2>12 DEF steps
<1>9. QED
  BY <1>7, <1>8

\* The function of the multimeter is written first, and asked for until it is there.
LEMMA SetDmmIsFaithful ==
  ASSUME NEW r
  PROVE  FaithfulPlan(r, SetDmm(r), DmmCommands(r))
<1> DEFINE patch == DMMPatchFromProto(r.fields)
           plan == CompileDMM(patch)
           more == Encoded(patch, "DMM", DmmRows)
           others == RowCommands(patch, "DMM", DmmRows)
           first == DMMFunctionCommand(patch)
           tail == IF Len(plan.writes) = 1 THEN <<>> ELSE <<Ask("function")>>
           steps == IF ~Has(patch, "function") THEN plan.writes
                    ELSE <<Head(plan.writes), Ask("function")>> \o Tail(plan.writes) \o tail
<1>1. SetDmm(r) = Planned(plan, steps)
  BY DEF SetDmm
<1>2. SUFFICES ASSUME plan.error = "ok"
               PROVE  Faithful(r, steps, DmmCommands(r))
  <2> HIDE DEF plan, steps
  <2>1. QED
    BY <1>1, <1>2, PlannedIsFaithful
<1>3. plan.writes = (IF Has(patch, "function") THEN <<first>> ELSE <<>>) \o more
  <2>1. CompileDMM(patch) = Accepted((IF Has(patch, "function") THEN <<first>> ELSE <<>>) \o more)
    BY <1>2 DEF CompileDMM, Refused, DmmRows
  <2> HIDE DEF first, more, patch
  <2>2. QED
    BY <2>1 DEF Accepted
<1>4. /\ Shape(more, others, {}) /\ Plain(others)
      /\ \A w \in others : w.set # <<"DMM", "CONFIGURE">>
  BY DmmRowsCompilation
<1>5. more \in Seq({more[i] : i \in DOMAIN more})
  BY <1>4 DEF Shape, IsSequence
<1>6. first.set = <<"DMM", "CONFIGURE">> /\ Shape(<<first>>, {first}, {})
  BY ShapeOfWrite DEF DMMFunctionCommand
<1>7. DmmCommands(r) = others \cup IF Has(patch, "function") THEN {first} ELSE {}
  BY DEF DmmCommands
<1> HIDE DEF patch, more, others, first
<1>8. CASE ~Has(patch, "function")
  <2>1. plan.writes = more /\ DmmCommands(r) = others
    <3>1. <<>> \o more = more
      BY <1>5
    <3>2. QED
      BY <1>3, <1>7, <1>8, <3>1
  <2>2. QED
    BY <1>4, <1>8, <2>1, PlainIsFaithful
<1>9. CASE Has(patch, "function")
  <2>1. plan.writes = <<first>> \o more
    BY <1>3, <1>9
  <2>2. Head(plan.writes) = first /\ Tail(plan.writes) = more
    <3>1. Head(<<first>> \o more) = first /\ Tail(<<first>> \o more) = more
      BY <1>5
    <3> HIDE DEF plan
    <3>2. QED
      BY <2>1, <3>1
  <2>3. steps = <<first, Ask("function")>> \o more \o tail
    <3> HIDE DEF plan
    <3>1. QED
      BY <1>9, <2>2
  <2>4. <<first, Ask("function")>> = <<first>> \o <<Ask("function")>>
    OBVIOUS
  <2>5. Shape(<<first>> \o <<Ask("function")>>, {first}, {} \cup {"function"})
    BY <1>6, ShapeOfRead, ReadsAfter
  <2>6. Shape((<<first>> \o <<Ask("function")>>) \o more, {first} \cup others, ({} \cup {"function"}) \cup {})
    BY <1>4, <1>6, <2>5, ShapesJoin
  <2>7. Shape(tail, {}, {"function"})
    BY ShapeOfRead, Nothing, ShapeOfReads
  <2> HIDE DEF tail, plan
  <2>8. Shape(steps, {first} \cup others, (({} \cup {"function"}) \cup {}) \cup {"function"})
    <3> HIDE DEF steps
    <3>1. QED
      BY <2>3, <2>4, <2>6, <2>7, ReadsAfter
  <2>9. DmmCommands(r) = {first} \cup others
    BY <1>7, <1>9
  <2>10. Plain({first} \cup others)
    BY <1>4, <1>6 DEF Plain, Legal, Averaging
  <2> HIDE DEF steps
  <2>11. QED
    BY <2>8, <2>9, <2>10, PlainIsFaithful
<1>10. QED
  BY <1>8, <1>9

\* A plan that writes nothing and reads the header, if at all, before the range alone.
LEMMA ReadsAreFaithful ==
  ASSUME NEW r, NEW steps, Shape(steps, {}, {"identity", "measurement", "header", "range"}),
         \A i \in DOMAIN steps : steps[i] = Ask("header") =>
           \A j \in DOMAIN steps : j > i => steps[j] = Ask("range")
  PROVE  Faithful(r, steps, {})
<1>1. ~IsWrite(Ask("mode")) /\ Ask("mode").ask = "mode"
  BY DEF IsWrite, Ask
<1>2. \A i \in DOMAIN steps : steps[i] # Ask("mode")
  BY <1>1 DEF Shape
<1>3. QED
  BY <1>2 DEF Shape, Faithful

LEMMA GetStateIsFaithful ==
  ASSUME NEW r, r.measurements \in Seq(Seq(Int))
  PROVE  /\ FaithfulPlan(r, GetState(r), {})
         /\ GetState(r).error = "ok" /\ r.includeControls =>
              \E i \in DOMAIN GetState(r).steps : GetState(r).steps[i] = Ask("header")
<1> DEFINE Query(i) == [ask |-> "measurement", query |-> MeasurementQuery(r.measurements[i])]
           queries == [i \in DOMAIN r.measurements |-> Query(i)]
           controls == IF r.includeControls THEN <<Ask("header"), Ask("range")>> ELSE <<>>
           base == <<Ask("identity")>> \o queries
           steps == base \o controls
<1>1. AllReads(queries) /\ \A i \in DOMAIN queries : queries[i].ask = "measurement"
  <2>1. Len(r.measurements) \in Nat /\ DOMAIN r.measurements = 1..Len(r.measurements)
    OBVIOUS
  <2>2. DOMAIN queries = 1..Len(r.measurements)
    BY <2>1
  <2>3. \A i \in DOMAIN queries : ~IsWrite(queries[i]) /\ queries[i].ask = "measurement"
    BY DEF IsWrite
  <2> HIDE DEF queries
  <2>4. queries = [i \in 1..Len(r.measurements) |-> queries[i]]
    BY <2>2 DEF queries
  <2>5. queries \in Seq({queries[i] : i \in DOMAIN queries})
    BY <2>1, <2>2, <2>4
  <2>6. QED
    BY <2>3, <2>5 DEF AllReads, IsSequence
<1>2. \/ GetState(r) = Refusal("invalidRequest")
      \/ GetState(r) = Exchanges(steps)
  BY DEF GetState
<1>3. Refusal("invalidRequest").error # "ok" /\ Exchanges(steps).steps = steps
  <2> HIDE DEF steps
  <2>1. QED
    BY DEF Refusal, Exchanges
<1> HIDE DEF queries
<1>4. Shape(queries, {}, {"measurement"})
  BY <1>1, ShapeOfReads
<1>5. Shape(base, {}, {"identity"} \cup {"measurement"})
  BY <1>4, ShapeOfRead, ReadsBefore
<1> HIDE DEF base
<1>6. \A what \in {"header", "range"} : ~IsWrite(Ask(what)) /\ Ask(what).ask = what
  BY DEF IsWrite, Ask
<1>7. ASSUME NEW i \in DOMAIN base
      PROVE  base[i] # Ask("header")
  BY <1>5, <1>6 DEF Shape
<1>8. CASE ~r.includeControls
  <2>1. steps = base
    <3>1. base \in Seq({base[i] : i \in DOMAIN base}) /\ controls = <<>>
      BY <1>5, <1>8 DEF Shape, IsSequence
    <3> HIDE DEF controls
    <3>2. base \o <<>> = base
      BY <3>1
    <3>3. QED
      BY <3>1, <3>2
  <2>2. Shape(base, {}, {"identity", "measurement", "header", "range"})
    BY <1>5 DEF Shape
  <2> HIDE DEF steps
  <2>3. QED
    BY <1>2, <1>3, <1>7, <1>8, <2>1, <2>2, ReadsAreFaithful DEF FaithfulPlan
<1>9. CASE r.includeControls
  <2> DEFINE n == Len(base)
  <2>1. controls = <<Ask("header"), Ask("range")>>
    BY <1>9
  <2>2. /\ <<Ask("header")>> \o <<Ask("range")>> = controls
        /\ DOMAIN controls = 1..2 /\ controls[1] = Ask("header") /\ controls[2] = Ask("range")
    BY <2>1, Pair
  <2>3. Shape(<<Ask("header")>> \o <<Ask("range")>>, {}, {"header"} \cup {"range"})
    BY ShapeOfRead, ReadsBefore
  <2>4. Shape(controls, {}, {"header"} \cup {"range"})
    BY <2>2, <2>3
  <2> HIDE DEF controls
  <2>5. /\ DOMAIN steps = 1..(n + 2) /\ n \in Nat /\ DOMAIN base = 1..n
        /\ \A i \in 1..(n + 2) : steps[i] = IF i <= n THEN base[i] ELSE controls[i - n]
    <3>1. IsSequence(base) /\ IsSequence(controls)
      BY <1>5, <2>4 DEF Shape
    <3>2. Len(controls) = 2
      BY <2>2, <3>1, Concatenation
    <3>3. QED
      BY <3>1, <3>2, Concatenation
  <2>6. Shape(steps, {}, ({"identity"} \cup {"measurement"}) \cup ({"header"} \cup {"range"}))
    BY <1>5, <2>4, ReadsBefore
  <2> HIDE DEF steps, n
  <2>7. Shape(steps, {}, {"identity", "measurement", "header", "range"})
    BY <2>6 DEF Shape
  <2>8. n + 1 \in DOMAIN steps /\ steps[n + 1] = Ask("header") /\ steps[n + 2] = Ask("range")
    BY <2>2, <2>5
  <2>9. \A i \in DOMAIN steps : i <= n \/ i = n + 1 \/ i = n + 2
    BY <2>5
  <2>10. \A i \in DOMAIN steps : steps[i] = Ask("header") => i > n
    BY <1>7, <2>5
  <2>11. \A i, j \in DOMAIN steps : steps[i] = Ask("header") /\ j > i => j = n + 2
    BY <2>5, <2>9, <2>10
  <2>12. Faithful(r, steps, {})
    BY <2>7, <2>8, <2>11, ReadsAreFaithful
  <2>13. QED
    BY <1>2, <1>3, <2>8, <2>12 DEF FaithfulPlan
<1>10. QED
  BY <1>8, <1>9

LEMMA OneStepIsFaithful ==
  ASSUME NEW r
  PROVE  /\ FaithfulPlan(r, GetWaveform(r), {}) /\ FaithfulPlan(r, Execute(r), {})
         /\ FaithfulPlan(r, Acquire(r), ActionCommands(r)) /\ FaithfulPlan(r, AutoSetup, AutoCommands)
         /\ FaithfulPlan(r, GetDeviceInfo, {}) /\ FaithfulPlan(r, GetDmmMeasurement, {})
<1>1. ASSUME NEW s, NEW W, Faithful(r, s, W)
      PROVE  FaithfulPlan(r, Exchanges(s), W)
  BY <1>1 DEF FaithfulPlan, Exchanges
<1>2. ASSUME NEW class, class # "ok"
      PROVE  FaithfulPlan(r, Refusal(class), {})
  BY <1>2 DEF FaithfulPlan, Refusal
<1>3. ASSUME NEW what, what # "mode", what # "header"
      PROVE  Faithful(r, <<Ask(what)>>, {})
  BY <1>3, ShapeOfRead, PlainIsFaithful DEF Plain
<1>4. Faithful(r, <<Ask("profile"), Ask("data")>>, {})
  <2>1. Shape(<<Ask("profile")>> \o <<Ask("data")>>, {}, {"profile"} \cup {"data"})
    BY ShapeOfRead, ReadsBefore
  <2>2. <<Ask("profile")>> \o <<Ask("data")>> = <<Ask("profile"), Ask("data")>>
    BY Pair
  <2>3. "mode" \notin {"profile"} \cup {"data"} /\ "header" \notin {"profile"} \cup {"data"}
    OBVIOUS
  <2>4. QED
    BY <2>1, <2>2, <2>3, PlainIsFaithful DEF Plain
<1>5. Faithful(r, <<[set |-> <<"ACQUIRE", "STATUS">>, to |-> r.status]>>, ActionCommands(r))
  <2>1. Plain(ActionCommands(r))
    BY DEF ActionCommands, Plain, Legal, Averaging
  <2>2. Shape(<<[set |-> <<"ACQUIRE", "STATUS">>, to |-> r.status]>>, ActionCommands(r), {})
    BY ShapeOfWrite DEF ActionCommands
  <2>3. QED
    BY <2>1, <2>2, PlainIsFaithful
<1>6. FaithfulPlan(r, GetWaveform(r), {})
  BY <1>1, <1>2, <1>4 DEF GetWaveform
<1>7. FaithfulPlan(r, Execute(r), {})
  BY <1>1, <1>2, <1>3 DEF Execute
<1>8. FaithfulPlan(r, Acquire(r), ActionCommands(r))
  BY <1>1, <1>5 DEF Acquire
<1>9. FaithfulPlan(r, GetDeviceInfo, {}) /\ FaithfulPlan(r, GetDmmMeasurement, {})
  BY <1>1, <1>3 DEF GetDeviceInfo, GetDmmMeasurement
<1>10. FaithfulPlan(r, AutoSetup, AutoCommands)
  <2>1. Plain(AutoCommands)
    BY DEF AutoCommands, Autoset, Plain, Legal, Averaging
  <2>2. Shape(<<Autoset>>, AutoCommands, {})
    BY ShapeOfWrite DEF AutoCommands, Autoset
  <2>3. QED
    BY <1>1, <2>1, <2>2, PlainIsFaithful DEF AutoSetup
<1>11. QED
  BY <1>6, <1>7, <1>8, <1>9, <1>10

\* The messages that a service may be sent.
Typed(r) ==
  /\ r.call \in Methods
  /\ r.call = "GetState" => r.measurements \in Seq(Seq(Int))
  /\ r.call \in DOMAIN MessageFields => DOMAIN r.fields \subseteq MessageFields[r.call]
  /\ r.call = "SetChannel" => Has(r.fields, "channel")
  /\ r.call \in {"SetChannel", "SetMeasurement"} => In(r.fields, "display", BOOLEAN)
  /\ r.call = "SetTrigger" => LevelIsTyped(r)

LEMMA AskedIsTyped ==
  ASSUME NEW c \in Calls, NEW r \in Asked[c] \ {NoRequest}, r.call \in Methods
  PROVE  Typed(r)
  BY MessagesAreTyped DEF Typed, LevelIsTyped

LEMMA PlansAreFaithful ==
  ASSUME NEW r, Typed(r)
  PROVE  FaithfulPlan(r, Plan(r), Commanded(r))
<1>1. CASE r.call = "SetChannel"
  BY <1>1, SetChannelIsFaithful DEF Plan, Commanded, Typed
<1>2. CASE r.call = "SetAcquisition"
  BY <1>2, SetAcquisitionIsFaithful DEF Plan, Commanded
<1>3. CASE r.call = "SetHorizontal"
  BY <1>3, PlainSettingsAreFaithful DEF Plan, Commanded
<1>4. CASE r.call = "SetTrigger"
  BY <1>4, PlainSettingsAreFaithful DEF Plan, Commanded, Typed
<1>5. CASE r.call = "SetMeasurement"
  BY <1>5, PlainSettingsAreFaithful DEF Plan, Commanded, Typed
<1>6. CASE r.call = "SetDmm"
  BY <1>6, SetDmmIsFaithful DEF Plan, Commanded
<1>7. CASE r.call = "SetGenerator"
  BY <1>7, SetGeneratorIsFaithful DEF Plan, Commanded
<1>8. CASE r.call = "GetState"
  BY <1>8, GetStateIsFaithful DEF Plan, Commanded, Typed
<1>9. CASE r.call = "Acquire"
  BY <1>9, OneStepIsFaithful DEF Plan, Commanded
<1>10. CASE r.call = "GetWaveform"
  BY <1>10, OneStepIsFaithful DEF Plan, Commanded
<1>11. CASE r.call = "Execute"
  BY <1>11, OneStepIsFaithful DEF Plan, Commanded
<1>12. CASE r.call = "GetDeviceInfo"
  BY <1>12, OneStepIsFaithful DEF Plan, Commanded
<1>13. CASE r.call = "GetDmmMeasurement"
  BY <1>13, OneStepIsFaithful DEF Plan, Commanded
<1>14. CASE r.call = "Auto"
  BY <1>14, OneStepIsFaithful DEF Plan, Commanded
<1>15. QED
  BY <1>1, <1>2, <1>3, <1>4, <1>5, <1>6, <1>7, <1>8, <1>9, <1>10, <1>11, <1>12, <1>13, <1>14
     DEF Typed, Methods

\* No other request makes the instrument find its settings.
LEMMA OnlyAutoFinds ==
  ASSUME NEW r, Typed(r), Plan(r).error = "ok", r.call # "Auto"
  PROVE  Autoset \notin Commanded(r)
<1>1. ASSUME NEW p, NEW subsystem, subsystem # "AUTOSET", NEW rows
      PROVE  Autoset \notin RowCommands(p, subsystem, rows)
  BY <1>1 DEF RowCommands, Command, Autoset
<1>2. ASSUME NEW p PROVE Autoset # DMMFunctionCommand(p)
  BY DEF DMMFunctionCommand, Autoset
<1>3. CASE r.call = "SetChannel"
  <2> DEFINE p == ChannelPatchFromProto(r.fields)
  <2>1. CompileChannel(p).error = "ok"
    BY <1>3 DEF Plan, SetChannel, Planned, Refusal
  <2>2. p["channel"] \in 1..2
    BY <2>1 DEF CompileChannel, Refused, ValidChannelPatch, Channels
  <2>3. ChannelNames[p["channel"]] # "AUTOSET"
    BY <2>2 DEF ChannelNames
  <2>4. QED
    BY <1>1, <1>3, <2>3 DEF Commanded, ChannelCommands
<1>4. CASE r.call \in {"SetAcquisition", "SetHorizontal", "SetTrigger", "SetMeasurement",
                      "SetGenerator", "SetDmm"}
  BY <1>1, <1>2, <1>4 DEF Commanded, AcquisitionCommands, HorizontalCommands, TriggerCommands,
     MeasurementCommands, GeneratorCommands, DmmCommands
<1>5. CASE r.call = "Acquire"
  BY <1>5 DEF Commanded, ActionCommands, Autoset
<1>6. CASE r.call \in {"GetState", "GetWaveform", "Execute", "GetDeviceInfo", "GetDmmMeasurement"}
  BY <1>6 DEF Commanded
<1>7. QED
  BY <1>3, <1>4, <1>5, <1>6 DEF Typed, Methods

-----------------------------------------------------------------------------
(* The settings follow the plans. *)

LEMMA Asks ==
  ASSUME NEW what
  PROVE  ~IsWrite(Ask(what)) /\ Ask(what).ask = what
  BY DEF IsWrite, Ask

\* A plan that begins has done nothing.
LEMMA NothingDone ==
  ASSUME NEW steps, NEW was
  PROVE  Done(steps, 0, was, was)
  BY DEF Done

\* A write does what it says, unless the firmware ignores it, and undoes nothing.
LEMMA WriteIsDone ==
  ASSUME NEW r, NEW steps, NEW W, Faithful(r, steps, W), NEW n \in Nat, n + 1 \in DOMAIN steps,
         IsWrite(steps[n + 1]), NEW was, NEW is, Done(steps, n, was, is), NEW is2,
         \/ is2 = is /\ Averaging(steps[n + 1])
         \/ is2 = [setting \in DOMAIN is \cup {steps[n + 1].set} |->
                     IF setting = steps[n + 1].set THEN steps[n + 1].to ELSE is[setting]]
  PROVE  Done(steps, n + 1, was, is2)
<1> DEFINE w == steps[n + 1]
<1>1. /\ \A i \in 1..(n + 1) : i \in 1..n \/ i = n + 1
      /\ \A i \in 1..n : i \in DOMAIN steps /\ i # n + 1 /\ ~(n + 1 < i)
  <2>1. DOMAIN steps = 1..Len(steps) /\ Len(steps) \in Nat
    BY DEF Faithful, IsSequence
  <2>2. QED
    BY <2>1
<1>2. /\ DOMAIN is \subseteq DOMAIN is2
      /\ \A setting \in DOMAIN is : setting # w.set => is2[setting] = is[setting]
      /\ (w.set \in DOMAIN is2 /\ is2[w.set] = w.to) \/ (is2 = is /\ Averaging(w))
  OBVIOUS
<1>3. \A i \in 1..n : IsWrite(steps[i]) => steps[i].set # w.set
  BY <1>1 DEF Faithful, OnceEach
<1>4. \A i \in 1..(n + 1) : steps[i] # Ask("mode")
  <2>1. \A i \in 1..n : steps[i] # Ask("mode")
    BY <1>1 DEF Faithful
  <2>2. QED
    BY <1>1, <2>1, Asks
<1> HIDE DEF w
<1>5. ASSUME NEW i \in 1..n, IsWrite(steps[i])
      PROVE  \/ steps[i].set \in DOMAIN is2 /\ is2[steps[i].set] = steps[i].to
             \/ Averaging(steps[i])
  <2>1. \/ steps[i].set \in DOMAIN is /\ is[steps[i].set] = steps[i].to
        \/ Averaging(steps[i])
    BY <1>5 DEF Done
  <2>2. steps[i].set # w.set
    BY <1>3, <1>5
  <2>3. QED
    BY <1>2, <2>1, <2>2
<1>6. ASSUME NEW setting \in DOMAIN was,
             \A i \in 1..(n + 1) : IsWrite(steps[i]) => steps[i].set # setting
      PROVE  is2[setting] = was[setting]
  <2>1. n + 1 \in 1..(n + 1) /\ \A i \in 1..n : i \in 1..(n + 1)
    OBVIOUS
  <2>2. setting # w.set
    BY <1>6, <2>1 DEF w
  <2>3. is[setting] = was[setting] /\ setting \in DOMAIN is
    BY <1>6, <2>1 DEF Done
  <2>4. QED
    BY <1>2, <2>2, <2>3
<1>7. QED
  BY <1>1, <1>2, <1>4, <1>5, <1>6 DEF Done, w

\* A read changes nothing, and reading averaging back shows that it is set.
LEMMA ReadIsDone ==
  ASSUME NEW steps, NEW n \in Nat, ~IsWrite(steps[n + 1]), NEW was, NEW is,
         Done(steps, n, was, is), steps[n + 1] = Ask("mode") => is[<<"ACQUIRE", "MODE">>] = "AVERAGE"
  PROVE  Done(steps, n + 1, was, is)
<1>1. \A i \in 1..(n + 1) : i \in 1..n \/ i = n + 1
  OBVIOUS
<1>2. \A i \in 1..n : i \in 1..(n + 1)
  OBVIOUS
<1>3. QED
  BY <1>1, <1>2 DEF Done

\* What is legal stays legal, and an autoset finds nothing else.
LEMMA OutcomeIsSetting ==
  ASSUME IsSetting(settings), NEW step, Legal(step.set, step.to), NEW is \in Outcomes(step)
  PROVE  IsSetting(is)
<1>1. IsSetting(Written(step))
  BY DEF IsSetting, Written
<1>2. \A found \in AutosetFinds : IsSetting(Found(found))
  BY InstrumentIsSet DEF IsSetting, Found
<1>3. QED
  BY <1>1, <1>2 DEF Outcomes

\* Where a call is in its plan.
Position(c) == Len(Plan(request[c]).steps) - Len(todo[c])

LEMMA HeadOfPlan ==
  ASSUME RefusalsAreEarly, PlansAreFollowed, NEW c \in Calls, Exchanging(c)
  PROVE  LET steps == Plan(request[c]).steps
             n == Position(c)
         IN  /\ Follows(c) /\ Faithful(request[c], steps, Commanded(request[c]))
             /\ n \in Nat /\ n + 1 \in DOMAIN steps /\ Head(todo[c]) = steps[n + 1]
             /\ Len(steps) - Len(Tail(todo[c])) = n + 1
             /\ \A i \in 1..Len(Tail(todo[c])) : Tail(todo[c])[i] = steps[n + 1 + i]
<1> DEFINE steps == Plan(request[c]).steps
           n == Position(c)
           s == todo[c]
           E == {s[i] : i \in DOMAIN s}
<1>1. stage[c] = "exchange" /\ s # <<>> /\ Follows(c) /\ IsSequence(s)
  BY DEF Exchanging, PlansAreFollowed, RefusalsAreEarly, Early
<1>2. /\ request[c] \in Asked[c] \ {NoRequest} /\ request[c].call \in Methods
      /\ Plan(request[c]).error = "ok" /\ n \in Nat
      /\ \A i \in 1..Len(s) : s[i] = steps[n + i]
  BY <1>1 DEF Follows, Position
<1>3. Faithful(request[c], steps, Commanded(request[c]))
  BY <1>2, AskedIsTyped, PlansAreFaithful DEF FaithfulPlan
<1>4. DOMAIN steps = 1..Len(steps) /\ Len(steps) \in Nat
  BY <1>3 DEF Faithful, IsSequence
<1>5. s \in Seq(E)
  BY <1>1 DEF IsSequence
<1>6. n = Len(steps) - Len(s)
  BY DEF Position
<1> HIDE DEF steps, n, s, E
<1>7. /\ Len(s) \in Nat /\ Len(s) >= 1 /\ Head(s) = s[1] /\ Len(Tail(s)) = Len(s) - 1
      /\ \A i \in 1..(Len(s) - 1) : Tail(s)[i] = s[i + 1]
  BY <1>1, <1>5
<1>8. /\ n + 1 \in DOMAIN steps /\ Head(s) = steps[n + 1] /\ Len(steps) - Len(Tail(s)) = n + 1
      /\ \A i \in 1..Len(Tail(s)) : Tail(s)[i] = steps[n + 1 + i]
  <2>1. 1 \in 1..Len(s)
    BY <1>7
  <2>2. ASSUME NEW i \in 1..Len(Tail(s)) PROVE Tail(s)[i] = steps[n + 1 + i]
    <3>1. i \in 1..(Len(s) - 1) /\ i + 1 \in 1..Len(s) /\ n + (i + 1) = n + 1 + i
      BY <1>2, <1>7
    <3>2. Tail(s)[i] = s[i + 1] /\ s[i + 1] = steps[n + (i + 1)]
      BY <1>2, <1>7, <3>1
    <3>3. QED
      BY <3>1, <3>2
  <2>3. n + 1 \in DOMAIN steps /\ Head(s) = steps[n + 1]
    BY <1>2, <1>4, <1>6, <1>7, <2>1
  <2>4. Len(steps) - Len(Tail(s)) = n + 1
    <3>1. \A a, b \in Nat : a - (b - 1) = a - b + 1
      OBVIOUS
    <3>2. Len(steps) - (Len(s) - 1) = Len(steps) - Len(s) + 1
      BY <1>4, <1>7, <3>1
    <3>3. QED
      BY <1>6, <1>7, <3>2
  <2>5. QED
    BY <2>2, <2>3, <2>4
<1>9. QED
  BY <1>1, <1>2, <1>3, <1>8 DEF steps, n, s

\* A step of one call leaves the others in their plans.
LEMMA OthersFollow ==
  ASSUME PlansAreFollowed, NEW c \in Calls,
         before' = [d \in Calls |-> before'[d]], result' = [d \in Calls |-> result'[d]],
         IsSetting(settings'), IsSetting(before'[c]),
         \A d \in Calls \ {c} :
           /\ stage'[d] = stage[d] /\ request'[d] = request[d] /\ todo'[d] = todo[d]
           /\ before'[d] = before[d] /\ result'[d] = result[d]
           /\ stage[d] = "exchange" => settings' = settings,
         stage'[c] \in {"begin", "exchange"} => Follows(c)'
  PROVE  PlansAreFollowed'
<1>1. ASSUME NEW d \in Calls \ {c}, stage'[d] \in {"begin", "exchange"}
      PROVE  Follows(d)'
  <2>1. /\ stage'[d] = stage[d] /\ request'[d] = request[d] /\ todo'[d] = todo[d]
        /\ before'[d] = before[d] /\ result'[d] = result[d] /\ Follows(d)
    BY <1>1 DEF PlansAreFollowed
  <2>2. CASE stage[d] = "exchange"
    <3>1. settings' = settings
      BY <2>2
    <3>2. QED
      BY <2>1, <2>2, <3>1 DEF Follows
  <2>3. CASE stage[d] # "exchange"
    BY <2>1, <2>3 DEF Follows
  <2>4. QED
    BY <2>2, <2>3
<1>2. QED
  BY <1>1 DEF PlansAreFollowed

LEMMA InitFollows == Init => PlansAreFollowed
  BY InstrumentIsSet DEF Init, PlansAreFollowed, IsSetting

\* The steps that leave what the plans are about alone, and begin nothing.
LEMMA QuietFollows ==
  ASSUME SlotsAccounted, RefusalsAreEarly, PlansAreFollowed, NEW c \in Calls,
         \/ \E methods : Sends(c, methods)
         \/ RejectNil(c) \/ Refuse(c) \/ BeginFails(c) \/ Finish(c) \/ Return(c) \/ Answer(c)
  PROVE  PlansAreFollowed'
<1>1. stage'[c] \notin {"begin", "exchange"}
  BY DEF Sends, RejectNil, Refuse, BeginFails, Finish, Return, Answer, Fail, Go, SlotsAccounted,
         Types
<1>2. \A d \in Calls \ {c} : stage'[d] = stage[d]
  BY DEF Sends, RejectNil, Refuse, BeginFails, Finish, Return, Answer, Fail, Go, SlotsAccounted,
         Types
<1>3. settings' = settings
  BY DEF Sends, RejectNil, Refuse, BeginFails, Finish, Return, Answer, deviceVars
<1>4. \A d \in Calls \ {c} : request'[d] = request[d] /\ todo'[d] = todo[d]
  BY DEF Sends, RejectNil, Refuse, BeginFails, Finish, Return, Answer, RefusalsAreEarly
<1>5. IsSetting(FactorySettings)
  BY InstrumentIsSet DEF IsSetting
<1>6. /\ before' = [d \in Calls |-> before'[d]] /\ result' = [d \in Calls |-> result'[d]]
      /\ IsSetting(before'[c])
      /\ \A d \in Calls \ {c} : before'[d] = before[d] /\ result'[d] = result[d]
  BY <1>5 DEF Sends, RejectNil, Refuse, BeginFails, Finish, Return, Answer, PlansAreFollowed
<1>7. IsSetting(settings')
  BY <1>3 DEF PlansAreFollowed
<1>8. QED
  BY <1>1, <1>2, <1>3, <1>4, <1>6, <1>7, OthersFollow

LEMMA AdmitFollows ==
  ASSUME SlotsAccounted, RefusalsAreEarly, PlansAreFollowed, NEW c \in Calls, Admit(c)
  PROVE  PlansAreFollowed'
<1> DEFINE plan == Plan(request[c])
<1>1. /\ stage[c] = "sent" /\ request[c] \in Asked[c] \ {NoRequest} /\ request[c].call \in Methods
      /\ UNCHANGED <<request, result, before, settings>>
  BY DEF Admit, RefusalsAreEarly, Early, deviceVars
<1>2. FaithfulPlan(request[c], plan, Commanded(request[c]))
  BY <1>1, AskedIsTyped, PlansAreFaithful
<1>3. \/ /\ plan.error = "ok" /\ stage' = [stage EXCEPT ![c] = "begin"]
         /\ todo' = [todo EXCEPT ![c] = plan.steps]
      \/ stage' = [stage EXCEPT ![c] = "return"] /\ UNCHANGED todo
  BY DEF Admit
<1>4. ASSUME plan.error = "ok", stage' = [stage EXCEPT ![c] = "begin"],
             todo' = [todo EXCEPT ![c] = plan.steps]
      PROVE  Follows(c)'
  <2>1. Len(plan.steps) \in Nat
    BY <1>2, <1>4 DEF FaithfulPlan, Faithful, IsSequence
  <2>2. todo'[c] = plan.steps /\ stage'[c] = "begin" /\ plan' = plan
    <3>1. stage'[c] = "begin" /\ todo'[c] = plan.steps
      BY <1>4 DEF SlotsAccounted, Types, RefusalsAreEarly
    <3>2. plan' = plan
      BY <1>1 DEF Plan, SetChannel, SetAcquisition, SetHorizontal, SetTrigger, SetMeasurement
    <3>3. QED
      BY <3>1, <3>2
  <2> HIDE DEF plan
  <2>3. /\ Len(plan.steps) - Len(plan.steps) = 0
        /\ \A i \in 1..Len(plan.steps) : plan.steps[i] = plan.steps[0 + i]
    BY <2>1
  <2>4. /\ request'[c] = request[c] /\ plan'.error = "ok"
        /\ Len(plan'.steps) - Len(todo'[c]) = 0
        /\ \A i \in 1..Len(todo'[c]) : todo'[c][i] = plan'.steps[0 + i]
    BY <1>1, <1>4, <2>2, <2>3
  <2>5. QED
    BY <1>1, <2>2, <2>4 DEF Follows, plan
<1> HIDE DEF plan
<1>5. stage'[c] \in {"begin", "exchange"} => Follows(c)'
  <2>1. stage' = [stage EXCEPT ![c] = "return"] => stage'[c] = "return"
    BY DEF SlotsAccounted, Types
  <2>2. QED
    BY <1>3, <1>4, <2>1
<1>6. \A d \in Calls \ {c} : stage'[d] = stage[d] /\ todo'[d] = todo[d]
  BY <1>3 DEF SlotsAccounted, Types, RefusalsAreEarly
<1>7. QED
  BY <1>1, <1>5, <1>6, OthersFollow DEF PlansAreFollowed

LEMMA BeginFollows ==
  ASSUME SlotsAccounted, PlansAreFollowed, NEW c \in Calls, Begin(c)
  PROVE  PlansAreFollowed'
<1>1. /\ stage[c] = "begin" /\ stage' = [stage EXCEPT ![c] = "exchange"]
      /\ before' = [before EXCEPT ![c] = settings]
      /\ UNCHANGED <<request, todo, result, settings>>
  BY DEF Begin, Go, deviceVars
<1>2. stage'[c] = "exchange" /\ before'[c] = settings
  BY <1>1 DEF SlotsAccounted, Types, PlansAreFollowed
<1>3. Follows(c) /\ IsSetting(settings)
  BY <1>1 DEF PlansAreFollowed
<1>4. Follows(c)'
  <2>1. Position(c) = 0
    BY <1>1, <1>3 DEF Follows, Position
  <2>2. /\ Position(c) \in Nat /\ Done(Plan(request[c]).steps, Position(c), settings, settings)
        /\ 1..Position(c) = {}
    BY <2>1, NothingDone
  <2>3. QED
    BY <1>1, <1>2, <1>3, <2>2 DEF Follows, Position
<1>5. QED
  BY <1>1, <1>2, <1>3, <1>4, OthersFollow DEF SlotsAccounted, Types, PlansAreFollowed

\* An exchange that succeeds is the next step of the plan.
LEMMA NextFollows ==
  ASSUME SlotsAccounted, RefusalsAreEarly, PlansAreFollowed, NEW c \in Calls,
         Exchanging(c), Next1(c), UNCHANGED <<stage, request, before>>,
         result' = [d \in Calls |-> result'[d]],
         \A d \in Calls \ {c} : result'[d] = result[d],
         IsSetting(settings'),
         request[c].call # "Auto" =>
           Done(Plan(request[c]).steps, Position(c) + 1, before[c], settings'),
         \A i \in 1..(Position(c) + 1) :
           Plan(request[c]).steps[i] = Ask("header") => result'[c] = StateOf(before[c])
  PROVE  PlansAreFollowed'
<1>1. /\ stage[c] = "exchange" /\ todo'[c] = Tail(todo[c])
      /\ \A d \in Calls \ {c} : todo'[d] = todo[d]
  BY DEF Exchanging, Next1, RefusalsAreEarly
<1>2. \A d \in Calls \ {c} : stage[d] # "exchange"
  BY <1>1 DEF SlotsAccounted, SlotsMatch
<1> DEFINE steps == Plan(request[c]).steps
           n == Position(c)
<1>3. /\ Follows(c) /\ n \in Nat /\ Len(steps) - Len(Tail(todo[c])) = n + 1
      /\ \A i \in 1..Len(Tail(todo[c])) : Tail(todo[c])[i] = steps[n + 1 + i]
  BY HeadOfPlan
<1> HIDE DEF n
<1>4. n + 1 \in Nat /\ n + 1 # 0
  BY <1>3
<1>5. Follows(c)'
  BY <1>1, <1>3, <1>4 DEF Follows, n
<1>6. QED
  BY <1>1, <1>2, <1>5, OthersFollow DEF PlansAreFollowed

-----------------------------------------------------------------------------
(* A header reads as the settings that it shows. *)

LEMMA SettingsAreLegal ==
  ASSUME NEW s, IsSetting(s)
  PROVE  /\ \A name \in {"CH1", "CH2"} :
              /\ s[<<name, "DISPLAY">>] \in {"ON", "OFF"} /\ s[<<name, "PROBE">>] \in Probes
              /\ s[<<name, "COUPLING">>] \in {"AC", "DC", "GND"}
         /\ s[<<"ACQUIRE", "MODE">>] \in {"SAMPLE", "PEAK", "AVERAGE"}
         /\ s[<<"TRIGGER", "SOURCE">>] \in {"CH1", "CH2"}
         /\ s[<<"TRIGGER", "COUPLING">>] \in {"AC", "DC"}
         /\ s[<<"TRIGGER", "EDGE">>] \in {"RISE", "FALL"}
         /\ LevelFits(s[<<"TRIGGER", "LEVEL">>])
         /\ s[<<"TRIGGER", "SWEEP">>] \in {"AUTO", "NORMAL", "SINGLE"}
<1>1. ASSUME NEW name \in {"CH1", "CH2"}
      PROVE  /\ s[<<name, "DISPLAY">>] \in {"ON", "OFF"} /\ s[<<name, "PROBE">>] \in Probes
             /\ s[<<name, "COUPLING">>] \in {"AC", "DC", "GND"}
  <2>1. \A control \in {"DISPLAY", "PROBE", "COUPLING"} : <<name, control>> \in HeaderSettings
    BY DEF HeaderSettings
  <2>2. \A control \in {"DISPLAY", "PROBE", "COUPLING"} :
          Legal(<<name, control>>, s[<<name, control>>])
    BY <2>1 DEF IsSetting
  <2>3. QED
    BY <2>2 DEF Legal
<1>2. /\ <<"ACQUIRE", "MODE">> \in HeaderSettings
      /\ \A control \in {"SOURCE", "COUPLING", "EDGE", "LEVEL", "SWEEP"} :
           <<"TRIGGER", control>> \in HeaderSettings
  BY DEF HeaderSettings
<1>3. /\ Legal(<<"ACQUIRE", "MODE">>, s[<<"ACQUIRE", "MODE">>])
      /\ \A control \in {"SOURCE", "COUPLING", "EDGE", "LEVEL", "SWEEP"} :
           Legal(<<"TRIGGER", control>>, s[<<"TRIGGER", control>>])
  BY <1>2 DEF IsSetting
<1>4. QED
  BY <1>1, <1>3 DEF Legal

\* However a word is spelled, it reads the same.
LEMMA SpellingsRead ==
  ASSUME NEW word
  PROVE  /\ word \in {"AC", "DC", "GND"} =>
              Spelled(word) \in DOMAIN CouplingOf /\ CouplingOf[Spelled(word)] = CouplingOf[word]
         /\ word \in {"SAMPLE", "PEAK", "AVERAGE"} =>
              /\ Spelled(word) \in DOMAIN AcquisitionModeOf
              /\ AcquisitionModeOf[Spelled(word)] = AcquisitionModeOf[word]
         /\ word \in {"RISE", "FALL"} =>
              /\ Spelled(word) \in DOMAIN TriggerSlopeOf
              /\ TriggerSlopeOf[Spelled(word)] = TriggerSlopeOf[word]
         /\ word \in {"AUTO", "NORMAL", "SINGLE"} =>
              /\ Spelled(word) \in DOMAIN TriggerSweepOf /\ Spelled(word) # ""
              /\ TriggerSweepOf[Spelled(word)] = TriggerSweepOf[word]
<1>1. word \in {"AC", "DC", "GND"} =>
        Spelled(word) \in DOMAIN CouplingOf /\ CouplingOf[Spelled(word)] = CouplingOf[word]
  BY DEF Spelled, CouplingOf
<1>2. word \in {"SAMPLE", "PEAK", "AVERAGE"} =>
        /\ Spelled(word) \in DOMAIN AcquisitionModeOf
        /\ AcquisitionModeOf[Spelled(word)] = AcquisitionModeOf[word]
  BY DEF Spelled, AcquisitionModeOf
<1>3. word \in {"RISE", "FALL"} =>
        /\ Spelled(word) \in DOMAIN TriggerSlopeOf
        /\ TriggerSlopeOf[Spelled(word)] = TriggerSlopeOf[word]
  BY DEF Spelled, TriggerSlopeOf
<1>4. word \in {"AUTO", "NORMAL", "SINGLE"} =>
        /\ Spelled(word) \in DOMAIN TriggerSweepOf /\ Spelled(word) # ""
        /\ TriggerSweepOf[Spelled(word)] = TriggerSweepOf[word]
  <2>1. Spelled("AUTO") = "AUTO" /\ Spelled("SINGLE") = "SINGLE"
    BY DEF Spelled
  <2>2. Spelled("NORMAL") \in {"NORMAL", "NORM"}
    BY DEF Spelled
  <2>3. \A spelled \in {"NORMAL", "NORM"} :
          /\ spelled \in DOMAIN TriggerSweepOf /\ spelled # ""
          /\ TriggerSweepOf[spelled] = TriggerSweepOf["NORMAL"]
    <3>1. "NORMAL" \in DOMAIN TriggerSweepOf /\ TriggerSweepOf["NORMAL"] = 2
      BY DEF TriggerSweepOf
    <3>2. "NORM" \in DOMAIN TriggerSweepOf /\ TriggerSweepOf["NORM"] = 2
      BY DEF TriggerSweepOf
    <3>3. QED
      BY <3>1, <3>2
  <2>4. \A spelled \in {"AUTO", "SINGLE"} : spelled \in DOMAIN TriggerSweepOf /\ spelled # ""
    BY DEF TriggerSweepOf
  <2>5. QED
    BY <2>1, <2>2, <2>3, <2>4
<1>5. QED
  BY <1>1, <1>2, <1>3, <1>4

LEMMA ChannelTextReads ==
  ASSUME NEW s, IsSetting(s), NEW name \in {"CH1", "CH2"}
  PROVE  ChannelReads(ChannelText(s, name)) /\ ChannelState(ChannelText(s, name)) = ChannelStateOf(s, name)
<1> DEFINE t == ChannelText(s, name)
<1>1. /\ s[<<name, "DISPLAY">>] \in {"ON", "OFF"} /\ s[<<name, "PROBE">>] \in Probes
      /\ Spelled(s[<<name, "COUPLING">>]) \in DOMAIN CouplingOf
      /\ CouplingOf[Spelled(s[<<name, "COUPLING">>])] = CouplingOf[s[<<name, "COUPLING">>]]
  BY SettingsAreLegal, SpellingsRead
<1>2. /\ t.name = name /\ t.display = s[<<name, "DISPLAY">>]
      /\ t.coupling = Spelled(s[<<name, "COUPLING">>])
      /\ t.probe = <<s[<<name, "PROBE">>], "X">>
      /\ t.scale = [value |-> s[<<name, "SCALE">>], form |-> "inside"]
      /\ t.offset = s[<<name, "OFFSET">>]
  BY DEF ChannelText
<1> HIDE DEF t
<1>3. ProbeReads(t.probe) /\ t.probe[1] = s[<<name, "PROBE">>]
  BY <1>1, <1>2 DEF ProbeReads, Positive, Finite, NotFinite, Probes
<1>4. t.name \in DOMAIN ChannelOf /\ t.display \in DOMAIN BooleanOf
  BY <1>1, <1>2 DEF ChannelOf, BooleanOf
<1>5. Trimmed(t.scale) = t.scale
  BY <1>2 DEF Trimmed
<1>6. ChannelState(t) = ChannelStateOf(s, name)
  BY <1>1, <1>2, <1>3, <1>5 DEF ChannelState, ChannelStateOf
<1>7. ChannelReads(t)
  BY <1>1, <1>2, <1>3, <1>4 DEF ChannelReads
<1>8. QED
  BY <1>6, <1>7 DEF t

LEMMA TriggerTextReads ==
  ASSUME NEW s, IsSetting(s)
  PROVE  /\ TriggerReads(TriggerText(s))
         /\ TriggerState(TriggerText(s), s[<<"ACQUIRE", "STATUS">>]) = TriggerStateOf(s)
<1> DEFINE t == TriggerText(s)
           level == s[<<"TRIGGER", "LEVEL">>]
           sweep == s[<<"TRIGGER", "SWEEP">>]
<1>1. /\ s[<<"TRIGGER", "SOURCE">>] \in {"CH1", "CH2"} /\ s[<<"TRIGGER", "COUPLING">>] \in {"AC", "DC"}
      /\ s[<<"TRIGGER", "EDGE">>] \in {"RISE", "FALL"} /\ LevelFits(level)
      /\ sweep \in {"AUTO", "NORMAL", "SINGLE"}
  BY SettingsAreLegal
<1>2. /\ t.mode = "SINGLE" /\ t.type = "EDGE" /\ t.channel = s[<<"TRIGGER", "SOURCE">>]
      /\ t.coupling = s[<<"TRIGGER", "COUPLING">>] /\ t.edge = Spelled(s[<<"TRIGGER", "EDGE">>])
      /\ t.level = IF level % 1000 = 0 THEN <<level \div 1000, "MV">> ELSE <<level, "UV">>
      /\ t.sweep = IF firmware.long THEN "" ELSE Spelled(sweep)
      /\ t.itemsSweep = IF firmware.long THEN Spelled(sweep) ELSE ""
  BY DEF TriggerText
<1> HIDE DEF t, level, sweep
<1>3. SweepText(t) = Spelled(sweep)
  BY <1>1, <1>2, SpellingsRead DEF SweepText
<1>4. VoltageReads(t.level) /\ Voltage(t.level) = level
  <2>1. level \in Int /\ level # NotFinite /\ level # 1000 * NotFinite
    BY <1>1 DEF LevelFits
  <2>2. CASE level % 1000 = 0
    <3>1. t.level = <<level \div 1000, "MV">>
      BY <1>2, <2>2
    <3>2. (level \div 1000) * 1000 = level /\ level \div 1000 # NotFinite
      BY <2>1, <2>2 DEF NotFinite
    <3>3. QED
      BY <3>1, <3>2 DEF VoltageReads, Voltage, Multiplier, Finite
  <2>3. CASE level % 1000 # 0
    <3>1. t.level = <<level, "UV">>
      BY <1>2, <2>3
    <3>2. QED
      BY <2>1, <3>1 DEF VoltageReads, Voltage, Multiplier, Finite
  <2>4. QED
    BY <2>2, <2>3
<1>5. t.channel \in DOMAIN TriggerSourceOf /\ t.coupling \in DOMAIN CouplingOf
  BY <1>1, <1>2 DEF TriggerSourceOf, CouplingOf
<1>6. /\ t.edge \in DOMAIN TriggerSlopeOf
      /\ TriggerSlopeOf[t.edge] = TriggerSlopeOf[s[<<"TRIGGER", "EDGE">>]]
      /\ SweepText(t) \in DOMAIN TriggerSweepOf
      /\ TriggerSweepOf[SweepText(t)] = TriggerSweepOf[sweep]
  <2>1. /\ t.edge \in DOMAIN TriggerSlopeOf
        /\ TriggerSlopeOf[t.edge] = TriggerSlopeOf[s[<<"TRIGGER", "EDGE">>]]
    BY <1>1, <1>2, SpellingsRead
  <2>2. /\ Spelled(sweep) \in DOMAIN TriggerSweepOf
        /\ TriggerSweepOf[Spelled(sweep)] = TriggerSweepOf[sweep]
    BY <1>1, SpellingsRead
  <2>3. QED
    BY <1>3, <2>1, <2>2
<1>7. TriggerReads(t)
  BY <1>2, <1>4, <1>5, <1>6 DEF TriggerReads
<1>8. TriggerState(t, s[<<"ACQUIRE", "STATUS">>]) = TriggerStateOf(s)
  BY <1>2, <1>4, <1>6 DEF TriggerState, TriggerStateOf, level, sweep
<1>9. QED
  BY <1>7, <1>8 DEF t

LEMMA HeaderReads ==
  ASSUME NEW s, IsSetting(s)
  PROVE  Controls(Header(s)) =
           [error |-> "ok", channels |-> <<ChannelStateOf(s, "CH1"), ChannelStateOf(s, "CH2")>>,
            acquisition |-> AcquisitionStateOf(s), horizontal |-> HorizontalStateOf(s),
            trigger |-> TriggerStateOf(s)]
<1> DEFINE h == Header(s)
           first == ChannelText(s, "CH1")
           second == ChannelText(s, "CH2")
           text == TriggerText(s)
<1>1. /\ h.sampleType = Spelled(s[<<"ACQUIRE", "MODE">>])
      /\ h.memoryDepth = s[<<"ACQUIRE", "DEPMEM">>]
      /\ h.timebaseScale = [value |-> s[<<"HORIZONTAL", "SCALE">>], form |-> "around"]
      /\ h.timebaseOffset = s[<<"HORIZONTAL", "OFFSET">>]
      /\ h.channels = <<first, second>>
      /\ h.status = s[<<"ACQUIRE", "STATUS">>] /\ h.trigger = text
  BY DEF Header
<1>2. /\ ChannelReads(first) /\ ChannelState(first) = ChannelStateOf(s, "CH1")
      /\ ChannelReads(second) /\ ChannelState(second) = ChannelStateOf(s, "CH2")
  BY ChannelTextReads
<1>3. TriggerReads(text) /\ TriggerState(text, s[<<"ACQUIRE", "STATUS">>]) = TriggerStateOf(s)
  BY TriggerTextReads
<1>4. /\ Spelled(s[<<"ACQUIRE", "MODE">>]) \in DOMAIN AcquisitionModeOf
      /\ AcquisitionModeOf[Spelled(s[<<"ACQUIRE", "MODE">>])] =
           AcquisitionModeOf[s[<<"ACQUIRE", "MODE">>]]
  BY SettingsAreLegal, SpellingsRead
<1> HIDE DEF h, first, second, text
<1>5. /\ DOMAIN h.channels = 1..2 /\ h.channels[1] = first /\ h.channels[2] = second
  BY <1>1
<1>6. \A i \in DOMAIN h.channels : ChannelReads(h.channels[i])
  BY <1>2, <1>5
<1>7. [i \in DOMAIN h.channels |-> ChannelState(h.channels[i])] =
        <<ChannelStateOf(s, "CH1"), ChannelStateOf(s, "CH2")>>
  BY <1>2, <1>5
<1>8. h.timebaseScale.form # "blank"
  BY <1>1
<1>9. [scale |-> Trimmed(h.timebaseScale), screenHeaderOffset |-> h.timebaseOffset] =
        HorizontalStateOf(s)
  BY <1>1 DEF Trimmed, HorizontalStateOf
<1>10. [mode |-> AcquisitionModeOf[h.sampleType], memoryDepth |-> h.memoryDepth] =
         AcquisitionStateOf(s)
  BY <1>1, <1>4 DEF AcquisitionStateOf
<1>11. TriggerReads(h.trigger) /\ TriggerState(h.trigger, h.status) = TriggerStateOf(s)
  BY <1>1, <1>3
<1>12. h.sampleType \in DOMAIN AcquisitionModeOf
  BY <1>1, <1>4
<1>13. Controls(h) =
         [error |-> "ok", channels |-> <<ChannelStateOf(s, "CH1"), ChannelStateOf(s, "CH2")>>,
          acquisition |-> AcquisitionStateOf(s), horizontal |-> HorizontalStateOf(s),
          trigger |-> TriggerStateOf(s)]
  BY <1>6, <1>7, <1>8, <1>9, <1>10, <1>11, <1>12 DEF Controls
<1>14. QED
  BY <1>13 DEF h

LEMMA ReportReads ==
  ASSUME NEW s, IsSetting(s)
  PROVE  Controls(Header(s)).error = "ok" /\ Report(s) = StateOf(s)
<1> DEFINE controls == Controls(Header(s))
<1>1. /\ controls.error = "ok"
      /\ controls.channels = <<ChannelStateOf(s, "CH1"), ChannelStateOf(s, "CH2")>>
      /\ controls.acquisition = AcquisitionStateOf(s) /\ controls.horizontal = HorizontalStateOf(s)
      /\ controls.trigger = TriggerStateOf(s)
  BY HeaderReads
<1> HIDE DEF controls
<1>2. \A name \in {"CH1", "CH2"} : ChannelStateToProto(ChannelStateOf(s, name)) = ChannelStateOf(s, name)
  BY DEF ChannelStateToProto, Converted, ChannelStateOf
<1>3. AcquisitionStateToProto(AcquisitionStateOf(s)) = AcquisitionStateOf(s)
  BY DEF AcquisitionStateToProto, Converted, AcquisitionStateOf
<1>4. HorizontalStateToProto(HorizontalStateOf(s)) = HorizontalStateOf(s)
  BY DEF HorizontalStateToProto, Converted, HorizontalStateOf
<1>5. TriggerStateToProto(TriggerStateOf(s)) = TriggerStateOf(s)
  BY DEF TriggerStateToProto, Converted, TriggerStateOf
<1>6. [i \in DOMAIN controls.channels |-> ChannelStateToProto(controls.channels[i])] =
        <<ChannelStateOf(s, "CH1"), ChannelStateOf(s, "CH2")>>
  BY <1>1, <1>2
<1>7. StateSnapshotToProto(controls) = StateOf(s)
  BY <1>1, <1>3, <1>4, <1>5, <1>6 DEF StateSnapshotToProto, StateOf
<1>8. QED
  BY <1>1, <1>7 DEF controls, Report

-----------------------------------------------------------------------------
(* Every step follows the plans. *)

\* All that an Auto exchanges is its command.
LEMMA AutoWrites ==
  ASSUME RefusalsAreEarly, PlansAreFollowed, NEW c \in Calls, Exchanging(c),
         ~IsWrite(Head(todo[c]))
  PROVE  request[c].call # "Auto"
<1> SUFFICES ASSUME request[c].call = "Auto" PROVE FALSE
  OBVIOUS
<1>1. Plan(request[c]).steps = <<Autoset>>
  BY DEF Plan, AutoSetup, Exchanges
<1>2. Head(todo[c]) = Autoset
  <2> DEFINE steps == Plan(request[c]).steps
  <2>1. Position(c) + 1 \in DOMAIN steps /\ Head(todo[c]) = steps[Position(c) + 1]
    BY HeadOfPlan
  <2>2. steps = <<Autoset>>
    BY <1>1
  <2> HIDE DEF steps
  <2>3. \A i \in DOMAIN steps : steps[i] = Autoset
    BY <2>2, One
  <2>4. QED
    BY <2>1, <2>3
<1>3. QED
  BY <1>2 DEF IsWrite, Autoset

LEMMA WriteFollows ==
  ASSUME SlotsAccounted, RefusalsAreEarly, PlansAreFollowed, NEW c \in Calls, Write(c)
  PROVE  PlansAreFollowed'
<1> DEFINE steps == Plan(request[c]).steps
           n == Position(c)
<1>1. /\ Exchanging(c) /\ Next1(c) /\ IsWrite(Head(todo[c])) /\ settings' \in Outcomes(Head(todo[c]))
      /\ UNCHANGED <<stage, request, before, result>>
  BY DEF Write
<1>2. /\ Follows(c) /\ Faithful(request[c], steps, Commanded(request[c]))
      /\ n \in Nat /\ n + 1 \in DOMAIN steps /\ Head(todo[c]) = steps[n + 1]
  BY <1>1, HeadOfPlan
<1>3. /\ request[c].call # "Auto" => Done(steps, n, before[c], settings)
      /\ \A i \in 1..n : steps[i] = Ask("header") => result[c] = StateOf(before[c])
  BY <1>1, <1>2 DEF Follows, Exchanging, Position
<1> HIDE DEF steps, n
<1>4. Legal(steps[n + 1].set, steps[n + 1].to)
  BY <1>1, <1>2 DEF Faithful
<1>5. IsSetting(settings')
  BY <1>1, <1>2, <1>4, OutcomeIsSetting DEF PlansAreFollowed
<1>6. ASSUME request[c].call # "Auto" PROVE settings' = Written(steps[n + 1])
  <2>1. Typed(request[c]) /\ Plan(request[c]).error = "ok"
    BY <1>2, AskedIsTyped DEF Follows
  <2>2. steps[n + 1] # Autoset
    BY <1>1, <1>2, <1>6, <2>1, OnlyAutoFinds DEF Faithful
  <2>3. QED
    BY <1>1, <1>2, <2>2 DEF Outcomes
<1>7. ASSUME request[c].call # "Auto" PROVE Done(steps, n + 1, before[c], settings')
  <2>1. \/ settings' = settings /\ Averaging(steps[n + 1])
        \/ settings' = [setting \in DOMAIN settings \cup {steps[n + 1].set} |->
                          IF setting = steps[n + 1].set THEN steps[n + 1].to ELSE settings[setting]]
    BY <1>6, <1>7 DEF Written, Averaging
  <2>2. QED
    BY <1>1, <1>2, <1>3, <1>7, <2>1, WriteIsDone
<1>8. \A i \in 1..(n + 1) : steps[i] = Ask("header") => result'[c] = StateOf(before[c])
  <2>1. \A i \in 1..(n + 1) : i \in 1..n \/ i = n + 1
    BY <1>2
  <2>2. steps[n + 1] # Ask("header")
    BY <1>1, <1>2, Asks
  <2>3. QED
    BY <1>1, <1>3, <2>1, <2>2
<1>9. QED
  BY <1>1, <1>5, <1>7, <1>8, NextFollows DEF steps, n, PlansAreFollowed

\* The polls that succeed, and the range that a snapshot does without.
LEMMA PollFollows ==
  ASSUME SlotsAccounted, RefusalsAreEarly, PlansAreFollowed, NEW c \in Calls,
         Converge(c) \/ RangeUnavailable(c)
  PROVE  PlansAreFollowed'
<1> DEFINE steps == Plan(request[c]).steps
           n == Position(c)
<1>1. /\ Exchanging(c) /\ Next1(c) /\ Head(todo[c]) \in {Ask("function"), Ask("range")}
      /\ UNCHANGED <<stage, request, before, result, settings>>
  BY DEF Converge, RangeUnavailable, deviceVars
<1>2. /\ Follows(c) /\ n \in Nat /\ n + 1 \in DOMAIN steps /\ Head(todo[c]) = steps[n + 1]
  BY <1>1, HeadOfPlan
<1>2a. request[c].call # "Auto"
  BY <1>1, Asks, AutoWrites
<1>3. /\ Done(steps, n, before[c], settings)
      /\ \A i \in 1..n : steps[i] = Ask("header") => result[c] = StateOf(before[c])
  BY <1>1, <1>2, <1>2a DEF Follows, Exchanging, Position
<1> HIDE DEF steps, n
<1>4. ~IsWrite(steps[n + 1]) /\ steps[n + 1] # Ask("mode") /\ steps[n + 1] # Ask("header")
  BY <1>1, <1>2, Asks
<1>5. Done(steps, n + 1, before[c], settings)
  BY <1>2, <1>3, <1>4, ReadIsDone
<1>6. \A i \in 1..(n + 1) : steps[i] = Ask("header") => result'[c] = StateOf(before[c])
  <2>1. \A i \in 1..(n + 1) : i \in 1..n \/ i = n + 1
    BY <1>2
  <2>2. QED
    BY <1>1, <1>3, <1>4, <2>1
<1>7. QED
  BY <1>1, <1>5, <1>6, NextFollows DEF steps, n, PlansAreFollowed

\* An operation that fails, whether or not its last write reached the instrument.
LEMMA FailFollows ==
  ASSUME SlotsAccounted, RefusalsAreEarly, PlansAreFollowed, NEW c \in Calls, NEW classes,
         Exchanging(c), Fail(c, classes), UNCHANGED <<request, todo, before, result>>,
         \/ settings' = settings
         \/ IsWrite(Head(todo[c])) /\ settings' \in Outcomes(Head(todo[c]))
  PROVE  PlansAreFollowed'
<1>1. stage'[c] = "return" /\ \A d \in Calls \ {c} : stage'[d] = stage[d]
  BY DEF Fail, SlotsAccounted, Types
<1>2. \A d \in Calls \ {c} : stage[d] # "exchange"
  BY DEF Exchanging, SlotsAccounted, SlotsMatch
<1>3. IsSetting(settings')
  <2>1. IsWrite(Head(todo[c])) => Legal(Head(todo[c]).set, Head(todo[c]).to)
    BY HeadOfPlan DEF Faithful
  <2>2. QED
    BY <2>1, OutcomeIsSetting DEF PlansAreFollowed
<1>4. QED
  BY <1>1, <1>2, <1>3, OthersFollow DEF PlansAreFollowed

LEMMA ReadFollows ==
  ASSUME SlotsAccounted, RefusalsAreEarly, PlansAreFollowed, NEW c \in Calls, Read(c)
  PROVE  PlansAreFollowed'
<1> DEFINE steps == Plan(request[c]).steps
           n == Position(c)
           what == Head(todo[c]).ask
<1>1. /\ Exchanging(c) /\ ~IsWrite(Head(todo[c])) /\ UNCHANGED <<request, before, settings>>
      /\ \/ /\ Observed(c, what) = "ok" /\ Next1(c) /\ UNCHANGED stage
            /\ result' = [result EXCEPT ![c] = Carried(c, what)]
         \/ Fail(c, {Observed(c, what)}) /\ UNCHANGED <<todo, result>>
  BY DEF Read, deviceVars
<1>2. /\ Follows(c) /\ Faithful(request[c], steps, Commanded(request[c]))
      /\ n \in Nat /\ n + 1 \in DOMAIN steps /\ Head(todo[c]) = steps[n + 1]
  BY <1>1, HeadOfPlan
<1>2a. request[c].call # "Auto"
  BY <1>1, AutoWrites
<1>3. /\ Done(steps, n, before[c], settings)
      /\ \A i \in 1..n : steps[i] = Ask("header") => result[c] = StateOf(before[c])
  BY <1>1, <1>2, <1>2a DEF Follows, Exchanging, Position
<1>4. CASE Fail(c, {Observed(c, what)}) /\ UNCHANGED <<todo, result>>
  BY <1>1, <1>4, FailFollows
<1>5. CASE /\ Observed(c, what) = "ok" /\ Next1(c) /\ UNCHANGED stage
           /\ result' = [result EXCEPT ![c] = Carried(c, what)]
  <2>1. /\ result'[c] = Carried(c, what) /\ result' = [d \in Calls |-> result'[d]]
        /\ \A d \in Calls \ {c} : result'[d] = result[d]
    BY <1>5 DEF PlansAreFollowed
  <2>2. IsSetting(settings') /\ IsSetting(settings) /\ IsSetting(before[c])
    BY <1>1 DEF PlansAreFollowed
  <2> HIDE DEF steps, n, what
  <2>3. ~IsWrite(steps[n + 1]) /\ \A other : steps[n + 1] = Ask(other) => what = other
    BY <1>1, <1>2, Asks DEF what
  <2>4. steps[n + 1] = Ask("mode") => settings[<<"ACQUIRE", "MODE">>] = "AVERAGE"
    <3> SUFFICES ASSUME steps[n + 1] = Ask("mode")
                 PROVE  settings[<<"ACQUIRE", "MODE">>] = "AVERAGE"
      OBVIOUS
    <3> DEFINE mode == settings[<<"ACQUIRE", "MODE">>]
    <3>1. request[c].fields["mode"] = 3
      BY <1>2 DEF Faithful
    <3>2. ReadMode(c) = "ok"
      BY <1>5, <2>3 DEF Observed
    <3>3. mode \in {"SAMPLE", "PEAK", "AVERAGE"}
      BY <2>2, SettingsAreLegal
    <3>4. AcquisitionModeOf[Spelled(mode)] = AcquisitionModeOf[mode]
      BY <3>3, SpellingsRead
    <3>5. AcquisitionModeOf[Spelled(mode)] = 3
      BY <3>1, <3>2 DEF ReadMode, ParseAcquisitionMode, Malformed
    <3> HIDE DEF mode
    <3>6. mode = "AVERAGE"
      BY <3>3, <3>4, <3>5 DEF AcquisitionModeOf
    <3>7. QED
      BY <3>6 DEF mode
  <2>5. Done(steps, n + 1, before[c], settings')
    BY <1>1, <1>2, <1>3, <2>3, <2>4, ReadIsDone
  <2>6. steps[n + 1] = Ask("header") => result'[c] = StateOf(before[c])
    <3> SUFFICES ASSUME steps[n + 1] = Ask("header")
                 PROVE  result'[c] = StateOf(before[c])
      OBVIOUS
    <3>1. result'[c] = Report(settings)
      BY <2>1, <2>3 DEF Carried, State, Report
    <3>2. \A i \in 1..n : ~IsWrite(steps[i])
      <4>1. DOMAIN steps = 1..Len(steps) /\ Len(steps) \in Nat
        BY <1>2 DEF Faithful, IsSequence
      <4>2. \A i \in 1..n : i \in DOMAIN steps
        BY <1>2, <4>1
      <4>3. QED
        BY <1>2, <4>2 DEF Faithful
    <3>3. \A setting \in HeaderSettings : settings[setting] = before[c][setting]
      BY <1>3, <2>2, <3>2 DEF Done, IsSetting
    <3>4. StateOf(settings) = StateOf(before[c])
      <4>1. \A name \in {"CH1", "CH2"} : ChannelStateOf(settings, name) = ChannelStateOf(before[c], name)
        <5>1. \A name \in {"CH1", "CH2"} :
                \A control \in {"DISPLAY", "COUPLING", "PROBE", "SCALE", "OFFSET"} :
                  <<name, control>> \in HeaderSettings
          BY DEF HeaderSettings
        <5>2. QED
          BY <3>3, <5>1 DEF ChannelStateOf
      <4>2. /\ \A control \in {"MODE", "DEPMEM", "STATUS"} : <<"ACQUIRE", control>> \in HeaderSettings
            /\ \A control \in {"SCALE", "OFFSET"} : <<"HORIZONTAL", control>> \in HeaderSettings
            /\ \A control \in {"SOURCE", "COUPLING", "EDGE", "LEVEL", "SWEEP"} :
                 <<"TRIGGER", control>> \in HeaderSettings
        BY DEF HeaderSettings
      <4>3. /\ AcquisitionStateOf(settings) = AcquisitionStateOf(before[c])
            /\ HorizontalStateOf(settings) = HorizontalStateOf(before[c])
        BY <3>3, <4>2 DEF AcquisitionStateOf, HorizontalStateOf
      <4>4. TriggerStateOf(settings) = TriggerStateOf(before[c])
        BY <3>3, <4>2 DEF TriggerStateOf
      <4>5. QED
        BY <4>1, <4>3, <4>4 DEF StateOf
    <3>5. QED
      BY <2>2, <3>1, <3>4, ReportReads
  <2>7. \A i \in 1..n : steps[i] = Ask("header") => result'[c] = StateOf(before[c])
    <3> SUFFICES ASSUME NEW i \in 1..n, steps[i] = Ask("header")
                 PROVE  result'[c] = StateOf(before[c])
      OBVIOUS
    <3>1. DOMAIN steps = 1..Len(steps) /\ Len(steps) \in Nat
      BY <1>2 DEF Faithful, IsSequence
    <3>2. i \in DOMAIN steps /\ n + 1 > i
      BY <1>2, <3>1
    <3>3. steps[n + 1] = Ask("range")
      BY <1>2, <3>2 DEF Faithful
    <3>4. Carried(c, what) = result[c]
      BY <2>3, <3>3 DEF Carried
    <3>5. QED
      BY <1>3, <2>1, <3>4
  <2>8. \A i \in 1..(n + 1) : steps[i] = Ask("header") => result'[c] = StateOf(before[c])
    <3>1. \A i \in 1..(n + 1) : i \in 1..n \/ i = n + 1
      BY <1>2
    <3>2. QED
      BY <2>6, <2>7, <3>1
  <2>9. QED
    BY <1>1, <1>5, <2>1, <2>2, <2>5, <2>8, NextFollows DEF steps, n
<1>6. QED
  BY <1>1, <1>4, <1>5

LEMMA StepFollows ==
  SlotsAccounted /\ RefusalsAreEarly /\ PlansAreFollowed /\ [Next]_vars => PlansAreFollowed'
<1> SUFFICES ASSUME SlotsAccounted, RefusalsAreEarly, PlansAreFollowed, [Next]_vars
             PROVE  PlansAreFollowed'
  OBVIOUS
<1>1. ASSUME UNCHANGED <<callVars, settings>> PROVE PlansAreFollowed'
  BY <1>1 DEF callVars, PlansAreFollowed, Follows
<1>2. ASSUME NEW c \in Calls, ExchangeFails(c) PROVE PlansAreFollowed'
  <2>1. PICK classes : Fail(c, classes)
    BY <1>2 DEF ExchangeFails
  <2>2. QED
    BY <1>2, <2>1, FailFollows DEF ExchangeFails
<1>3. ASSUME NEW c \in Calls, Invoke(c) PROVE PlansAreFollowed'
  BY <1>3, QuietFollows DEF Invoke, AskInfo, AskQuery, AskScope, AskSource, AskAction, AskWaveform
<1>4. ASSUME NEW c \in Calls, Handle(c) PROVE PlansAreFollowed'
  BY <1>2, <1>4, QuietFollows, AdmitFollows, BeginFollows, WriteFollows, ReadFollows, PollFollows
     DEF Handle
<1>5. QED
  BY <1>1, <1>3, <1>4 DEF Next, GiveUp, vars, deviceVars

\* What was exchanged of a plan is what the instrument is set to.
THEOREM PlansTheorem == Spec => []PlansAreFollowed
<1>1. QED
  BY InitFollows, StepFollows, SlotsTheorem, EarlyRefusals, PTL DEF Spec

-----------------------------------------------------------------------------
(* What is done of a whole plan is what was asked. *)

\* These writes took, and nothing else changed.
Took(W, was, is) ==
  /\ \A w \in W : is[w.set] = w.to
  /\ \A setting \in HeaderSettings : (\A w \in W : w.set # setting) => is[setting] = was[setting]

LEMMA DoneTakes ==
  ASSUME NEW r, NEW steps, NEW W, Faithful(r, steps, W), NEW was, NEW is, IsSetting(was),
         Done(steps, Len(steps), was, is)
  PROVE  Took(W, was, is)
<1>1. DOMAIN steps = 1..Len(steps)
  BY DEF Faithful, IsSequence
<1>2. ASSUME NEW w \in W PROVE is[w.set] = w.to
  <2>1. PICK i \in DOMAIN steps : steps[i] = w /\ IsWrite(w)
    BY DEF Faithful
  <2>2. is[w.set] = w.to \/ Averaging(w)
    BY <1>1, <2>1 DEF Done
  <2>3. CASE Averaging(w)
    <3>1. \E j \in DOMAIN steps : steps[j] = Ask("mode")
      BY <2>3 DEF Faithful
    <3>2. is[<<"ACQUIRE", "MODE">>] = "AVERAGE"
      BY <1>1, <3>1 DEF Done
    <3>3. QED
      BY <2>3, <3>2 DEF Averaging
  <2>4. QED
    BY <2>2, <2>3
<1>3. ASSUME NEW setting \in HeaderSettings, \A w \in W : w.set # setting
      PROVE  is[setting] = was[setting]
  <2>1. \A i \in DOMAIN steps : IsWrite(steps[i]) => steps[i].set # setting
    BY <1>3 DEF Faithful
  <2>2. setting \in DOMAIN was
    BY DEF IsSetting
  <2>3. QED
    BY <1>1, <2>1, <2>2 DEF Done
<1>4. QED
  BY <1>2, <1>3 DEF Took

\* Rows of different controls.
Table(rows, m) ==
  m \in Nat /\ DOMAIN rows = 1..m /\ \A i, j \in 1..m : rows[i][2] = rows[j][2] => i = j

\* What the rows set: the tokens of the present ones, and nothing besides.
LEMMA RowsTake ==
  ASSUME NEW p, NEW subsystem, NEW rows, NEW m, Table(rows, m),
         NEW was, NEW is, Took(RowCommands(p, subsystem, rows), was, is)
  PROVE  /\ \A i \in 1..m : Has(p, rows[i][1]) =>
              is[<<subsystem, rows[i][2]>>] = Token(rows[i][1], p[rows[i][1]])
         /\ \A i \in 1..m : ~Has(p, rows[i][1]) /\ <<subsystem, rows[i][2]>> \in HeaderSettings =>
              is[<<subsystem, rows[i][2]>>] = was[<<subsystem, rows[i][2]>>]
         /\ \A setting \in HeaderSettings :
              (\A i \in 1..m : setting # <<subsystem, rows[i][2]>>) => is[setting] = was[setting]
<1> USE DEF Table
<1>1. \A i \in 1..m : Command(p, subsystem, rows[i]).set = <<subsystem, rows[i][2]>>
  BY DEF Command
<1>2. \A i \in 1..m : Command(p, subsystem, rows[i]).to = Token(rows[i][1], p[rows[i][1]])
  BY DEF Command
<1>3. ASSUME NEW i \in 1..m, Has(p, rows[i][1])
      PROVE  is[<<subsystem, rows[i][2]>>] = Token(rows[i][1], p[rows[i][1]])
  <2>1. Command(p, subsystem, rows[i]) \in RowCommands(p, subsystem, rows)
    BY <1>3 DEF RowCommands
  <2>2. QED
    BY <1>1, <1>2, <2>1 DEF Took
<1>4. \A w \in RowCommands(p, subsystem, rows) :
        \E i \in 1..m : Has(p, rows[i][1]) /\ w.set = <<subsystem, rows[i][2]>>
  BY <1>1 DEF RowCommands
<1>5. ASSUME NEW i \in 1..m, ~Has(p, rows[i][1]), <<subsystem, rows[i][2]>> \in HeaderSettings
      PROVE  is[<<subsystem, rows[i][2]>>] = was[<<subsystem, rows[i][2]>>]
  <2>1. \A w \in RowCommands(p, subsystem, rows) : w.set # <<subsystem, rows[i][2]>>
    <3>1. \A j \in 1..m : <<subsystem, rows[j][2]>> = <<subsystem, rows[i][2]>> => j = i
      OBVIOUS
    <3>2. QED
      BY <1>4, <1>5, <3>1
  <2>2. QED
    BY <1>5, <2>1 DEF Took
<1>6. ASSUME NEW setting \in HeaderSettings, \A i \in 1..m : setting # <<subsystem, rows[i][2]>>
      PROVE  is[setting] = was[setting]
  <2>1. \A w \in RowCommands(p, subsystem, rows) : w.set # setting
    BY <1>4, <1>6
  <2>2. QED
    BY <2>1 DEF Took
<1>7. QED
  BY <1>3, <1>5, <1>6

\* A state whose settings are the same is the same.
Same(was, is, subsystem, controls) ==
  \A control \in controls : is[<<subsystem, control>>] = was[<<subsystem, control>>]

ChannelControls == {"DISPLAY", "COUPLING", "PROBE", "SCALE", "OFFSET"}
TriggerControls == {"SOURCE", "COUPLING", "EDGE", "LEVEL", "SWEEP"}

LEMMA SettingsShown ==
  /\ \A name \in {"CH1", "CH2"} : \A control \in ChannelControls : <<name, control>> \in HeaderSettings
  /\ \A control \in {"MODE", "DEPMEM", "STATUS"} : <<"ACQUIRE", control>> \in HeaderSettings
  /\ \A control \in {"SCALE", "OFFSET"} : <<"HORIZONTAL", control>> \in HeaderSettings
  /\ \A control \in TriggerControls : <<"TRIGGER", control>> \in HeaderSettings
<1>1. \A name \in {"CH1", "CH2"} : \A control \in ChannelControls : <<name, control>> \in HeaderSettings
  BY DEF HeaderSettings, ChannelControls
<1>2. /\ \A control \in {"MODE", "DEPMEM", "STATUS"} : <<"ACQUIRE", control>> \in HeaderSettings
      /\ \A control \in {"SCALE", "OFFSET"} : <<"HORIZONTAL", control>> \in HeaderSettings
      /\ \A control \in TriggerControls : <<"TRIGGER", control>> \in HeaderSettings
  BY DEF HeaderSettings, TriggerControls
<1>3. QED
  BY <1>1, <1>2

LEMMA SameStates ==
  ASSUME NEW was, NEW is
  PROVE  /\ \A name \in {"CH1", "CH2"} :
              Same(was, is, name, ChannelControls) => ChannelStateOf(is, name) = ChannelStateOf(was, name)
         /\ Same(was, is, "ACQUIRE", {"MODE", "DEPMEM"}) =>
              AcquisitionStateOf(is) = AcquisitionStateOf(was)
         /\ Same(was, is, "HORIZONTAL", {"SCALE", "OFFSET"}) =>
              HorizontalStateOf(is) = HorizontalStateOf(was)
         /\ Same(was, is, "TRIGGER", TriggerControls) /\ Same(was, is, "ACQUIRE", {"STATUS"}) =>
              TriggerStateOf(is) = TriggerStateOf(was)
<1>1. \A name \in {"CH1", "CH2"} :
        Same(was, is, name, ChannelControls) => ChannelStateOf(is, name) = ChannelStateOf(was, name)
  BY DEF Same, ChannelControls, ChannelStateOf
<1>2. /\ Same(was, is, "ACQUIRE", {"MODE", "DEPMEM"}) =>
           AcquisitionStateOf(is) = AcquisitionStateOf(was)
      /\ Same(was, is, "HORIZONTAL", {"SCALE", "OFFSET"}) =>
           HorizontalStateOf(is) = HorizontalStateOf(was)
  BY DEF Same, AcquisitionStateOf, HorizontalStateOf
<1>3. Same(was, is, "TRIGGER", TriggerControls) /\ Same(was, is, "ACQUIRE", {"STATUS"}) =>
        TriggerStateOf(is) = TriggerStateOf(was)
  BY DEF Same, TriggerControls, TriggerStateOf
<1>4. QED
  BY <1>1, <1>2, <1>3

\* No other field has its name in the state.
NamedAlone(f, F) == \A g \in F : StateName(g) = StateName(f) => g = f

\* What is shown in place of a field.
LEMMA OverriddenAt ==
  ASSUME NEW state, NEW fields, NEW F, DOMAIN fields \subseteq F, NEW f \in F,
         NamedAlone(f, F), StateName(f) \in DOMAIN state
  PROVE  Overridden(state, fields)[StateName(f)] =
           IF Has(fields, f) THEN StateValue(fields, f) ELSE Shown(state)[StateName(f)]
<1>1. CASE Has(fields, f)
  <2>1. (CHOOSE g \in DOMAIN fields : StateName(g) = StateName(f)) = f
    BY <1>1 DEF Has, NamedAlone
  <2>2. QED
    BY <1>1, <2>1 DEF Has, Overridden
<1>2. CASE ~Has(fields, f)
  <2>1. ~\E g \in DOMAIN fields : StateName(g) = StateName(f)
    BY <1>2 DEF Has, NamedAlone
  <2>2. QED
    BY <1>2, <2>1 DEF Overridden
<1>3. QED
  BY <1>1, <1>2

\* Two states show the same if they do field by field.
LEMMA OverriddenWhole ==
  ASSUME NEW was, NEW is, NEW fields, NEW K, DOMAIN was = K, DOMAIN is = K,
         \A k \in K : Shown(is)[k] = Overridden(was, fields)[k]
  PROVE  Shown(is) = Overridden(was, fields)
  BY DEF Shown, Overridden

LEMMA ShownAt ==
  ASSUME NEW state, NEW k \in DOMAIN state
  PROVE  Shown(state)[k] = IF k = "scale" THEN state[k].value ELSE state[k]
  BY DEF Shown

LEMMA ConvertedField ==
  ASSUME NEW fields, NEW F, NEW f \in F
  PROVE  /\ Has(Converted(fields, F), f) <=> Has(fields, f)
         /\ Has(fields, f) => Converted(fields, F)[f] = fields[f]
  BY DEF Converted, Has

\* What became of a row, by the fields of the request.
LEMMA RowsOfFields ==
  ASSUME NEW fields, NEW F, NEW subsystem, NEW rows, NEW m, Table(rows, m),
         NEW was, NEW is, Took(RowCommands(Converted(fields, F), subsystem, rows), was, is),
         NEW i \in 1..m, NEW f, NEW control, rows[i] = <<f, control>>, f \in F,
         <<subsystem, control>> \in HeaderSettings
  PROVE  is[<<subsystem, control>>] =
           IF Has(fields, f) THEN Token(f, fields[f]) ELSE was[<<subsystem, control>>]
<1>1. rows[i][1] = f /\ rows[i][2] = control
  OBVIOUS
<1>2. Has(Converted(fields, F), f) => is[<<subsystem, control>>] = Token(f, Converted(fields, F)[f])
  BY <1>1, RowsTake
<1>3. ~Has(Converted(fields, F), f) => is[<<subsystem, control>>] = was[<<subsystem, control>>]
  BY <1>1, RowsTake
<1>4. QED
  BY <1>2, <1>3, ConvertedField

\* The other parts of the state, if they are left alone.
LEMMA PartsApplied ==
  ASSUME NEW r, NEW was, NEW is,
         \A i \in 1..2 : r.call = "SetChannel" /\ r.fields["channel"] = i =>
           Shown(ChannelStateOf(is, ChannelNames[i])) =
             Overridden(ChannelStateOf(was, ChannelNames[i]), r.fields),
         \A i \in 1..2 : ~(r.call = "SetChannel" /\ r.fields["channel"] = i) =>
           Same(was, is, ChannelNames[i], ChannelControls),
         r.call = "SetAcquisition" =>
           Shown(AcquisitionStateOf(is)) = Overridden(AcquisitionStateOf(was), r.fields),
         r.call # "SetAcquisition" => Same(was, is, "ACQUIRE", {"MODE", "DEPMEM"}),
         r.call = "SetHorizontal" =>
           Shown(HorizontalStateOf(is)) = Overridden(HorizontalStateOf(was), r.fields),
         r.call # "SetHorizontal" => Same(was, is, "HORIZONTAL", {"SCALE", "OFFSET"}),
         r.call = "SetTrigger" =>
           Shown(TriggerStateOf(is)) = Overridden(TriggerStateOf(was), r.fields),
         r.call # "SetTrigger" => Same(was, is, "TRIGGER", TriggerControls),
         r.call \notin {"SetTrigger", "Acquire"} => Same(was, is, "ACQUIRE", {"STATUS"}),
         r.call = "Acquire" => is[<<"ACQUIRE", "STATUS">>] = r.status
  PROVE  Applied(r, StateOf(was), StateOf(is))
<1>1. /\ ChannelNames[1] = "CH1" /\ ChannelNames[2] = "CH2"
      /\ \A i \in 1..2 : ChannelNames[i] \in {"CH1", "CH2"}
  BY DEF ChannelNames
<1>2. \A s : /\ \A i \in 1..2 : StateOf(s).channels[i] = ChannelStateOf(s, ChannelNames[i])
             /\ StateOf(s).acquisition = AcquisitionStateOf(s)
             /\ StateOf(s).horizontal = HorizontalStateOf(s) /\ StateOf(s).trigger = TriggerStateOf(s)
  BY <1>1 DEF StateOf
<1>3. ASSUME NEW i \in 1..2
      PROVE  Shown(StateOf(is).channels[i]) =
               IF r.call = "SetChannel" /\ r.fields["channel"] = i
               THEN Overridden(StateOf(was).channels[i], r.fields)
               ELSE Shown(StateOf(was).channels[i])
  <2>1. CASE r.call = "SetChannel" /\ r.fields["channel"] = i
    BY <1>2, <2>1
  <2>2. CASE ~(r.call = "SetChannel" /\ r.fields["channel"] = i)
    <3>1. ChannelStateOf(is, ChannelNames[i]) = ChannelStateOf(was, ChannelNames[i])
      BY <1>1, <2>2, SameStates
    <3>2. QED
      BY <1>2, <2>2, <3>1
  <2>3. QED
    BY <2>1, <2>2
<1>4. Shown(StateOf(is).acquisition) =
        IF r.call = "SetAcquisition" THEN Overridden(StateOf(was).acquisition, r.fields)
        ELSE Shown(StateOf(was).acquisition)
  BY <1>2, SameStates
<1>5. Shown(StateOf(is).horizontal) =
        IF r.call = "SetHorizontal" THEN Overridden(StateOf(was).horizontal, r.fields)
        ELSE Shown(StateOf(was).horizontal)
  BY <1>2, SameStates
<1>6. Shown(StateOf(is).trigger) =
        CASE r.call = "SetTrigger" -> Overridden(StateOf(was).trigger, r.fields)
          [] r.call = "Acquire" -> [StateOf(was).trigger EXCEPT !.status = r.status]
          [] OTHER -> Shown(StateOf(was).trigger)
  <2>1. CASE r.call = "SetTrigger"
    BY <1>2, <2>1
  <2>2. CASE r.call = "Acquire"
    <3>1. Same(was, is, "TRIGGER", TriggerControls) /\ is[<<"ACQUIRE", "STATUS">>] = r.status
      BY <2>2
    <3>2. TriggerStateOf(is) = [TriggerStateOf(was) EXCEPT !.status = r.status]
      BY <3>1 DEF Same, TriggerControls, TriggerStateOf
    <3>3. Shown(TriggerStateOf(is)) = TriggerStateOf(is)
      BY DEF Shown, TriggerStateOf
    <3>4. QED
      BY <1>2, <2>2, <3>2, <3>3
  <2>3. CASE r.call \notin {"SetTrigger", "Acquire"}
    <3>1. TriggerStateOf(is) = TriggerStateOf(was)
      BY <2>3, SameStates
    <3>2. QED
      BY <1>2, <2>3, <3>1
  <2>4. QED
    BY <2>1, <2>2, <2>3
<1>7. QED
  BY <1>3, <1>4, <1>5, <1>6 DEF Applied

LEMMA ChannelApplied ==
  ASSUME NEW r, Typed(r), r.call = "SetChannel", Plan(r).error = "ok",
         NEW was, NEW is, Took(ChannelCommands(r), was, is)
  PROVE  Applied(r, StateOf(was), StateOf(is))
<1> DEFINE fields == r.fields
           F == MessageFields["SetChannel"]
           p == ChannelPatchFromProto(fields)
           name == ChannelNames[p["channel"]]
<1>1. p = Converted(fields, F)
  BY DEF ChannelPatchFromProto, MessageFields
<1>2. DOMAIN fields \subseteq F /\ Has(fields, "channel") /\ In(fields, "display", BOOLEAN)
  BY DEF Typed, MessageFields
<1>3. CompileChannel(p).error = "ok"
  BY DEF Plan, SetChannel, Planned, Refusal
<1>4. /\ p["channel"] \in 1..2 /\ p["channel"] = fields["channel"] /\ name \in {"CH1", "CH2"}
      /\ In(fields, "coupling", 1..3)
  <2>1. ValidChannelPatch(p)
    BY <1>3 DEF CompileChannel, Refused
  <2>2. "channel" \in F /\ "coupling" \in F
    BY DEF MessageFields
  <2>3. p["channel"] = fields["channel"]
    BY <1>1, <1>2, <2>2, ConvertedField
  <2>4. p["channel"] \in 1..2 /\ In(p, "coupling", 1..3)
    BY <2>1 DEF ValidChannelPatch, Channels, Couplings
  <2>5. In(fields, "coupling", 1..3)
    BY <1>1, <2>2, <2>4, ConvertedField DEF In
  <2>6. QED
    BY <2>3, <2>4, <2>5 DEF ChannelNames
<1>5. Took(RowCommands(Converted(fields, F), name, ChannelRows), was, is)
  BY <1>1 DEF ChannelCommands
<1>6. /\ DOMAIN ChannelRows = 1..5
      /\ ChannelRows[1] = <<"display", "DISPLAY">> /\ ChannelRows[2] = <<"coupling", "COUPLING">>
      /\ ChannelRows[3] = <<"probeAttenuation", "PROBE">> /\ ChannelRows[4] = <<"scale", "SCALE">>
      /\ ChannelRows[5] = <<"offsetDivisions", "OFFSET">>
  BY DEF ChannelRows
<1>7. Table(ChannelRows, 5)
  BY <1>6 DEF Table
<1>8. F = {"channel", "display", "coupling", "probeAttenuation", "scale", "offsetDivisions",
           "bandwidthLimit", "inversion"}
  BY DEF MessageFields
<1>9. \A control \in ChannelControls : <<name, control>> \in HeaderSettings
  BY <1>4, SettingsShown
<1> HIDE DEF p, name, F
<1>10. ASSUME NEW i \in 1..5, NEW f \in F, NEW control \in ChannelControls,
              ChannelRows[i] = <<f, control>>
       PROVE  is[<<name, control>>] =
                IF Has(fields, f) THEN Token(f, fields[f]) ELSE was[<<name, control>>]
  <2>1. 5 \in Nat /\ <<name, control>> \in HeaderSettings
    BY <1>9
  <2> HIDE DEF fields
  <2>2. QED
    BY <1>5, <1>6, <1>7, <1>10, <2>1, RowsOfFields
<1>11. /\ \A f \in {"display", "coupling", "probeAttenuation", "scale", "offsetDivisions"} : f \in F
       /\ ChannelControls = {"DISPLAY", "COUPLING", "PROBE", "SCALE", "OFFSET"}
  BY <1>8 DEF ChannelControls
<1> DEFINE now == ChannelStateOf(is, name)
           then == ChannelStateOf(was, name)
           K == {"channel", "display", "coupling", "probeAttenuation", "scale", "screenHeaderOffset"}
<1>12. DOMAIN now = K /\ DOMAIN then = K
  BY DEF ChannelStateOf
<1>13. ASSUME NEW f \in {"channel", "display", "coupling", "probeAttenuation", "scale", "offsetDivisions"}
       PROVE  Overridden(then, fields)[StateName(f)] =
                IF Has(fields, f) THEN StateValue(fields, f) ELSE Shown(then)[StateName(f)]
  <2>1. f \in F /\ NamedAlone(f, F) /\ StateName(f) \in K
    BY <1>8 DEF StateName, NamedAlone
  <2>2. StateName(f) \in DOMAIN then
    BY <1>12, <2>1
  <2> HIDE DEF then, fields, K
  <2>3. QED
    BY <1>2, <2>1, <2>2, OverriddenAt
<1>14. /\ now["channel"] = ChannelOf[name] /\ then["channel"] = ChannelOf[name]
       /\ now["display"] = BooleanOf[is[<<name, "DISPLAY">>]]
       /\ then["display"] = BooleanOf[was[<<name, "DISPLAY">>]]
       /\ now["coupling"] = CouplingOf[is[<<name, "COUPLING">>]]
       /\ then["coupling"] = CouplingOf[was[<<name, "COUPLING">>]]
       /\ now["probeAttenuation"] = is[<<name, "PROBE">>]
       /\ then["probeAttenuation"] = was[<<name, "PROBE">>]
       /\ now["scale"].value = is[<<name, "SCALE">>] /\ then["scale"].value = was[<<name, "SCALE">>]
       /\ now["screenHeaderOffset"] = is[<<name, "OFFSET">>]
       /\ then["screenHeaderOffset"] = was[<<name, "OFFSET">>]
  BY DEF ChannelStateOf
<1> HIDE DEF now, then
<1>15. Shown(now)["channel"] = Overridden(then, fields)["channel"]
  <2>1. ChannelOf[name] = fields["channel"]
    BY <1>4 DEF name, ChannelNames, ChannelOf
  <2>2. StateName("channel") = "channel" /\ StateValue(fields, "channel") = fields["channel"]
    BY DEF StateName, StateValue
  <2>3. QED
    BY <1>2, <1>12, <1>13, <1>14, <2>1, <2>2, ShownAt
<1>16. Shown(now)["display"] = Overridden(then, fields)["display"]
  <2>1. StateName("display") = "display" /\ StateValue(fields, "display") = fields["display"]
    BY DEF StateName, StateValue
  <2>2. is[<<name, "DISPLAY">>] =
          IF Has(fields, "display") THEN Token("display", fields["display"])
          ELSE was[<<name, "DISPLAY">>]
    BY <1>6, <1>10, <1>11
  <2>3. Has(fields, "display") => BooleanOf[Token("display", fields["display"])] = fields["display"]
    BY <1>2 DEF In, Token, OnOff, BooleanOf
  <2>4. QED
    BY <1>12, <1>13, <1>14, <2>1, <2>2, <2>3, ShownAt
<1>17. Shown(now)["coupling"] = Overridden(then, fields)["coupling"]
  <2>1. StateName("coupling") = "coupling" /\ StateValue(fields, "coupling") = fields["coupling"]
    BY DEF StateName, StateValue
  <2>2. is[<<name, "COUPLING">>] =
          IF Has(fields, "coupling") THEN Token("coupling", fields["coupling"])
          ELSE was[<<name, "COUPLING">>]
    BY <1>6, <1>10, <1>11
  <2>3. Has(fields, "coupling") => CouplingOf[Token("coupling", fields["coupling"])] = fields["coupling"]
    BY <1>4 DEF In, Token, CouplingTokens, CouplingOf
  <2>4. QED
    BY <1>12, <1>13, <1>14, <2>1, <2>2, <2>3, ShownAt
<1>18. Shown(now)["probeAttenuation"] = Overridden(then, fields)["probeAttenuation"]
  <2>1. /\ StateName("probeAttenuation") = "probeAttenuation"
        /\ StateValue(fields, "probeAttenuation") = fields["probeAttenuation"]
        /\ Token("probeAttenuation", fields["probeAttenuation"]) = fields["probeAttenuation"]
    BY DEF StateName, StateValue, Token
  <2>2. is[<<name, "PROBE">>] =
          IF Has(fields, "probeAttenuation")
          THEN Token("probeAttenuation", fields["probeAttenuation"]) ELSE was[<<name, "PROBE">>]
    BY <1>6, <1>10, <1>11
  <2>3. QED
    BY <1>12, <1>13, <1>14, <2>1, <2>2, ShownAt
<1>19. Shown(now)["scale"] = Overridden(then, fields)["scale"]
  <2>1. /\ StateName("scale") = "scale" /\ StateValue(fields, "scale") = fields["scale"].value
        /\ Token("scale", fields["scale"]) = fields["scale"].value
    BY DEF StateName, StateValue, Token
  <2>2. is[<<name, "SCALE">>] =
          IF Has(fields, "scale") THEN Token("scale", fields["scale"]) ELSE was[<<name, "SCALE">>]
    BY <1>6, <1>10, <1>11
  <2>3. QED
    BY <1>12, <1>13, <1>14, <2>1, <2>2, ShownAt
<1>20. Shown(now)["screenHeaderOffset"] = Overridden(then, fields)["screenHeaderOffset"]
  <2>1. /\ StateName("offsetDivisions") = "screenHeaderOffset"
        /\ StateValue(fields, "offsetDivisions") = fields["offsetDivisions"]
        /\ Token("offsetDivisions", fields["offsetDivisions"]) = fields["offsetDivisions"]
    BY DEF StateName, StateValue, Token
  <2>2. is[<<name, "OFFSET">>] =
          IF Has(fields, "offsetDivisions")
          THEN Token("offsetDivisions", fields["offsetDivisions"]) ELSE was[<<name, "OFFSET">>]
    BY <1>6, <1>10, <1>11
  <2>3. QED
    BY <1>12, <1>13, <1>14, <2>1, <2>2, ShownAt
<1>21. Shown(now) = Overridden(then, fields)
  BY <1>12, <1>15, <1>16, <1>17, <1>18, <1>19, <1>20, OverriddenWhole
<1>22. \A setting \in HeaderSettings :
         (\A i \in 1..5 : setting # <<name, ChannelRows[i][2]>>) => is[setting] = was[setting]
  <2>1. 5 \in Nat
    OBVIOUS
  <2> HIDE DEF fields
  <2>2. QED
    BY <1>5, <1>6, <1>7, <2>1, RowsTake
<1>23. ASSUME NEW subsystem \in {"CH1", "CH2", "ACQUIRE", "HORIZONTAL", "TRIGGER"}, subsystem # name,
              NEW controls, \A control \in controls : <<subsystem, control>> \in HeaderSettings
       PROVE  Same(was, is, subsystem, controls)
  BY <1>22, <1>23 DEF Same
<1>24. ASSUME NEW i \in 1..2
       PROVE  /\ fields["channel"] = i => Shown(ChannelStateOf(is, ChannelNames[i])) =
                                            Overridden(ChannelStateOf(was, ChannelNames[i]), fields)
              /\ fields["channel"] # i => Same(was, is, ChannelNames[i], ChannelControls)
  <2>1. CASE fields["channel"] = i
    BY <1>4, <1>21, <2>1 DEF name, now, then
  <2>2. CASE fields["channel"] # i
    <3>1. ChannelNames[i] # name /\ ChannelNames[i] \in {"CH1", "CH2"}
      BY <1>4, <2>2 DEF name, ChannelNames
    <3>2. QED
      BY <1>23, <2>2, <3>1, SettingsShown
  <2>3. QED
    BY <2>1, <2>2
<1>25. /\ Same(was, is, "ACQUIRE", {"MODE", "DEPMEM"}) /\ Same(was, is, "ACQUIRE", {"STATUS"})
       /\ Same(was, is, "HORIZONTAL", {"SCALE", "OFFSET"})
       /\ Same(was, is, "TRIGGER", TriggerControls)
  BY <1>4, <1>23, SettingsShown
<1>26. QED
  BY <1>24, <1>25, PartsApplied

LEMMA SameElsewhere ==
  ASSUME NEW p, NEW subsystem, NEW rows, NEW m, Table(rows, m),
         NEW was, NEW is, Took(RowCommands(p, subsystem, rows), was, is),
         NEW other, NEW controls,
         \A control \in controls :
           /\ <<other, control>> \in HeaderSettings
           /\ other # subsystem \/ \A i \in 1..m : control # rows[i][2]
  PROVE  Same(was, is, other, controls)
<1>1. ASSUME NEW control \in controls PROVE is[<<other, control>>] = was[<<other, control>>]
  <2>1. \A i \in 1..m : <<other, control>> # <<subsystem, rows[i][2]>>
    OBVIOUS
  <2>2. QED
    BY <2>1, RowsTake
<1>2. QED
  BY <1>1 DEF Same

LEMMA AcquisitionApplied ==
  ASSUME NEW r, Typed(r), r.call = "SetAcquisition", Plan(r).error = "ok",
         NEW was, NEW is, Took(AcquisitionCommands(r), was, is)
  PROVE  Applied(r, StateOf(was), StateOf(is))
<1> DEFINE fields == r.fields
           F == MessageFields["SetAcquisition"]
           p == AcquisitionPatchFromProto(fields)
<1>1. p = Converted(fields, F) /\ F = {"mode", "averageCount", "memoryDepth"}
  BY DEF AcquisitionPatchFromProto, MessageFields
<1>2. DOMAIN fields \subseteq F
  BY DEF Typed, MessageFields
<1>3. CompileAcquisition(p).error = "ok"
  BY DEF Plan, SetAcquisition, Planned, Refusal
<1>4. In(fields, "mode", 1..3)
  <2>1. In(p, "mode", 1..3)
    BY <1>3 DEF CompileAcquisition, Refused, ValidAcquisitionPatch, AcquisitionModes
  <2> HIDE DEF p, F
  <2>2. QED
    BY <1>1, <2>1, ConvertedField DEF In
<1>5. Took(RowCommands(Converted(fields, F), "ACQUIRE", AcquisitionRows), was, is)
  BY <1>1 DEF AcquisitionCommands
<1>6. /\ AcquisitionRows[1] = <<"mode", "MODE">> /\ AcquisitionRows[2] = <<"memoryDepth", "DEPMEM">>
      /\ Table(AcquisitionRows, 2)
  BY DEF AcquisitionRows, Table
<1>7. <<"ACQUIRE", "MODE">> \in HeaderSettings /\ <<"ACQUIRE", "DEPMEM">> \in HeaderSettings
  BY SettingsShown
<1> HIDE DEF p, F
<1>8. /\ is[<<"ACQUIRE", "MODE">>] =
           IF Has(fields, "mode") THEN Token("mode", fields["mode"]) ELSE was[<<"ACQUIRE", "MODE">>]
      /\ is[<<"ACQUIRE", "DEPMEM">>] =
           IF Has(fields, "memoryDepth") THEN Token("memoryDepth", fields["memoryDepth"])
           ELSE was[<<"ACQUIRE", "DEPMEM">>]
  <2> HIDE DEF fields
  <2>1. "mode" \in F /\ "memoryDepth" \in F
    BY <1>1
  <2>2. QED
    BY <1>5, <1>6, <1>7, <2>1, RowsOfFields
<1> DEFINE now == AcquisitionStateOf(is)
           then == AcquisitionStateOf(was)
           K == {"mode", "memoryDepth"}
<1>9. /\ DOMAIN now = K /\ DOMAIN then = K
      /\ now["mode"] = AcquisitionModeOf[is[<<"ACQUIRE", "MODE">>]]
      /\ then["mode"] = AcquisitionModeOf[was[<<"ACQUIRE", "MODE">>]]
      /\ now["memoryDepth"] = is[<<"ACQUIRE", "DEPMEM">>]
      /\ then["memoryDepth"] = was[<<"ACQUIRE", "DEPMEM">>]
  BY DEF AcquisitionStateOf
<1> HIDE DEF now, then
<1>10. ASSUME NEW f \in K
       PROVE  /\ StateName(f) = f
              /\ Overridden(then, fields)[f] =
                   IF Has(fields, f) THEN StateValue(fields, f) ELSE Shown(then)[f]
  <2>1. StateName(f) = f /\ f \in F /\ NamedAlone(f, F)
    BY <1>1 DEF StateName, NamedAlone
  <2>2. StateName(f) \in DOMAIN then
    BY <1>9, <2>1
  <2> HIDE DEF fields, K
  <2>3. QED
    BY <1>2, <2>1, <2>2, OverriddenAt
<1>11. Shown(now)["mode"] = Overridden(then, fields)["mode"]
  <2>1. StateValue(fields, "mode") = fields["mode"]
    BY DEF StateValue
  <2>2. Has(fields, "mode") => AcquisitionModeOf[Token("mode", fields["mode"])] = fields["mode"]
    BY <1>4 DEF In, Token, AcquisitionModeTokens, AcquisitionModeOf
  <2>3. QED
    BY <1>8, <1>9, <1>10, <2>1, <2>2, ShownAt
<1>12. Shown(now)["memoryDepth"] = Overridden(then, fields)["memoryDepth"]
  <2>1. StateValue(fields, "memoryDepth") = Token("memoryDepth", fields["memoryDepth"])
    BY DEF StateValue, Token
  <2>2. QED
    BY <1>8, <1>9, <1>10, <2>1, ShownAt
<1>13. Shown(now) = Overridden(then, fields)
  BY <1>9, <1>11, <1>12, OverriddenWhole
<1>14. /\ \A i \in 1..2 : Same(was, is, ChannelNames[i], ChannelControls)
       /\ Same(was, is, "ACQUIRE", {"STATUS"}) /\ Same(was, is, "HORIZONTAL", {"SCALE", "OFFSET"})
       /\ Same(was, is, "TRIGGER", TriggerControls)
  <2>1. \A i \in 1..2 : AcquisitionRows[i][2] # "STATUS"
    BY <1>6
  <2>2. \A i \in 1..2 : ChannelNames[i] \in {"CH1", "CH2"}
    BY DEF ChannelNames
  <2> HIDE DEF fields
  <2>3. \A i \in 1..2 : Same(was, is, ChannelNames[i], ChannelControls)
    BY <1>5, <1>6, <2>2, SameElsewhere, SettingsShown
  <2>4. Same(was, is, "ACQUIRE", {"STATUS"})
    BY <1>5, <1>6, <2>1, SameElsewhere, SettingsShown
  <2>5. Same(was, is, "HORIZONTAL", {"SCALE", "OFFSET"}) /\ Same(was, is, "TRIGGER", TriggerControls)
    BY <1>5, <1>6, SameElsewhere, SettingsShown
  <2>6. QED
    BY <2>3, <2>4, <2>5
<1>15. QED
  BY <1>13, <1>14, PartsApplied DEF now, then

LEMMA HorizontalApplied ==
  ASSUME NEW r, Typed(r), r.call = "SetHorizontal",
         NEW was, NEW is, Took(HorizontalCommands(r), was, is)
  PROVE  Applied(r, StateOf(was), StateOf(is))
<1> DEFINE fields == r.fields
           F == MessageFields["SetHorizontal"]
<1>1. HorizontalPatchFromProto(fields) = Converted(fields, F) /\ F = {"scale", "offsetDivisions"}
  BY DEF HorizontalPatchFromProto, MessageFields
<1>2. DOMAIN fields \subseteq F
  BY DEF Typed, MessageFields
<1>3. Took(RowCommands(Converted(fields, F), "HORIZONTAL", HorizontalRows), was, is)
  BY <1>1 DEF HorizontalCommands
<1>4. /\ HorizontalRows[1] = <<"scale", "SCALE">> /\ HorizontalRows[2] = <<"offsetDivisions", "OFFSET">>
      /\ Table(HorizontalRows, 2)
  BY DEF HorizontalRows, Table
<1>5. <<"HORIZONTAL", "SCALE">> \in HeaderSettings /\ <<"HORIZONTAL", "OFFSET">> \in HeaderSettings
  BY SettingsShown
<1> HIDE DEF F
<1>6. /\ is[<<"HORIZONTAL", "SCALE">>] =
           IF Has(fields, "scale") THEN Token("scale", fields["scale"]) ELSE was[<<"HORIZONTAL", "SCALE">>]
      /\ is[<<"HORIZONTAL", "OFFSET">>] =
           IF Has(fields, "offsetDivisions") THEN Token("offsetDivisions", fields["offsetDivisions"])
           ELSE was[<<"HORIZONTAL", "OFFSET">>]
  <2> HIDE DEF fields
  <2>1. "scale" \in F /\ "offsetDivisions" \in F
    BY <1>1
  <2>2. QED
    BY <1>3, <1>4, <1>5, <2>1, RowsOfFields
<1> DEFINE now == HorizontalStateOf(is)
           then == HorizontalStateOf(was)
           K == {"scale", "screenHeaderOffset"}
<1>7. /\ DOMAIN now = K /\ DOMAIN then = K
      /\ now["scale"].value = is[<<"HORIZONTAL", "SCALE">>]
      /\ then["scale"].value = was[<<"HORIZONTAL", "SCALE">>]
      /\ now["screenHeaderOffset"] = is[<<"HORIZONTAL", "OFFSET">>]
      /\ then["screenHeaderOffset"] = was[<<"HORIZONTAL", "OFFSET">>]
  BY DEF HorizontalStateOf
<1> HIDE DEF now, then
<1>8. ASSUME NEW f \in F
       PROVE  Overridden(then, fields)[StateName(f)] =
                IF Has(fields, f) THEN StateValue(fields, f) ELSE Shown(then)[StateName(f)]
  <2>1. NamedAlone(f, F) /\ StateName(f) \in K
    BY <1>1 DEF StateName, NamedAlone
  <2>2. StateName(f) \in DOMAIN then
    BY <1>7, <2>1
  <2> HIDE DEF fields, K
  <2>3. QED
    BY <1>2, <2>1, <2>2, OverriddenAt
<1>9. Shown(now)["scale"] = Overridden(then, fields)["scale"]
  <2>1. /\ StateName("scale") = "scale"
        /\ StateValue(fields, "scale") = Token("scale", fields["scale"])
    BY DEF StateName, StateValue, Token
  <2>2. QED
    BY <1>1, <1>6, <1>7, <1>8, <2>1, ShownAt
<1>10. Shown(now)["screenHeaderOffset"] = Overridden(then, fields)["screenHeaderOffset"]
  <2>1. /\ StateName("offsetDivisions") = "screenHeaderOffset"
        /\ StateValue(fields, "offsetDivisions") = Token("offsetDivisions", fields["offsetDivisions"])
    BY DEF StateName, StateValue, Token
  <2>2. QED
    BY <1>1, <1>6, <1>7, <1>8, <2>1, ShownAt
<1>11. Shown(now) = Overridden(then, fields)
  BY <1>7, <1>9, <1>10, OverriddenWhole
<1>12. /\ \A i \in 1..2 : Same(was, is, ChannelNames[i], ChannelControls)
       /\ Same(was, is, "ACQUIRE", {"MODE", "DEPMEM"}) /\ Same(was, is, "ACQUIRE", {"STATUS"})
       /\ Same(was, is, "TRIGGER", TriggerControls)
  <2>1. \A i \in 1..2 : ChannelNames[i] \in {"CH1", "CH2"}
    BY DEF ChannelNames
  <2> HIDE DEF fields
  <2>2. \A i \in 1..2 : Same(was, is, ChannelNames[i], ChannelControls)
    BY <1>3, <1>4, <2>1, SameElsewhere, SettingsShown
  <2>3. /\ Same(was, is, "ACQUIRE", {"MODE", "DEPMEM"}) /\ Same(was, is, "ACQUIRE", {"STATUS"})
        /\ Same(was, is, "TRIGGER", TriggerControls)
    BY <1>3, <1>4, SameElsewhere, SettingsShown
  <2>4. QED
    BY <2>2, <2>3
<1>13. QED
  BY <1>11, <1>12, PartsApplied DEF now, then

LEMMA TriggerApplied ==
  ASSUME NEW r, Typed(r), r.call = "SetTrigger", Plan(r).error = "ok",
         NEW was, NEW is, Took(TriggerCommands(r), was, is)
  PROVE  Applied(r, StateOf(was), StateOf(is))
<1> DEFINE fields == r.fields
           F == MessageFields["SetTrigger"]
           p == TriggerPatchFromProto(fields)
<1>1. p = Converted(fields, F) /\ F = {"source", "coupling", "slope", "levelVolts", "sweep"}
  BY DEF TriggerPatchFromProto, MessageFields
<1>2. DOMAIN fields \subseteq F
  BY DEF Typed, MessageFields
<1>3. CompileTrigger(p).error = "ok"
  BY DEF Plan, SetTrigger, Planned, Refusal
<1>4. /\ In(fields, "source", 1..2) /\ In(fields, "coupling", 1..2)
      /\ In(fields, "slope", 1..2) /\ In(fields, "sweep", 1..3)
  <2>1. /\ In(p, "source", DOMAIN TriggerSourceTokens) /\ In(p, "coupling", DOMAIN TriggerCouplingTokens)
        /\ ValidTriggerPatch(p)
    BY <1>3 DEF CompileTrigger, Refused
  <2>2. /\ In(p, "source", 1..2) /\ In(p, "coupling", 1..2)
        /\ In(p, "slope", 1..2) /\ In(p, "sweep", 1..3)
    BY <2>1 DEF ValidTriggerPatch, TriggerSourceTokens, TriggerCouplingTokens, TriggerSlopes,
                TriggerSweeps
  <2> HIDE DEF p, F
  <2>3. QED
    BY <1>1, <2>2, ConvertedField DEF In
<1>5. Took(RowCommands(Converted(fields, F), "TRIGGER", TriggerRows), was, is)
  BY <1>1 DEF TriggerCommands
<1>6. /\ TriggerRows[1] = <<"source", "SOURCE">> /\ TriggerRows[2] = <<"coupling", "COUPLING">>
      /\ TriggerRows[3] = <<"slope", "EDGE">> /\ TriggerRows[4] = <<"levelVolts", "LEVEL">>
      /\ TriggerRows[5] = <<"sweep", "SWEEP">>
  BY DEF TriggerRows
<1>7. Table(TriggerRows, 5)
  <2>1. DOMAIN TriggerRows = 1..5
    BY DEF TriggerRows
  <2>2. QED
    BY <1>6, <2>1 DEF Table
<1> HIDE DEF p, F
<1>8. ASSUME NEW i \in 1..5, NEW f \in F, NEW control \in TriggerControls,
             TriggerRows[i] = <<f, control>>
      PROVE  is[<<"TRIGGER", control>>] =
               IF Has(fields, f) THEN Token(f, fields[f]) ELSE was[<<"TRIGGER", control>>]
  <2>1. <<"TRIGGER", control>> \in HeaderSettings
    BY SettingsShown
  <2> HIDE DEF fields
  <2>2. QED
    BY <1>5, <1>7, <1>8, <2>1, RowsOfFields
<1>9. TriggerControls = {"SOURCE", "COUPLING", "EDGE", "LEVEL", "SWEEP"}
  BY DEF TriggerControls
<1>10. Same(was, is, "ACQUIRE", {"MODE", "DEPMEM"}) /\ Same(was, is, "ACQUIRE", {"STATUS"})
  <2> HIDE DEF fields
  <2>1. QED
    BY <1>5, <1>7, SameElsewhere, SettingsShown
<1> DEFINE now == TriggerStateOf(is)
           then == TriggerStateOf(was)
           K == {"source", "coupling", "slope", "level", "sweep", "status"}
<1>11. /\ DOMAIN now = K /\ DOMAIN then = K
       /\ now["source"] = TriggerSourceOf[is[<<"TRIGGER", "SOURCE">>]]
       /\ then["source"] = TriggerSourceOf[was[<<"TRIGGER", "SOURCE">>]]
       /\ now["coupling"] = CouplingOf[is[<<"TRIGGER", "COUPLING">>]]
       /\ then["coupling"] = CouplingOf[was[<<"TRIGGER", "COUPLING">>]]
       /\ now["slope"] = TriggerSlopeOf[is[<<"TRIGGER", "EDGE">>]]
       /\ then["slope"] = TriggerSlopeOf[was[<<"TRIGGER", "EDGE">>]]
       /\ now["level"] = is[<<"TRIGGER", "LEVEL">>] /\ then["level"] = was[<<"TRIGGER", "LEVEL">>]
       /\ now["sweep"] = TriggerSweepOf[is[<<"TRIGGER", "SWEEP">>]]
       /\ then["sweep"] = TriggerSweepOf[was[<<"TRIGGER", "SWEEP">>]]
       /\ now["status"] = is[<<"ACQUIRE", "STATUS">>] /\ then["status"] = was[<<"ACQUIRE", "STATUS">>]
  BY DEF TriggerStateOf
<1> HIDE DEF now, then
<1>12. ASSUME NEW f \in F
       PROVE  Overridden(then, fields)[StateName(f)] =
                IF Has(fields, f) THEN StateValue(fields, f) ELSE Shown(then)[StateName(f)]
  <2>1. NamedAlone(f, F) /\ StateName(f) \in K
    BY <1>1 DEF StateName, NamedAlone
  <2>2. StateName(f) \in DOMAIN then
    BY <1>11, <2>1
  <2> HIDE DEF fields, K
  <2>3. QED
    BY <1>2, <2>1, <2>2, OverriddenAt
<1>13. \A k \in K : Shown(now)[k] = now[k] /\ Shown(then)[k] = then[k]
  <2>1. \A k \in K : k # "scale"
    OBVIOUS
  <2> HIDE DEF K
  <2>2. QED
    BY <1>11, <2>1, ShownAt
<1>14. Shown(now)["source"] = Overridden(then, fields)["source"]
  <2>1. StateName("source") = "source" /\ StateValue(fields, "source") = fields["source"]
    BY DEF StateName, StateValue
  <2>2. is[<<"TRIGGER", "SOURCE">>] =
          IF Has(fields, "source") THEN Token("source", fields["source"])
          ELSE was[<<"TRIGGER", "SOURCE">>]
    BY <1>1, <1>6, <1>8, <1>9
  <2>3. Has(fields, "source") => TriggerSourceOf[Token("source", fields["source"])] = fields["source"]
    BY <1>4 DEF In, Token, TriggerSourceTokens, TriggerSourceOf
  <2>4. QED
    BY <1>1, <1>11, <1>12, <1>13, <2>1, <2>2, <2>3
<1>15. Shown(now)["coupling"] = Overridden(then, fields)["coupling"]
  <2>1. StateName("coupling") = "coupling" /\ StateValue(fields, "coupling") = fields["coupling"]
    BY DEF StateName, StateValue
  <2>2. is[<<"TRIGGER", "COUPLING">>] =
          IF Has(fields, "coupling") THEN Token("coupling", fields["coupling"])
          ELSE was[<<"TRIGGER", "COUPLING">>]
    BY <1>1, <1>6, <1>8, <1>9
  <2>3. Has(fields, "coupling") => CouplingOf[Token("coupling", fields["coupling"])] = fields["coupling"]
    BY <1>4 DEF In, Token, CouplingTokens, CouplingOf
  <2>4. QED
    BY <1>1, <1>11, <1>12, <1>13, <2>1, <2>2, <2>3
<1>16. Shown(now)["slope"] = Overridden(then, fields)["slope"]
  <2>1. StateName("slope") = "slope" /\ StateValue(fields, "slope") = fields["slope"]
    BY DEF StateName, StateValue
  <2>2. is[<<"TRIGGER", "EDGE">>] =
          IF Has(fields, "slope") THEN Token("slope", fields["slope"])
          ELSE was[<<"TRIGGER", "EDGE">>]
    BY <1>1, <1>6, <1>8, <1>9
  <2>3. Has(fields, "slope") => TriggerSlopeOf[Token("slope", fields["slope"])] = fields["slope"]
    BY <1>4 DEF In, Token, TriggerSlopeTokens, TriggerSlopeOf
  <2>4. QED
    BY <1>1, <1>11, <1>12, <1>13, <2>1, <2>2, <2>3
<1>17. Shown(now)["level"] = Overridden(then, fields)["level"]
  <2>1. /\ StateName("levelVolts") = "level"
        /\ StateValue(fields, "levelVolts") = Token("levelVolts", fields["levelVolts"])
    BY DEF StateName, StateValue, Token
  <2>2. is[<<"TRIGGER", "LEVEL">>] =
          IF Has(fields, "levelVolts") THEN Token("levelVolts", fields["levelVolts"])
          ELSE was[<<"TRIGGER", "LEVEL">>]
    BY <1>1, <1>6, <1>8, <1>9
  <2>3. QED
    BY <1>1, <1>11, <1>12, <1>13, <2>1, <2>2
<1>18. Shown(now)["sweep"] = Overridden(then, fields)["sweep"]
  <2>1. StateName("sweep") = "sweep" /\ StateValue(fields, "sweep") = fields["sweep"]
    BY DEF StateName, StateValue
  <2>2. is[<<"TRIGGER", "SWEEP">>] =
          IF Has(fields, "sweep") THEN Token("sweep", fields["sweep"])
          ELSE was[<<"TRIGGER", "SWEEP">>]
    BY <1>1, <1>6, <1>8, <1>9
  <2>3. Has(fields, "sweep") => TriggerSweepOf[Token("sweep", fields["sweep"])] = fields["sweep"]
    BY <1>4 DEF In, Token, TriggerSweepTokens, TriggerSweepOf
  <2>4. QED
    BY <1>1, <1>11, <1>12, <1>13, <2>1, <2>2, <2>3
<1>19. Shown(now)["status"] = Overridden(then, fields)["status"]
  <2>1. \A g \in F : StateName(g) # "status"
    BY <1>1 DEF StateName
  <2>2. "status" \in DOMAIN then /\ ~\E g \in DOMAIN fields : StateName(g) = "status"
    BY <1>2, <1>11, <2>1
  <2>3. Overridden(then, fields)["status"] = Shown(then)["status"]
    BY <2>2 DEF Overridden
  <2>4. is[<<"ACQUIRE", "STATUS">>] = was[<<"ACQUIRE", "STATUS">>]
    BY <1>10 DEF Same
  <2>5. QED
    BY <1>11, <1>13, <2>3, <2>4
<1>20. Shown(now) = Overridden(then, fields)
  BY <1>11, <1>14, <1>15, <1>16, <1>17, <1>18, <1>19, OverriddenWhole
<1>21. /\ \A i \in 1..2 : Same(was, is, ChannelNames[i], ChannelControls)
       /\ Same(was, is, "HORIZONTAL", {"SCALE", "OFFSET"})
  <2>1. \A i \in 1..2 : ChannelNames[i] \in {"CH1", "CH2"}
    BY DEF ChannelNames
  <2> HIDE DEF fields
  <2>2. \A i \in 1..2 : Same(was, is, ChannelNames[i], ChannelControls)
    BY <1>5, <1>7, <2>1, SameElsewhere, SettingsShown
  <2>3. Same(was, is, "HORIZONTAL", {"SCALE", "OFFSET"})
    BY <1>5, <1>7, SameElsewhere, SettingsShown
  <2>4. QED
    BY <2>2, <2>3
<1>22. QED
  BY <1>10, <1>20, <1>21, PartsApplied DEF now, then

\* A request whose writes the header does not show.
LEMMA UnshownApplied ==
  ASSUME NEW r, NEW was, NEW is, NEW W, Took(W, was, is), \A w \in W : w.set \notin HeaderSettings,
         r.call \notin {"SetChannel", "SetAcquisition", "SetHorizontal", "SetTrigger", "Acquire"}
  PROVE  Applied(r, StateOf(was), StateOf(is))
<1>1. \A setting \in HeaderSettings : is[setting] = was[setting]
  BY DEF Took
<1>2. \A i \in 1..2 : ChannelNames[i] \in {"CH1", "CH2"}
  BY DEF ChannelNames
<1>3. /\ \A i \in 1..2 : Same(was, is, ChannelNames[i], ChannelControls)
      /\ Same(was, is, "ACQUIRE", {"MODE", "DEPMEM"}) /\ Same(was, is, "ACQUIRE", {"STATUS"})
      /\ Same(was, is, "HORIZONTAL", {"SCALE", "OFFSET"})
      /\ Same(was, is, "TRIGGER", TriggerControls)
  BY <1>1, <1>2, SettingsShown DEF Same
<1>4. QED
  BY <1>3, PartsApplied

LEMMA ActionApplied ==
  ASSUME NEW r, r.call = "Acquire", NEW was, NEW is, Took(ActionCommands(r), was, is)
  PROVE  Applied(r, StateOf(was), StateOf(is))
<1>1. is[<<"ACQUIRE", "STATUS">>] = r.status
  BY DEF Took, ActionCommands
<1>2. \A setting \in HeaderSettings : setting # <<"ACQUIRE", "STATUS">> => is[setting] = was[setting]
  BY DEF Took, ActionCommands
<1>3. \A i \in 1..2 : ChannelNames[i] \in {"CH1", "CH2"}
  BY DEF ChannelNames
<1>4. /\ \A i \in 1..2 : Same(was, is, ChannelNames[i], ChannelControls)
      /\ Same(was, is, "ACQUIRE", {"MODE", "DEPMEM"})
      /\ Same(was, is, "HORIZONTAL", {"SCALE", "OFFSET"})
      /\ Same(was, is, "TRIGGER", TriggerControls)
  BY <1>2, <1>3, SettingsShown DEF Same
<1>5. QED
  BY <1>1, <1>4, PartsApplied

LEMMA RowsAreUnshown ==
  ASSUME NEW p, NEW subsystem \in {"MEASUREMENT", "GENERATOR", "DMM"}, NEW rows,
         NEW w \in RowCommands(p, subsystem, rows)
  PROVE  w.set \notin HeaderSettings
<1>1. PICK control : w.set = <<subsystem, control>>
  BY DEF RowCommands, Command
<1>2. \A setting \in HeaderSettings : setting[1] \in {"CH1", "CH2", "ACQUIRE", "HORIZONTAL", "TRIGGER"}
  BY DEF HeaderSettings
<1>3. QED
  BY <1>1, <1>2

\* What took of a request is what a snapshot then shows of it.
LEMMA AppliedHolds ==
  ASSUME NEW r, Typed(r), Plan(r).error = "ok", r.call # "Auto",
         NEW was, NEW is, Took(Commanded(r), was, is)
  PROVE  Applied(r, StateOf(was), StateOf(is))
<1>1. CASE r.call = "SetChannel"
  BY <1>1, ChannelApplied DEF Commanded
<1>2. CASE r.call = "SetAcquisition"
  BY <1>2, AcquisitionApplied DEF Commanded
<1>3. CASE r.call = "SetHorizontal"
  BY <1>3, HorizontalApplied DEF Commanded
<1>4. CASE r.call = "SetTrigger"
  BY <1>4, TriggerApplied DEF Commanded
<1>5. CASE r.call = "Acquire"
  BY <1>5, ActionApplied DEF Commanded
<1>6. CASE r.call \notin {"SetChannel", "SetAcquisition", "SetHorizontal", "SetTrigger", "Acquire"}
  <2>1. \/ Commanded(r) = MeasurementCommands(r) \/ Commanded(r) = GeneratorCommands(r)
        \/ Commanded(r) = DmmCommands(r) \/ Commanded(r) = {}
    BY <1>6 DEF Commanded
  <2>2. DMMFunctionCommand(DMMPatchFromProto(r.fields)).set = <<"DMM", "CONFIGURE">>
    BY DEF DMMFunctionCommand
  <2>3. <<"DMM", "CONFIGURE">> \notin HeaderSettings
    BY DEF HeaderSettings
  <2>4. \A w \in Commanded(r) : w.set \notin HeaderSettings
    BY <2>1, <2>2, <2>3, RowsAreUnshown DEF MeasurementCommands, GeneratorCommands, DmmCommands
  <2>5. QED
    BY <1>6, <2>4, UnshownApplied
<1>7. QED
  BY <1>1, <1>2, <1>3, <1>4, <1>5, <1>6

\* The range that the multimeter took reads back as the one that was asked for.
LEMMA RangeMeasured ==
  ASSUME NEW r, Plan(r).error = "ok", NEW was, Took(Commanded(r), was, settings)
  PROVE  MeasuresAsAsked(r)
<1> SUFFICES ASSUME r.call = "SetDmm", Has(r.fields, "range")
             PROVE  ParseDMMRange(<<IF settings[<<"DMM", "RANGE">>] = "mV" THEN "MV"
                                    ELSE settings[<<"DMM", "RANGE">>]>>).range = r.fields["range"]
  BY DEF MeasuresAsAsked
<1> DEFINE p == DMMPatchFromProto(r.fields)
           range == r.fields["range"]
           token == settings[<<"DMM", "RANGE">>]
           text == IF token = "mV" THEN "MV" ELSE token
<1>1. Has(p, "range") /\ p["range"] = range
  BY DEF DMMPatchFromProto, Converted, Has
<1>2. range \in 1..3
  <2>1. CompileDMM(p).error = "ok"
    BY DEF Plan, SetDmm, Planned, Refusal
  <2>2. ValidDMMPatch(p)
    BY <2>1 DEF CompileDMM, Refused
  <2>3. QED
    BY <1>1, <2>2 DEF ValidDMMPatch, In, DMMRanges
<1>3. token = DMMRangeTokens[range]
  <2>1. DmmRows[2] = <<"range", "RANGE">> /\ 2 \in DOMAIN DmmRows
    BY DEF DmmRows
  <2> HIDE DEF p, range
  <2>2. Command(p, "DMM", DmmRows[2]) = [set |-> <<"DMM", "RANGE">>, to |-> DMMRangeTokens[range]]
    BY <1>1, <2>1 DEF Command, Token
  <2>3. Command(p, "DMM", DmmRows[2]) \in RowCommands(p, "DMM", DmmRows)
    BY <1>1, <2>1 DEF RowCommands
  <2>4. Command(p, "DMM", DmmRows[2]) \in Commanded(r)
    BY <2>3 DEF Commanded, DmmCommands, p
  <2>5. QED
    BY <2>2, <2>4 DEF Took
<1> HIDE DEF range, token
<1>4. text \in DOMAIN DMMRangeOf /\ DMMRangeOf[text] = range
  BY <1>2, <1>3 DEF DMMRangeTokens, DMMRangeOf
<1> HIDE DEF text
<1>5. Len(<<text>>) = 1 /\ <<text>>[1] = text
  OBVIOUS
<1>6. ParseDMMRange(<<text>>).range = range
  BY <1>4, <1>5 DEF ParseDMMRange
<1>7. QED
  BY <1>6 DEF text, token, range

-----------------------------------------------------------------------------
(* What a snapshot shows of a channel can be sent back. *)

LEMMA VerdictOfAll ==
  ASSUME NEW checks, \A i \in DOMAIN checks : checks[i][1]
  PROVE  Verdict(checks) = "ok"
BY DEF Verdict

\* The fields of a state that a patch has too.
Shared == {"channel", "display", "coupling", "probeAttenuation", "scale"}

LEMMA ProbesArePositive == \A probe \in Probes : Positive(probe) /\ probe # 0
BY DEF Probes, Positive, Finite, NotFinite

LEMMA StatesCompile ==
  ASSUME NEW p, DOMAIN p = Shared, p["channel"] \in 1..2, p["coupling"] \in 1..3,
         p["probeAttenuation"] \in Probes, NEW value, p["scale"] = [value |-> value, form |-> "inside"],
         value \in ChannelScales(p["probeAttenuation"])
  PROVE  CompileChannel(p).error = "ok"
<1> DEFINE probe == p["probeAttenuation"]
           scale == NormalizedScale(p["scale"])
           checks == <<
             Supported(In(p, "probeAttenuation", Probes)),
             Supported(Has(p, "scale") => ValidChannelScale(scale, 0)),
             Supported(Has(p, "scale") /\ Has(p, "probeAttenuation") =>
                         ValidChannelScale(scale, probe)),
             Supported(In(p, "offsetDivisions", ChannelOffsets)),
             Offered(~Has(p, "bandwidthLimit")),
             Offered(~Has(p, "inversion"))>>
<1>1. ValidChannelPatch(p)
  BY ProbesArePositive DEF ValidChannelPatch, Shared, Channels, Couplings, In
<1>2. scale.form = "token" /\ scale.value = value
  BY DEF NormalizedScale
<1> HIDE DEF scale
<1>3. ValidChannelScale(scale, 0) /\ ValidChannelScale(scale, probe)
  BY <1>2, ProbesArePositive DEF ValidChannelScale
<1>4. /\ In(p, "probeAttenuation", Probes) /\ In(p, "offsetDivisions", ChannelOffsets)
      /\ ~Has(p, "bandwidthLimit") /\ ~Has(p, "inversion")
  BY DEF In, Has, Shared
<1>5. \A i \in DOMAIN checks : checks[i][1]
  <2>1. DOMAIN checks = 1..6
    OBVIOUS
  <2>2. /\ checks[1][1] = In(p, "probeAttenuation", Probes)
        /\ checks[2][1] = (Has(p, "scale") => ValidChannelScale(scale, 0))
        /\ checks[3][1] = (Has(p, "scale") /\ Has(p, "probeAttenuation") =>
                             ValidChannelScale(scale, probe))
    BY DEF Supported
  <2>3. /\ checks[4][1] = In(p, "offsetDivisions", ChannelOffsets)
        /\ checks[5][1] = ~Has(p, "bandwidthLimit") /\ checks[6][1] = ~Has(p, "inversion")
    BY DEF Supported, Offered
  <2> HIDE DEF checks
  <2>4. checks[1][1] /\ checks[2][1] /\ checks[3][1]
    BY <1>3, <1>4, <2>2, Zenon
  <2>5. checks[4][1] /\ checks[5][1] /\ checks[6][1]
    BY <1>4, <2>3, Zenon
  <2>6. QED
    BY <2>1, <2>4, <2>5
<1>6. Verdict(checks) = "ok"
  <2> HIDE DEF checks
  <2>1. QED
    BY <1>5, VerdictOfAll
<1>7. QED
  BY <1>1, <1>6 DEF CompileChannel, Accepted, scale

LEMMA Displays ==
  ASSUME NEW word \in {"ON", "OFF"}
  PROVE  BooleanOf[word] \in BOOLEAN /\ OnOff[BooleanOf[word]] = word
<1>1. BooleanOf["ON"] = TRUE /\ BooleanOf["OFF"] = FALSE
  BY DEF BooleanOf
<1>2. OnOff[TRUE] = "ON" /\ OnOff[FALSE] = "OFF"
  BY DEF OnOff
<1>3. CASE word = "ON"
  BY <1>1, <1>2, <1>3, Zenon
<1>4. CASE word = "OFF"
  BY <1>1, <1>2, <1>4, Zenon
<1>5. QED
  BY <1>3, <1>4

LEMMA WritesTheSame ==
  ASSUME NEW s, IsSetting(s), NEW name \in {"CH1", "CH2"}, NEW p, DOMAIN p = Shared,
         \A f \in Shared : p[f] = ChannelStateOf(s, name)[f],
         NEW i \in 1..5, Has(p, ChannelRows[i][1])
  PROVE  LET w == Command(p, name, ChannelRows[i])
         IN  w.set \in HeaderSettings /\ s[w.set] = w.to
<1> DEFINE w == Command(p, name, ChannelRows[i])
<1>1. /\ ChannelRows[1] = <<"display", "DISPLAY">> /\ ChannelRows[2] = <<"coupling", "COUPLING">>
      /\ ChannelRows[3] = <<"probeAttenuation", "PROBE">> /\ ChannelRows[4] = <<"scale", "SCALE">>
      /\ ChannelRows[5] = <<"offsetDivisions", "OFFSET">>
  BY DEF ChannelRows
<1>2. /\ p["display"] = BooleanOf[s[<<name, "DISPLAY">>]]
      /\ p["coupling"] = CouplingOf[s[<<name, "COUPLING">>]]
      /\ p["probeAttenuation"] = s[<<name, "PROBE">>] /\ p["scale"].value = s[<<name, "SCALE">>]
  BY DEF Shared, ChannelStateOf
<1>3. s[<<name, "DISPLAY">>] \in {"ON", "OFF"} /\ s[<<name, "COUPLING">>] \in {"AC", "DC", "GND"}
  BY SettingsAreLegal
<1>4. \A control \in ChannelControls : <<name, control>> \in HeaderSettings
  BY SettingsShown
<1>5. CASE i = 1
  <2>1. w.set = <<name, "DISPLAY">> /\ w.to = OnOff[p["display"]]
    BY <1>1, <1>5 DEF Command, Token
  <2>2. OnOff[p["display"]] = s[<<name, "DISPLAY">>]
    BY <1>2, <1>3, Displays, Zenon
  <2>3. QED
    BY <1>4, <2>1, <2>2 DEF ChannelControls
<1>6. CASE i = 2
  <2>1. w.set = <<name, "COUPLING">> /\ w.to = CouplingTokens[p["coupling"]]
    BY <1>1, <1>6 DEF Command, Token
  <2>2. CouplingTokens[p["coupling"]] = s[<<name, "COUPLING">>]
    BY <1>2, <1>3 DEF CouplingTokens, CouplingOf
  <2>3. QED
    BY <1>4, <2>1, <2>2 DEF ChannelControls
<1>7. CASE i = 3
  <2>1. w.set = <<name, "PROBE">> /\ w.to = p["probeAttenuation"]
    BY <1>1, <1>7 DEF Command, Token
  <2>2. QED
    BY <1>2, <1>4, <2>1 DEF ChannelControls
<1>8. CASE i = 4
  <2>1. w.set = <<name, "SCALE">> /\ w.to = p["scale"].value
    BY <1>1, <1>8 DEF Command, Token
  <2>2. QED
    BY <1>2, <1>4, <2>1 DEF ChannelControls
<1>9. i # 5
  BY <1>1 DEF Has, Shared
<1>10. QED
  BY <1>5, <1>6, <1>7, <1>8, <1>9

LEMMA SnapshotsGoBack ==
  ASSUME IsSetting(settings), NEW s, IsSetting(s),
         \A setting \in HeaderSettings : settings[setting] = s[setting]
  PROVE  CanBeSentBack(StateOf(s))
<1> SUFFICES ASSUME NEW i \in 1..2, ScaleFitsProbe(ChannelNames[i])
             PROVE  LET again == CompileChannel(ChannelPatchFromProto(
                                   Converted(StateOf(s).channels[i],
                                             {"channel", "display", "coupling",
                                              "probeAttenuation", "scale"})))
                    IN  /\ again.error = "ok"
                        /\ \A j \in DOMAIN again.writes :
                             settings[again.writes[j].set] = again.writes[j].to
  BY DEF CanBeSentBack
<1> DEFINE name == ChannelNames[i]
           state == ChannelStateOf(s, name)
           p == ChannelPatchFromProto(Converted(StateOf(s).channels[i],
                  {"channel", "display", "coupling", "probeAttenuation", "scale"}))
           W == RowCommands(p, name, ChannelRows)
<1>1. name \in {"CH1", "CH2"} /\ ChannelOf[name] = i /\ StateOf(s).channels[i] = state
  BY DEF ChannelNames, ChannelOf, StateOf
<1>2. DOMAIN p = Shared /\ \A f \in Shared : p[f] = state[f]
  <2>1. Shared \subseteq DOMAIN state
    BY DEF ChannelStateOf, Shared
  <2> HIDE DEF state, name
  <2>2. p = ChannelPatchFromProto(Converted(state, Shared))
    BY <1>1 DEF Shared
  <2>3. Converted(state, Shared) = [f \in Shared |-> state[f]]
    <3>1. Shared \cap DOMAIN state = Shared
      BY <2>1
    <3>2. QED
      BY <3>1 DEF Converted
  <2> DEFINE c == [f \in Shared |-> state[f]]
             F == {"channel", "display", "coupling", "probeAttenuation", "scale",
                   "offsetDivisions", "bandwidthLimit", "inversion"}
  <2>4. F \cap DOMAIN c = Shared /\ \A f \in Shared : c[f] = state[f]
    BY DEF Shared
  <2> HIDE DEF p
  <2>5. p = [f \in F \cap DOMAIN c |-> c[f]]
    BY <2>2, <2>3 DEF ChannelPatchFromProto, Converted
  <2> HIDE DEF c, F
  <2>6. p = [f \in Shared |-> c[f]]
    BY <2>4, <2>5
  <2>7. QED
    BY <2>4, <2>6
<1> HIDE DEF p
<1>3. /\ p["channel"] = i /\ p["display"] = BooleanOf[s[<<name, "DISPLAY">>]]
      /\ p["coupling"] = CouplingOf[s[<<name, "COUPLING">>]]
      /\ p["probeAttenuation"] = s[<<name, "PROBE">>]
      /\ p["scale"] = [value |-> s[<<name, "SCALE">>], form |-> "inside"]
  <2>1. /\ state["channel"] = ChannelOf[name] /\ state["display"] = BooleanOf[s[<<name, "DISPLAY">>]]
        /\ state["coupling"] = CouplingOf[s[<<name, "COUPLING">>]]
        /\ state["probeAttenuation"] = s[<<name, "PROBE">>]
        /\ state["scale"] = [value |-> s[<<name, "SCALE">>], form |-> "inside"]
    BY DEF ChannelStateOf
  <2> HIDE DEF state, name
  <2>2. QED
    BY <1>1, <1>2, <2>1 DEF Shared
<1> HIDE DEF name, state
<1>4. /\ s[<<name, "DISPLAY">>] \in {"ON", "OFF"} /\ s[<<name, "PROBE">>] \in Probes
      /\ s[<<name, "COUPLING">>] \in {"AC", "DC", "GND"}
  BY <1>1, SettingsAreLegal
<1>5. p["coupling"] \in 1..3 /\ p["display"] \in BOOLEAN
  <2>1. p["coupling"] \in 1..3
    BY <1>3, <1>4 DEF CouplingOf
  <2>2. p["display"] \in BOOLEAN
    BY <1>3, <1>4, Displays, Zenon
  <2>3. QED
    BY <2>1, <2>2
<1>6. s[<<name, "SCALE">>] \in ChannelScales(p["probeAttenuation"])
  <2>1. <<name, "SCALE">> \in HeaderSettings /\ <<name, "PROBE">> \in HeaderSettings
    BY <1>1, SettingsShown DEF ChannelControls
  <2>2. QED
    BY <1>3, <2>1 DEF ScaleFitsProbe, name
<1>7. CompileChannel(p).error = "ok"
  BY <1>2, <1>3, <1>4, <1>5, <1>6, StatesCompile
<1>8. Shape(CompileChannel(p).writes, W, {})
  BY <1>3, <1>5, <1>7, ChannelCompilation DEF In, name
<1>9. AllWrites(CompileChannel(p).writes)
  BY <1>7, PlainCompilations
<1>10. ASSUME NEW w \in W PROVE settings[w.set] = w.to
  <2>1. DOMAIN ChannelRows = 1..5
    BY DEF ChannelRows
  <2>2. PICK k \in 1..5 : Has(p, ChannelRows[k][1]) /\ w = Command(p, name, ChannelRows[k])
    BY <2>1 DEF RowCommands
  <2>3. \A f \in Shared : p[f] = ChannelStateOf(s, name)[f]
    BY <1>2 DEF state
  <2>4. w.set \in HeaderSettings /\ s[w.set] = w.to
    BY <1>1, <1>2, <2>2, <2>3, WritesTheSame
  <2>5. QED
    BY <2>4
<1> HIDE DEF W
<1>11. \A j \in DOMAIN CompileChannel(p).writes :
         settings[CompileChannel(p).writes[j].set] = CompileChannel(p).writes[j].to
  BY <1>8, <1>9, <1>10 DEF Shape, AllWrites
<1>12. QED
  BY <1>7, <1>11 DEF p

-----------------------------------------------------------------------------
(* A call that reports success has done its whole plan. *)

\* Only an operation that finished has no failure.
LEMMA SuccessIsFinished ==
  ASSUME SlotsAccounted, RefusalsAreEarly, PlansAreFollowed, [Next]_vars, NEW c \in Calls,
         stage[c] = "exchange", stage'[c] = "return", failure'[c] = {}
  PROVE  todo[c] = <<>>
<1>1. ASSUME NEW classes, classes # {}, NEW d \in Calls, Fail(d, classes) PROVE FALSE
  <2>1. d = c
    BY <1>1 DEF Fail, SlotsAccounted, Types
  <2>2. failure'[c] = classes
    BY <1>1, <2>1 DEF Fail, RefusalsAreEarly
  <2>3. QED
    BY <1>1, <2>2
<1>2. ASSUME NEW d \in Calls, ExchangeFails(d) PROVE FALSE
  <2>1. PICK classes : Fail(d, classes) /\ (classes = {givenUp[d]} \/ \E class : classes \in Reasons(d, class))
    BY <1>2 DEF ExchangeFails
  <2>2. classes # {}
    BY <2>1 DEF Reasons
  <2>3. QED
    BY <1>1, <2>1, <2>2
<1>3. ASSUME NEW d \in Calls, Read(d) PROVE FALSE
  <2>1. Fail(d, {Observed(d, Head(todo[d]).ask)}) \/ UNCHANGED stage
    BY <1>3 DEF Read
  <2>2. QED
    BY <1>1, <2>1
<1>4. ASSUME NEW d \in Calls, Finish(d) PROVE todo[c] = <<>>
  <2>1. d = c
    BY <1>4 DEF Finish, Go, SlotsAccounted, Types
  <2>2. QED
    BY <1>4, <2>1 DEF Finish
<1>5. ASSUME NEW d \in Calls, Invoke(d) \/ GiveUp(d) \/ Refuse(d) \/ Admit(d) \/ Begin(d) \/ BeginFails(d)
                              \/ Write(d) \/ Converge(d) \/ RangeUnavailable(d) \/ Return(d) \/ Answer(d)
      PROVE  FALSE
  <2>1. stage'[c] = stage[c] \/ stage[c] # "exchange"
    BY <1>5 DEF Invoke, AskInfo, AskQuery, AskScope, AskSource, AskAction, AskWaveform, Sends, IsNext,
                RejectNil, GiveUp, callVars, Refuse, Admit, Begin, BeginFails, Fail, Write, Converge,
                RangeUnavailable, Return, Answer, Go, SlotsAccounted, Types
  <2>2. QED
    BY <2>1
<1>6. ~UNCHANGED vars
  BY DEF vars, callVars
<1>7. PICK d \in Calls : Invoke(d) \/ GiveUp(d) \/ Handle(d)
  BY <1>6 DEF Next
<1>8. QED
  BY <1>2, <1>3, <1>4, <1>5, <1>7 DEF Handle

\* Then everything it asked has been done, and nothing else.
LEMMA FinishedTook ==
  ASSUME RefusalsAreEarly, PlansAreFollowed, NEW c \in Calls, stage[c] = "exchange", todo[c] = <<>>
  PROVE  /\ Typed(request[c]) /\ Plan(request[c]).error = "ok"
         /\ Faithful(request[c], Plan(request[c]).steps, Commanded(request[c]))
         /\ request[c].call # "Auto" => Took(Commanded(request[c]), before[c], settings)
         /\ \A i \in DOMAIN Plan(request[c]).steps :
              Plan(request[c]).steps[i] = Ask("header") => result[c] = StateOf(before[c])
<1> DEFINE steps == Plan(request[c]).steps
           W == Commanded(request[c])
<1>1. /\ request[c] \in Asked[c] \ {NoRequest} /\ request[c].call \in Methods
      /\ Plan(request[c]).error = "ok"
      /\ request[c].call # "Auto" => Done(steps, Len(steps) - Len(todo[c]), before[c], settings)
      /\ \A i \in 1..(Len(steps) - Len(todo[c])) : steps[i] = Ask("header") => result[c] = StateOf(before[c])
      /\ IsSetting(before[c])
  BY DEF PlansAreFollowed, Follows
<1>2. Typed(request[c])
  BY <1>1, AskedIsTyped
<1>3. Faithful(request[c], steps, W)
  BY <1>1, <1>2, PlansAreFaithful DEF FaithfulPlan
<1> HIDE DEF W, steps
<1>4. DOMAIN steps = 1..Len(steps) /\ Len(steps) - Len(todo[c]) = Len(steps)
  <2>1. DOMAIN steps = 1..Len(steps) /\ Len(steps) \in Nat
    BY <1>3 DEF Faithful, IsSequence
  <2>2. Len(<<>>) = 0
    OBVIOUS
  <2>3. QED
    BY <2>1, <2>2
<1>5. request[c].call # "Auto" => Took(W, before[c], settings)
  BY <1>1, <1>3, <1>4, DoneTakes
<1>6. QED
  BY <1>1, <1>2, <1>3, <1>4, <1>5 DEF W, steps

\* The settings that a service reports as applied are applied, and nothing else is
\* changed: every step that ends an operation without a failure ends it after the
\* whole of a plan that is faithful to what was asked. Of an Auto, whose success
\* leaves the settings unknown, nothing is claimed (server.go:535-537).
THEOREM AppliedTheorem == Spec => OkMeansApplied
<1>1. ASSUME SlotsAccounted, RefusalsAreEarly, PlansAreFollowed, [Next]_vars, NEW c \in Calls,
             stage[c] = "exchange", stage'[c] = "return", failure'[c] = {}
      PROVE  /\ request[c].call # "Auto" => Applied(request[c], Report(before[c]), Report(settings))
             /\ MeasuresAsAsked(request[c])
             /\ request[c].call = "GetState" /\ request[c].includeControls =>
                  result[c] = Report(before[c]) /\ CanBeSentBack(result[c])
  <2> DEFINE r == request[c]
             steps == Plan(r).steps
  <2>1. todo[c] = <<>>
    BY <1>1, SuccessIsFinished
  <2>2. /\ Typed(r) /\ Plan(r).error = "ok"
        /\ r.call # "Auto" => Took(Commanded(r), before[c], settings)
        /\ \A i \in DOMAIN steps : steps[i] = Ask("header") => result[c] = StateOf(before[c])
    BY <1>1, <2>1, FinishedTook
  <2>3. /\ IsSetting(before[c]) /\ IsSetting(settings)
        /\ Report(before[c]) = StateOf(before[c]) /\ Report(settings) = StateOf(settings)
    BY <1>1, ReportReads DEF PlansAreFollowed
  <2>4. r.call # "Auto" => Applied(r, Report(before[c]), Report(settings))
    BY <2>2, <2>3, AppliedHolds
  <2>5. MeasuresAsAsked(r)
    BY <2>2, RangeMeasured DEF MeasuresAsAsked
  <2>6. ASSUME r.call = "GetState", r.includeControls
        PROVE  result[c] = Report(before[c]) /\ CanBeSentBack(result[c])
    <3>1. Plan(r) = GetState(r) /\ Commanded(r) = {}
      BY <2>6 DEF Plan, Commanded
    <3>2. \E i \in DOMAIN steps : steps[i] = Ask("header")
      BY <2>2, <2>6, <3>1, GetStateIsFaithful DEF Typed
    <3>3. result[c] = StateOf(before[c])
      BY <2>2, <3>2
    <3>4. \A setting \in HeaderSettings : settings[setting] = before[c][setting]
      BY <2>2, <2>6, <3>1 DEF Took
    <3>5. QED
      BY <2>3, <3>3, <3>4, SnapshotsGoBack
  <2>7. QED
    BY <2>4, <2>5, <2>6
<1>2. SlotsAccounted /\ RefusalsAreEarly /\ PlansAreFollowed /\ [Next]_vars =>
        [\A c \in Calls :
           stage[c] = "exchange" /\ stage'[c] = "return" /\ failure'[c] = {} =>
             /\ request[c].call # "Auto" => Applied(request[c], Report(before[c]), Report(settings))
             /\ MeasuresAsAsked(request[c])
             /\ request[c].call = "GetState" /\ request[c].includeControls =>
                  result[c] = Report(before[c]) /\ CanBeSentBack(result[c])]_vars
  BY <1>1
<1>3. QED
  BY <1>2, SlotsTheorem, EarlyRefusals, PlansTheorem, PTL DEF Spec, OkMeansApplied
==============================================================================
