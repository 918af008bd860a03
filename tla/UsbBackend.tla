----------------------------- MODULE UsbBackend -----------------------------
(***************************************************************************)
(* pkg/owonusb: Backend owns the native libusb objects of one instrument:  *)
(* a libusb context, the device handles opened while enumerating, and the  *)
(* claimed interface. Each acquisition (usbResources) is a generation of   *)
(* such objects. Any native step may fail, closing included, and the       *)
(* context of the call may end at any moment; what could not be closed has *)
(* to stay owned, so that a later call closes it.                          *)
(*                                                                         *)
(* The calls come one at a time and in the order in which owonsession      *)
(* makes them: Open, then Exchange while the session is trusted,           *)
(* ReopenAndValidate when it is not, and Close. Devices are named by the   *)
(* place at which the enumeration finds them.                              *)
(***************************************************************************)
EXTENDS Naturals, Sequences, FiniteSets, SequencesExt

CONSTANTS
  Serials,      \* the serial numbers of the instruments that can be plugged in
  Buses,        \* what an enumeration can find: sequences of serials
  Unreadable,   \* a descriptor whose serial cannot be read, or is empty
  NoSerial,     \* the empty serial: any single instrument is selected
  Configured,   \* what Config.Serial may be as the daemon starts
  None,         \* a nil pointer
  Context,      \* the libusb context
  Claim,        \* the claimed interface
  MaxOpens      \* the bound on the acquisitions of a run

ASSUME UsbAssumption ==
  /\ Buses \subseteq Seq(Serials \cup {Unreadable})
  /\ {Unreadable, NoSerial} \cap Serials = {}
  /\ Context # Claim /\ {Context, Claim} \cap Nat = {}
  /\ Configured \subseteq Serials \cup {NoSerial}
  /\ MaxOpens \in Nat

Devices == UNION {DOMAIN bus : bus \in Buses}
Handles == Devices \cup {Context, Claim}
Generations == 1..MaxOpens

VARIABLES
  native,     \* the native objects that are open: pairs of generation and handle
  opens,      \* the number of acquisitions so far
  serial,     \* backend.config.Serial
  resources,  \* backend.resources
  candidate,  \* the usbResources being acquired or validated
  step,       \* where the backend is
  expired,    \* the context of the current call is done
  opening,    \* the current call is Open
  trusted,    \* the Session is not poisoned
  validated   \* what the identity queries proved: pairs of generation and serial

ownVars == <<native, resources, candidate>>
vars == <<ownVars, opens, serial, step, expired, opening, trusted, validated>>

\* usbResources: its non-nil handles, the selected device, and whether session
\* is non-nil.
Resources == [generation : Generations, handles : SUBSET Handles,
              device : Devices \cup {None}, session : BOOLEAN,
              serial : Serials \cup {NoSerial}]
ASSUME NoneAssumption == None \notin Resources

Steps == {"absent", "idle", "begin", "acquire", "selected", "claiming",
          "abandoning", "candidate", "draining", "identifying", "rejecting",
          "cleanup", "failed", "exchanging", "closed"}

TypeOK ==
  /\ opens \in 0..MaxOpens
  /\ serial \in Serials \cup {NoSerial}
  /\ resources \in Resources \cup {None}
  /\ candidate \in Resources \cup {None}
  /\ step \in Steps
  /\ expired \in BOOLEAN /\ opening \in BOOLEAN /\ trusted \in BOOLEAN
  /\ validated \in SUBSET (Generations \X Serials)

Init ==
  /\ native = {} /\ opens = 0 /\ serial \in Configured
  /\ resources = None /\ candidate = None
  /\ step = "absent"
  /\ expired = FALSE /\ opening = FALSE /\ trusted = FALSE
  /\ validated = {}

-----------------------------------------------------------------------------
(* usbResources                                                            *)

Objects(r) == IF r = None THEN {} ELSE {r.generation} \X r.handles

\* The libusb context is retained while a device handle is.
ContextMayClose(handles, left) ==
  Context \in handles /\ left \cap Devices # {} => Context \in left

\* Mutant: an owner whose cleanup failed keeps its endpoints.
SessionAfterCloseKept(r) == r.session

SessionAfterClose(r) == FALSE

\* usbResources.Close: the interface is released, every device is closed or
\* not, and with the last of them the context. These are the owners it can leave.
AfterClose(r) ==
  {[r EXCEPT !.handles = left, !.session = SessionAfterClose(r)] :
     left \in {h \in SUBSET (r.handles \ {Claim}) : ContextMayClose(r.handles, h)}}

\* It succeeds if nothing is left, and its own context has not ended.
CloseOk(rest, ended) == rest.handles = {} /\ ~ended

Replace(old, new) == native' = (native \ Objects(old)) \cup Objects(new)

\* Backend.Close, in a step that ends in ok or in failed.
CloseOwned(ended, ok, failed) ==
  /\ resources # None
  /\ \E rest \in AfterClose(resources) :
       /\ Replace(resources, rest)
       /\ resources' = IF CloseOk(rest, ended) THEN None ELSE rest
       /\ step' = IF CloseOk(rest, ended) THEN ok ELSE failed

CloseBackend(ended, ok, failed) ==
  \/ resources = None /\ step' = ok /\ UNCHANGED <<native, resources>>
  \/ CloseOwned(ended, ok, failed)

-----------------------------------------------------------------------------
(* The calls                                                               *)

Expire ==
  /\ step \notin {"absent", "idle", "cleanup", "failed", "closed"} /\ ~expired
  /\ expired' = TRUE
  /\ UNCHANGED <<ownVars, opens, serial, step, opening, trusted, validated>>

\* The error return of replaceAndValidate: Open cleans up, recovery leaves the
\* Session poisoned.
Fails == step' = IF opening THEN "cleanup" ELSE "idle"

Open ==
  /\ step = "absent" /\ opens < MaxOpens
  /\ step' = "begin" /\ opening' = TRUE /\ expired' = FALSE
  /\ UNCHANGED <<ownVars, opens, serial, trusted, validated>>

ReopenAndValidate ==
  /\ step = "idle" /\ ~trusted /\ serial # NoSerial /\ opens < MaxOpens
  /\ step' = "begin" /\ expired' = FALSE
  /\ UNCHANGED <<ownVars, opens, serial, opening, trusted, validated>>

\* Mutant: recovery goes on although the old session is still open.
AfterFailedCloseAcquire == "acquire"

AfterFailedClose == IF opening THEN "cleanup" ELSE "idle"

\* replaceAndValidate closes the previous session first.
ClosePrevious ==
  /\ step = "begin"
  /\ \/ expired /\ Fails /\ UNCHANGED <<native, resources>>
     \/ CloseBackend(expired, "acquire", AfterFailedClose)
  /\ UNCHANGED <<opens, serial, candidate, expired, opening, trusted, validated>>

AcquireExpires ==
  /\ step = "acquire" /\ expired
  /\ Fails
  /\ UNCHANGED <<ownVars, opens, serial, expired, opening, trusted, validated>>

\* The serial asked for: any one, or the one that Open pinned.
Accepts(found) == serial \in {NoSerial, found}

\* selectUSBDeviceIndex: the unique match, and none if a peer is unreadable.
Selected(bus) ==
  LET matches == {i \in DOMAIN bus : Accepts(bus[i])}
  IN IF Cardinality(matches) = 1 /\ Unreadable \notin ToSet(bus) THEN matches ELSE {}

Acquired(bus, device, found) ==
  [generation |-> opens + 1, handles |-> DOMAIN bus \cup {Context},
   device |-> device, session |-> FALSE, serial |-> found]

\* openUSBResources, up to the selection: libusb enumerates and opens every
\* matching device; it may report an error with the devices it did open.
Enumerate ==
  /\ step = "acquire" /\ ~expired
  /\ opens' = opens + 1
  /\ \E bus \in Buses :
       /\ native' = native \cup ({opens + 1} \X (DOMAIN bus \cup {Context}))
       /\ \/ \E i \in Selected(bus) :
               candidate' = Acquired(bus, i, bus[i]) /\ step' = "selected"
          \/ candidate' = Acquired(bus, None, NoSerial) /\ step' = "abandoning"
  /\ UNCHANGED <<serial, resources, expired, opening, trusted, validated>>

\* The unselected peers are closed before the claim.
ClosePeers ==
  /\ step = "selected"
  /\ LET peers == (candidate.handles \cap Devices) \ {candidate.device} IN
     \E left \in SUBSET peers :
       /\ candidate' = [candidate EXCEPT !.handles = (@ \ peers) \cup left]
       /\ native' = native \ ({candidate.generation} \X (peers \ left))
       /\ step' = IF left = {} /\ ~expired THEN "claiming" ELSE "abandoning"
  /\ UNCHANGED <<opens, serial, resources, expired, opening, trusted, validated>>

\* The claim and the endpoints; a failure may come before the claim or after it.
ClaimInterface ==
  /\ step = "claiming"
  /\ \E claimed, ready \in BOOLEAN :
       /\ ready => claimed
       /\ LET extra == IF claimed THEN {Claim} ELSE {}
          IN /\ candidate' = [candidate EXCEPT !.handles = @ \cup extra, !.session = ready]
             /\ native' = native \cup ({candidate.generation} \X extra)
       /\ step' = IF ready THEN "candidate" ELSE "abandoning"
  /\ UNCHANGED <<opens, serial, resources, expired, opening, trusted, validated>>

RetainedAfterError(rest) == rest

\* openUSBResources fails: it closes what it holds, and returns it.
AbandonOpen ==
  /\ step = "abandoning"
  /\ \E rest \in AfterClose(candidate) :
       Replace(candidate, rest) /\ resources' = RetainedAfterError(rest)
  /\ candidate' = None
  /\ Fails
  /\ UNCHANGED <<opens, serial, expired, opening, trusted, validated>>

\* replaceAndValidate looks at the candidate. Its serial can only be another one
\* than the selected if the opener chose wrongly.
SerialMatches == candidate.serial # NoSerial /\ Accepts(candidate.serial)

CheckCandidate ==
  /\ step = "candidate"
  /\ step' = IF expired \/ ~SerialMatches THEN "rejecting" ELSE "draining"
  /\ UNCHANGED <<ownVars, opens, serial, expired, opening, trusted, validated>>

\* Stale bytes are drained before the identity is asked for.
DrainPending ==
  /\ step = "draining"
  /\ \/ ~expired /\ step' = "identifying"
     \/ step' = "rejecting"
  /\ UNCHANGED <<ownVars, opens, serial, expired, opening, trusted, validated>>

IdentityMatches(answer) == answer = candidate.serial

\* The identity query fails, or its answer does not parse or names another
\* manufacturer, model or serial.
IdentityFails ==
  /\ step = "identifying"
  /\ step' = "rejecting"
  /\ UNCHANGED <<ownVars, opens, serial, expired, opening, trusted, validated>>

\* The answer names the instrument that the descriptor promised: the backend
\* takes the candidate, and Open pins its serial.
IdentityProved ==
  /\ step = "identifying"
  /\ \E answer \in Serials :
       /\ IdentityMatches(answer)
       /\ validated' = validated \cup {<<candidate.generation, answer>>}
  /\ resources' = candidate /\ candidate' = None
  /\ serial' = IF opening THEN candidate.serial ELSE serial
  /\ step' = "idle" /\ opening' = FALSE /\ trusted' = TRUE
  /\ UNCHANGED <<native, opens, expired>>

RejectResources ==
  /\ step = "rejecting"
  /\ \E rest \in AfterClose(candidate) :
       /\ Replace(candidate, rest)
       /\ resources' = IF CloseOk(rest, expired) THEN None ELSE rest
  /\ candidate' = None
  /\ Fails
  /\ UNCHANGED <<opens, serial, expired, opening, trusted, validated>>

\* open cleans up after a failure, without its caller's context; what is left
\* then belongs to ErrUSBOpen, whose Close may be called again.
CleanUpOpen ==
  /\ step = "cleanup"
  /\ CloseBackend(FALSE, "closed", "failed")
  /\ UNCHANGED <<opens, serial, candidate, expired, opening, trusted, validated>>

\* Closing again: by ErrUSBOpen.Close with a context of its own, or by
\* Session.closeBackend, which calls without a deadline.
RetryClose ==
  /\ step = "failed"
  /\ \E ended \in IF opening THEN BOOLEAN ELSE {FALSE} :
       CloseOwned(ended, "closed", "failed")
  /\ UNCHANGED <<opens, serial, candidate, expired, opening, trusted, validated>>

Exchange ==
  /\ step = "idle" /\ trusted
  /\ step' = "exchanging"
  /\ expired' = FALSE
  /\ UNCHANGED <<ownVars, opens, serial, opening, trusted, validated>>

\* A failed exchange poisons the Session: Backend.Exchange itself refuses only
\* without endpoints.
ExchangeReturns ==
  /\ step = "exchanging"
  /\ trusted' \in BOOLEAN
  /\ step' = "idle"
  /\ UNCHANGED <<ownVars, opens, serial, expired, opening, validated>>

\* Session.closeBackend calls Close without a deadline, and again after an error.
Close ==
  /\ step = "idle"
  /\ CloseBackend(FALSE, "closed", "failed")
  /\ UNCHANGED <<opens, serial, candidate, expired, opening, trusted, validated>>

Finished == step = "closed" /\ UNCHANGED vars

Next ==
  \/ Expire
  \/ Open \/ ReopenAndValidate \/ ClosePrevious \/ AcquireExpires
  \/ Enumerate \/ ClosePeers \/ ClaimInterface \/ AbandonOpen
  \/ CheckCandidate \/ DrainPending \/ IdentityFails \/ IdentityProved
  \/ RejectResources \/ CleanUpOpen \/ RetryClose
  \/ Exchange \/ ExchangeReturns \/ Close
  \/ Finished

Spec == Init /\ [][Next]_vars

-----------------------------------------------------------------------------
(* Properties                                                              *)

\* Every native object that is open has an owner that a later Close reaches, and
\* no owner holds one that is closed, whichever native call failed and wherever
\* the context ended (backend.go:243-248, 315-320, resources.go:40-93).
\* No device handle and no claim outlives the libusb context it came from
\* (resources.go:80-90).
NothingLeaks ==
  /\ native = Objects(resources) \cup Objects(candidate)
  /\ \A object \in native : <<object[1], Context>> \in native

\* No replacement is acquired while anything of an earlier acquisition is open:
\* two owners never contend for the interface (backend.go:235-237).
OneGeneration == \A object, other \in native : object[1] = other[1]

\* While the Session trusts the backend, an exchange finds endpoints, and they
\* are those of an instrument whose own answer named the selected serial. At any
\* time endpoints are kept only with the device and the claim they belong to, so
\* that Exchange never uses those of a partly closed session (backend.go:174).
TrustedMeansValidated ==
  /\ resources # None /\ resources.session =>
       {Context, Claim, resources.device} \subseteq resources.handles
  /\ trusted /\ step \in {"idle", "exchanging"} =>
       /\ resources # None /\ resources.session
       /\ <<resources.generation, serial>> \in validated

\* A recovery never comes back with another instrument than the one that Open
\* chose, even if Open was asked for any (backend.go:137-138, 181-183).
SameInstrument == \A proof, other \in validated : proof[2] = other[2]

\* A Close that reports success has released every native object, however many
\* failed calls came before it (backend.go:341-344, open_error.go:52-55).
ClosedMeansReleased == step = "closed" => native = {}

\* What the backend holds at each step. There is a candidate only while an
\* acquisition is under way, during which nothing else is owned and nobody trusts
\* the Session; what is left of anything keeps its context.
Candidates == {"selected", "claiming", "abandoning", "candidate", "draining",
               "identifying", "rejecting"}
HoldingsMatch ==
  /\ candidate # None <=> step \in Candidates
  /\ step \in Candidates \cup {"absent", "acquire"} => resources = None
  /\ step \in {"begin", "acquire"} => opens < MaxOpens
  /\ resources # None /\ resources.handles # {} => Context \in resources.handles
  /\ candidate # None => Context \in candidate.handles
  /\ step \in {"selected", "claiming"} => candidate.device \in candidate.handles
  /\ step \in {"selected", "claiming", "abandoning"} => ~candidate.session
  /\ step \in {"candidate", "draining", "identifying", "rejecting"} =>
       candidate.session /\ {Claim, candidate.device} \subseteq candidate.handles

\* How the Session's trust, the serial and the proofs go together: recovery starts
\* from a pinned serial, and each proof names the serial of now.
ProofsMatch ==
  /\ step \in Candidates \cup {"absent", "begin", "acquire"} => ~trusted
  /\ step = "exchanging" => trusted
  /\ opening \/ step = "absent" => validated = {}
  /\ step \in Candidates \cup {"begin", "acquire"} => opening \/ serial # NoSerial
  /\ step \in {"draining", "identifying"} => SerialMatches
  /\ \A proof \in validated : proof[2] = serial

\* Together: through any sequence of failures the native objects are neither lost
\* nor doubled, and in the end they are released.
ResourcesAccounted ==
  TypeOK /\ HoldingsMatch /\ NothingLeaks /\ OneGeneration /\ ClosedMeansReleased

\* Together: what may exchange commands is open, validated and the instrument that
\* was chosen.
TrustIsJustified == ProofsMatch /\ TrustedMeansValidated /\ SameInstrument
=============================================================================
