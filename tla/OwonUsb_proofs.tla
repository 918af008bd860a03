--------------------------- MODULE OwonUsb_proofs ---------------------------
(***************************************************************************)
(* Proofs about the two halves of pkg/owonusb.                             *)
(*                                                                         *)
(* UsbBackend, for every set of serials, everything that an enumeration    *)
(* may find and any number of acquisitions. IInv is inductive: what the    *)
(* backend holds at each step, that the open native objects are those it   *)
(* holds, and what the proofs of identity say.                             *)
(*                                                                         *)
(* EndpointSession and its FrameDecoder, for every instrument that keeps   *)
(* the assumptions named there, every size of a byte, a prefix, a payload  *)
(* and a transfer, and any number of commands. EndpointIInv is inductive:  *)
(* whose bytes are on the wire at each place of an exchange, that a drain  *)
(* meets no command twice, and what the decoder holds of what it was fed.  *)
(***************************************************************************)
EXTENDS UsbBackend, EndpointSession, SequenceTheorems, FiniteSetTheorems, TLAPS

-----------------------------------------------------------------------------
(* The backend                                                               *)

Owned == native = Objects(resources) \cup Objects(candidate)

IInv == TypeOK /\ HoldingsMatch /\ Owned /\ ClosedMeansReleased
        /\ ProofsMatch /\ TrustedMeansValidated

LEMMA DevicesAreNumbers == Devices \subseteq Nat /\ Context \notin Devices /\ Claim \notin Devices
  BY UsbAssumption DEF Devices

LEMMA SerialsAndBounds ==
  /\ NoSerial \notin Serials /\ Context # Claim /\ MaxOpens \in Nat
  /\ Configured \subseteq Serials \cup {NoSerial}
  BY UsbAssumption

LEMMA FewerPairs ==
  ASSUME NEW g, NEW H, NEW A
  PROVE  ({g} \X H) \ ({g} \X A) = {g} \X (H \ A)
  OBVIOUS

LEMMA MorePairs ==
  ASSUME NEW g, NEW H, NEW A
  PROVE  ({g} \X H) \cup ({g} \X A) = {g} \X (H \cup A)
  OBVIOUS

LEMMA InitIInv == Init => IInv
<1> SUFFICES ASSUME Init PROVE IInv
  OBVIOUS
<1> USE SerialsAndBounds DEF Init, Candidates
<1>1. TypeOK
  <2>1. validated \in SUBSET (Generations \X Serials)
    OBVIOUS
  <2>2. serial \in Serials \cup {NoSerial} /\ opens \in 0..MaxOpens
    OBVIOUS
  <2>3. QED
    BY <2>1, <2>2 DEF TypeOK, Steps
<1>2. HoldingsMatch
  BY DEF HoldingsMatch
<1>3. Owned
  BY DEF Owned, Objects
<1>4. ClosedMeansReleased
  BY DEF ClosedMeansReleased
<1>5. ProofsMatch
  BY DEF ProofsMatch
<1>6. TrustedMeansValidated
  BY DEF TrustedMeansValidated
<1>7. QED
  BY <1>1, <1>2, <1>3, <1>4, <1>5, <1>6 DEF IInv

-----------------------------------------------------------------------------
(* Closing an owner                                                          *)

\* What usbResources.Close leaves is a smaller owner without endpoints, whose
\* context is open while anything is.
LEMMA ClosedOwner ==
  ASSUME NEW r \in Resources, r.handles # {} => Context \in r.handles,
         NEW rest \in AfterClose(r)
  PROVE  /\ rest \in Resources /\ ~rest.session
         /\ rest.generation = r.generation /\ rest.handles \subseteq r.handles
         /\ rest.handles # {} => Context \in rest.handles
<1>1. PICK left \in SUBSET (r.handles \ {Claim}) :
        /\ ContextMayClose(r.handles, left)
        /\ rest = [r EXCEPT !.handles = left, !.session = SessionAfterClose(r)]
  BY DEF AfterClose
<1>2. rest \in Resources /\ ~rest.session /\ rest.generation = r.generation
      /\ rest.handles = left
  BY <1>1 DEF Resources, SessionAfterClose
<1>3. left # {} => Context \in left
  BY <1>1 DEF ContextMayClose, Resources, Handles
<1>4. QED
  BY <1>1, <1>2, <1>3

\* The open objects follow the owner.
LEMMA ReplacedOwner ==
  ASSUME NEW r \in Resources, NEW rest \in Resources, native = Objects(r), Replace(r, rest)
  PROVE  native' = Objects(rest)
  BY DEF Replace

\* A close of the backend that succeeds leaves nothing, and one that fails the rest.
LEMMA BackendClosed ==
  ASSUME IInv, candidate = None, UNCHANGED candidate,
         NEW ended, NEW ok, NEW failed, CloseBackend(ended, ok, failed)
  PROVE  /\ resources' \in Resources \cup {None}
         /\ resources' # None =>
              ~resources'.session /\ (resources'.handles # {} => Context \in resources'.handles)
         /\ Owned'
         /\ step' \in {ok, failed}
         /\ step' # failed => resources' = None /\ native' = {}
<1>1. CASE resources = None
  BY <1>1 DEF CloseBackend, CloseOwned, IInv, TypeOK, Owned, Objects
<1>2. CASE resources # None
  <2>1. resources \in Resources /\ (resources.handles # {} => Context \in resources.handles)
    BY <1>2 DEF IInv, TypeOK, HoldingsMatch
  <2>2. native = Objects(resources)
    BY DEF IInv, Owned, Objects
  <2>3. PICK rest \in AfterClose(resources) :
          /\ Replace(resources, rest)
          /\ resources' = IF CloseOk(rest, ended) THEN None ELSE rest
          /\ step' = IF CloseOk(rest, ended) THEN ok ELSE failed
    BY <1>2 DEF CloseBackend, CloseOwned
  <2>4. /\ rest \in Resources /\ ~rest.session
        /\ rest.handles # {} => Context \in rest.handles
    BY <2>1, ClosedOwner
  <2>5. native' = Objects(rest)
    BY <2>1, <2>2, <2>3, <2>4, ReplacedOwner
  <2>6. CASE CloseOk(rest, ended)
    <3>1. native' = {}
      BY <2>5, <2>6 DEF CloseOk, Objects
    <3>2. QED
      BY <2>3, <2>6, <3>1 DEF Owned, Objects
  <2>7. CASE ~CloseOk(rest, ended)
    BY <2>3, <2>4, <2>5, <2>7 DEF Owned, Objects
  <2>8. QED
    BY <2>6, <2>7
<1>3. QED
  BY <1>1, <1>2

-----------------------------------------------------------------------------
(* The steps                                                                 *)


LEMMA ExpirePreserves == IInv /\ Expire => IInv'
<1> SUFFICES ASSUME IInv, Expire PROVE IInv'
  OBVIOUS
<1> USE SerialsAndBounds DEF IInv, Expire, ownVars, Candidates, Steps
<1>1. TypeOK'
  BY DEF TypeOK
<1>2. HoldingsMatch'
  BY DEF TypeOK, HoldingsMatch
<1>3. Owned'
  BY DEF TypeOK, HoldingsMatch, Owned, Objects
<1>4. ClosedMeansReleased'
  BY DEF TypeOK, HoldingsMatch, ClosedMeansReleased
<1>5. ProofsMatch'
  BY DEF TypeOK, HoldingsMatch, ProofsMatch, SerialMatches, Accepts
<1>6. TrustedMeansValidated'
  BY DEF TypeOK, HoldingsMatch, ProofsMatch, TrustedMeansValidated
<1>7. QED
  BY <1>1, <1>2, <1>3, <1>4, <1>5, <1>6

LEMMA OpenPreserves == IInv /\ Open => IInv'
<1> SUFFICES ASSUME IInv, Open PROVE IInv'
  OBVIOUS
<1> USE SerialsAndBounds DEF IInv, Open, ownVars, Candidates, Steps
<1>1. TypeOK'
  BY DEF TypeOK
<1>2. HoldingsMatch'
  BY DEF TypeOK, HoldingsMatch
<1>3. Owned'
  BY DEF TypeOK, HoldingsMatch, Owned, Objects
<1>4. ClosedMeansReleased'
  BY DEF TypeOK, HoldingsMatch, ClosedMeansReleased
<1>5. ProofsMatch'
  BY DEF TypeOK, HoldingsMatch, ProofsMatch, SerialMatches, Accepts
<1>6. TrustedMeansValidated'
  BY DEF TypeOK, HoldingsMatch, ProofsMatch, TrustedMeansValidated
<1>7. QED
  BY <1>1, <1>2, <1>3, <1>4, <1>5, <1>6

LEMMA ReopenAndValidatePreserves == IInv /\ ReopenAndValidate => IInv'
<1> SUFFICES ASSUME IInv, ReopenAndValidate PROVE IInv'
  OBVIOUS
<1> USE SerialsAndBounds DEF IInv, ReopenAndValidate, ownVars, Candidates, Steps
<1>1. TypeOK'
  BY DEF TypeOK
<1>2. HoldingsMatch'
  BY DEF TypeOK, HoldingsMatch
<1>3. Owned'
  BY DEF TypeOK, HoldingsMatch, Owned, Objects
<1>4. ClosedMeansReleased'
  BY DEF TypeOK, HoldingsMatch, ClosedMeansReleased
<1>5. ProofsMatch'
  BY DEF TypeOK, HoldingsMatch, ProofsMatch, SerialMatches, Accepts
<1>6. TrustedMeansValidated'
  BY DEF TypeOK, HoldingsMatch, ProofsMatch, TrustedMeansValidated
<1>7. QED
  BY <1>1, <1>2, <1>3, <1>4, <1>5, <1>6

LEMMA ClosePreviousPreserves == IInv /\ ClosePrevious => IInv'
<1> SUFFICES ASSUME IInv, ClosePrevious PROVE IInv'
  OBVIOUS
<1> USE SerialsAndBounds DEF IInv, ownVars, Candidates, Steps, Fails
<1>1. candidate = None /\ step = "begin"
  BY DEF ClosePrevious, HoldingsMatch
<1>2. UNCHANGED <<opens, serial, candidate, expired, opening, trusted, validated>>
  BY DEF ClosePrevious
<1>3. /\ resources' \in Resources \cup {None}
      /\ resources' # None =>
           (resources'.handles # {} => Context \in resources'.handles)
      /\ resources' # None /\ resources'.session => UNCHANGED <<native, resources>>
      /\ Owned'
      /\ step' \in {"acquire", "cleanup", "idle"}
      /\ step' = "acquire" => resources' = None /\ native' = {}
  <2>1. CASE UNCHANGED <<native, resources>> /\ Fails
    BY <1>1, <1>2, <2>1 DEF Fails, TypeOK, HoldingsMatch, Owned
  <2>2. CASE CloseBackend(expired, "acquire", AfterFailedClose)
    BY <1>1, <1>2, <2>2, BackendClosed DEF AfterFailedClose
  <2>3. QED
    BY <2>1, <2>2 DEF ClosePrevious
<1>4. TypeOK'
  BY <1>1, <1>2, <1>3 DEF TypeOK
<1>5. HoldingsMatch'
  BY <1>1, <1>2, <1>3 DEF TypeOK, HoldingsMatch
<1>6. Owned'
  BY <1>1, <1>2, <1>3 DEF Owned
<1>7. ClosedMeansReleased'
  BY <1>1, <1>2, <1>3 DEF TypeOK, HoldingsMatch, ClosedMeansReleased
<1>8. ProofsMatch'
  BY <1>1, <1>2, <1>3 DEF TypeOK, HoldingsMatch, ProofsMatch, SerialMatches, Accepts
<1>9. TrustedMeansValidated'
  BY <1>1, <1>2, <1>3 DEF TypeOK, HoldingsMatch, ProofsMatch, TrustedMeansValidated
<1>10. QED
  BY <1>4, <1>5, <1>6, <1>7, <1>8, <1>9

LEMMA AcquireExpiresPreserves == IInv /\ AcquireExpires => IInv'
<1> SUFFICES ASSUME IInv, AcquireExpires PROVE IInv'
  OBVIOUS
<1> USE SerialsAndBounds DEF IInv, AcquireExpires, ownVars, Candidates, Steps, Fails
<1>1. TypeOK'
  BY DEF TypeOK
<1>2. HoldingsMatch'
  BY DEF TypeOK, HoldingsMatch
<1>3. Owned'
  BY DEF TypeOK, HoldingsMatch, Owned, Objects
<1>4. ClosedMeansReleased'
  BY DEF TypeOK, HoldingsMatch, ClosedMeansReleased
<1>5. ProofsMatch'
  BY DEF TypeOK, HoldingsMatch, ProofsMatch, SerialMatches, Accepts
<1>6. TrustedMeansValidated'
  BY DEF TypeOK, HoldingsMatch, ProofsMatch, TrustedMeansValidated
<1>7. QED
  BY <1>1, <1>2, <1>3, <1>4, <1>5, <1>6

LEMMA EnumeratePreserves == IInv /\ Enumerate => IInv'
<1> SUFFICES ASSUME IInv, Enumerate PROVE IInv'
  OBVIOUS
<1> USE SerialsAndBounds DEF IInv, ownVars, Candidates, Steps
<1>1. step = "acquire" /\ resources = None /\ candidate = None /\ opens + 1 \in Generations
      /\ UNCHANGED <<serial, resources, expired, opening, trusted, validated>> /\ opens' = opens + 1
  BY DEF Enumerate, HoldingsMatch, TypeOK, Generations
<1>2. PICK bus \in Buses :
        /\ native' = native \cup ({opens + 1} \X (DOMAIN bus \cup {Context}))
        /\ \/ \E i \in Selected(bus) :
                candidate' = Acquired(bus, i, bus[i]) /\ step' = "selected"
           \/ candidate' = Acquired(bus, None, NoSerial) /\ step' = "abandoning"
  BY DEF Enumerate
<1>3. DOMAIN bus \subseteq Devices
  BY DEF Devices
<1>4. ASSUME NEW i \in Selected(bus)
      PROVE  i \in DOMAIN bus /\ bus[i] \in Serials
  <2>1. i \in DOMAIN bus /\ bus[i] # Unreadable
    BY DEF Selected, ToSet
  <2>2. bus[i] \in Serials \cup {Unreadable}
    BY <2>1, UsbAssumption
  <2>3. QED
    BY <2>1, <2>2
<1>5. PICK device \in Devices \cup {None}, found \in Serials \cup {NoSerial} :
        /\ candidate' = Acquired(bus, device, found)
        /\ step' \in {"selected", "abandoning"}
        /\ step' = "selected" => device \in DOMAIN bus
  BY <1>2, <1>3, <1>4
<1>6. DOMAIN bus \cup {Context} \in SUBSET Handles
  BY <1>3 DEF Handles
<1>7. /\ candidate' \in Resources /\ ~candidate'.session
      /\ candidate'.handles = DOMAIN bus \cup {Context}
      /\ candidate'.device = device /\ candidate'.generation = opens + 1
  BY <1>1, <1>5, <1>6 DEF Acquired, Resources
<1>8. candidate' # None
  BY <1>7, NoneAssumption
<1>9. TypeOK'
  BY <1>1, <1>5, <1>7 DEF TypeOK, Generations
<1>10. HoldingsMatch'
  BY <1>1, <1>5, <1>7, <1>8 DEF TypeOK, HoldingsMatch
<1>11. Owned'
  BY <1>1, <1>2, <1>7, <1>8 DEF Owned, Objects
<1>12. ClosedMeansReleased'
  BY <1>1, <1>5, <1>7, <1>8 DEF TypeOK, HoldingsMatch, ClosedMeansReleased
<1>13. ProofsMatch'
  BY <1>1, <1>5, <1>7, <1>8 DEF TypeOK, HoldingsMatch, ProofsMatch, SerialMatches, Accepts
<1>14. TrustedMeansValidated'
  BY <1>1, <1>5, <1>7, <1>8 DEF TypeOK, HoldingsMatch, ProofsMatch, TrustedMeansValidated
<1>15. QED
  BY <1>9, <1>10, <1>11, <1>12, <1>13, <1>14

LEMMA ClosePeersPreserves == IInv /\ ClosePeers => IInv'
<1> SUFFICES ASSUME IInv, ClosePeers PROVE IInv'
  OBVIOUS
<1> USE SerialsAndBounds DEF IInv, ownVars, Candidates, Steps
<1> DEFINE peers == (candidate.handles \cap Devices) \ {candidate.device}
<1>1. /\ step = "selected" /\ resources = None /\ candidate \in Resources /\ ~candidate.session
      /\ {Context, candidate.device} \subseteq candidate.handles
      /\ UNCHANGED <<opens, serial, resources, expired, opening, trusted, validated>>
  BY DEF ClosePeers, HoldingsMatch, TypeOK
<1>2. PICK left \in SUBSET peers :
        /\ candidate' = [candidate EXCEPT !.handles = (@ \ peers) \cup left]
        /\ native' = native \ ({candidate.generation} \X (peers \ left))
        /\ step' \in {"claiming", "abandoning"}
  BY DEF ClosePeers
<1>3. /\ candidate' \in Resources /\ candidate' # None
      /\ candidate'.handles = (candidate.handles \ peers) \cup left
      /\ candidate'.device = candidate.device /\ candidate'.generation = candidate.generation
      /\ ~candidate'.session
  BY <1>1, <1>2, NoneAssumption DEF Resources
<1>4. {Context, candidate'.device} \subseteq candidate'.handles
  BY <1>1, <1>3, DevicesAreNumbers
<1>5. candidate'.handles = candidate.handles \ (peers \ left)
  BY <1>1, <1>2, <1>3
<1>6. native = {candidate.generation} \X candidate.handles
  BY <1>1, NoneAssumption DEF Owned, Objects
<1>7. native' = {candidate.generation} \X candidate'.handles
  BY <1>2, <1>5, <1>6, FewerPairs
<1>9. TypeOK'
  BY <1>1, <1>2, <1>3, <1>4 DEF TypeOK
<1>10. HoldingsMatch'
  BY <1>1, <1>2, <1>3, <1>4 DEF TypeOK, HoldingsMatch
<1>11. Owned'
  BY <1>1, <1>3, <1>7 DEF Owned, Objects
<1>12. ClosedMeansReleased'
  BY <1>1, <1>2, <1>3, <1>4 DEF TypeOK, HoldingsMatch, ClosedMeansReleased
<1>13. ProofsMatch'
  BY <1>1, <1>2, <1>3, <1>4 DEF TypeOK, HoldingsMatch, ProofsMatch, SerialMatches, Accepts
<1>14. TrustedMeansValidated'
  BY <1>1, <1>2, <1>3, <1>4 DEF TypeOK, HoldingsMatch, ProofsMatch, TrustedMeansValidated
<1>15. QED
  BY <1>9, <1>10, <1>11, <1>12, <1>13, <1>14

LEMMA ClaimInterfacePreserves == IInv /\ ClaimInterface => IInv'
<1> SUFFICES ASSUME IInv, ClaimInterface PROVE IInv'
  OBVIOUS
<1> USE SerialsAndBounds DEF IInv, ownVars, Candidates, Steps
<1>1. /\ step = "claiming" /\ resources = None /\ candidate \in Resources
      /\ {Context, candidate.device} \subseteq candidate.handles
      /\ UNCHANGED <<opens, serial, resources, expired, opening, trusted, validated>>
  BY DEF ClaimInterface, HoldingsMatch, TypeOK
<1>2. PICK claimed \in BOOLEAN, ready \in BOOLEAN :
        /\ ready => claimed
        /\ candidate' = [candidate EXCEPT !.handles = @ \cup (IF claimed THEN {Claim} ELSE {}),
                                          !.session = ready]
        /\ native' = native \cup ({candidate.generation} \X (IF claimed THEN {Claim} ELSE {}))
        /\ step' = IF ready THEN "candidate" ELSE "abandoning"
  BY DEF ClaimInterface
<1>3. /\ candidate' \in Resources /\ candidate' # None
      /\ candidate'.handles = candidate.handles \cup (IF claimed THEN {Claim} ELSE {})
      /\ candidate'.device = candidate.device /\ candidate'.generation = candidate.generation
      /\ candidate'.session = ready
  <2>1. candidate.handles \cup (IF claimed THEN {Claim} ELSE {}) \in SUBSET Handles
    BY <1>1 DEF Resources, Handles
  <2>2. QED
    BY <1>1, <1>2, <2>1, NoneAssumption DEF Resources
<1>4. {Context, candidate'.device} \subseteq candidate'.handles /\ (ready => Claim \in candidate'.handles)
  BY <1>1, <1>2, <1>3
<1>5. native = {candidate.generation} \X candidate.handles
  BY <1>1, NoneAssumption DEF Owned, Objects
<1>6. native' = {candidate.generation} \X candidate'.handles
  BY <1>2, <1>3, <1>5, MorePairs
<1>7. TypeOK'
  BY <1>1, <1>2, <1>3, <1>4 DEF TypeOK
<1>8. HoldingsMatch'
  BY <1>1, <1>2, <1>3, <1>4 DEF TypeOK, HoldingsMatch
<1>9. Owned'
  BY <1>1, <1>3, <1>6 DEF Owned, Objects
<1>10. ClosedMeansReleased'
  BY <1>1, <1>2, <1>3, <1>4 DEF TypeOK, HoldingsMatch, ClosedMeansReleased
<1>11. ProofsMatch'
  BY <1>1, <1>2, <1>3, <1>4 DEF TypeOK, HoldingsMatch, ProofsMatch, SerialMatches, Accepts
<1>12. TrustedMeansValidated'
  BY <1>1, <1>2, <1>3, <1>4 DEF TypeOK, HoldingsMatch, ProofsMatch, TrustedMeansValidated
<1>13. QED
  BY <1>7, <1>8, <1>9, <1>10, <1>11, <1>12

LEMMA AbandonOpenPreserves == IInv /\ AbandonOpen => IInv'
<1> SUFFICES ASSUME IInv, AbandonOpen PROVE IInv'
  OBVIOUS
<1> USE SerialsAndBounds DEF IInv, ownVars, Candidates, Steps, Fails
<1>1. resources = None /\ candidate \in Resources /\ Context \in candidate.handles
  BY DEF AbandonOpen, HoldingsMatch, TypeOK
<1>2. PICK rest \in AfterClose(candidate) :
        Replace(candidate, rest) /\ resources' = RetainedAfterError(rest)
  BY DEF AbandonOpen
<1>3. rest \in Resources /\ ~rest.session /\ (rest.handles # {} => Context \in rest.handles)
  BY <1>1, ClosedOwner
<1>4. /\ candidate' = None /\ step' \in {"cleanup", "idle"} /\ ~trusted /\ step \in Candidates
      /\ UNCHANGED <<opens, serial, expired, opening, trusted, validated>>
  BY DEF AbandonOpen, Fails, ProofsMatch
<1>5. native' = Objects(rest)
  BY <1>1, <1>2, <1>3, ReplacedOwner DEF Owned, Objects
<1>6. /\ resources' \in Resources \cup {None} /\ Owned'
      /\ resources' # None =>
           ~resources'.session /\ (resources'.handles # {} => Context \in resources'.handles)
  BY <1>2, <1>3, <1>4, <1>5 DEF Owned, Objects, CloseOk, RetainedAfterError
<1>7. TypeOK'
  BY <1>4, <1>6 DEF TypeOK
<1>8. HoldingsMatch'
  BY <1>4, <1>6 DEF TypeOK, HoldingsMatch
<1>9. Owned'
  BY <1>4, <1>6 DEF Owned
<1>10. ClosedMeansReleased'
  BY <1>4, <1>6 DEF TypeOK, HoldingsMatch, ClosedMeansReleased
<1>11. ProofsMatch'
  BY <1>4, <1>6 DEF TypeOK, HoldingsMatch, ProofsMatch, SerialMatches, Accepts
<1>12. TrustedMeansValidated'
  BY <1>4, <1>6 DEF TypeOK, HoldingsMatch, ProofsMatch, TrustedMeansValidated
<1>13. QED
  BY <1>7, <1>8, <1>9, <1>10, <1>11, <1>12

LEMMA CheckCandidatePreserves == IInv /\ CheckCandidate => IInv'
<1> SUFFICES ASSUME IInv, CheckCandidate PROVE IInv'
  OBVIOUS
<1> USE SerialsAndBounds DEF IInv, CheckCandidate, ownVars, Candidates, Steps
<1>1. TypeOK'
  BY DEF TypeOK
<1>2. HoldingsMatch'
  BY DEF TypeOK, HoldingsMatch
<1>3. Owned'
  BY DEF TypeOK, HoldingsMatch, Owned, Objects
<1>4. ClosedMeansReleased'
  BY DEF TypeOK, HoldingsMatch, ClosedMeansReleased
<1>5. ProofsMatch'
  BY DEF TypeOK, HoldingsMatch, ProofsMatch, SerialMatches, Accepts
<1>6. TrustedMeansValidated'
  BY DEF TypeOK, HoldingsMatch, ProofsMatch, TrustedMeansValidated
<1>7. QED
  BY <1>1, <1>2, <1>3, <1>4, <1>5, <1>6

LEMMA DrainPendingPreserves == IInv /\ DrainPending => IInv'
<1> SUFFICES ASSUME IInv, DrainPending PROVE IInv'
  OBVIOUS
<1> USE SerialsAndBounds DEF IInv, DrainPending, ownVars, Candidates, Steps
<1>1. TypeOK'
  BY DEF TypeOK
<1>2. HoldingsMatch'
  BY DEF TypeOK, HoldingsMatch
<1>3. Owned'
  BY DEF TypeOK, HoldingsMatch, Owned, Objects
<1>4. ClosedMeansReleased'
  BY DEF TypeOK, HoldingsMatch, ClosedMeansReleased
<1>5. ProofsMatch'
  BY DEF TypeOK, HoldingsMatch, ProofsMatch, SerialMatches, Accepts
<1>6. TrustedMeansValidated'
  BY DEF TypeOK, HoldingsMatch, ProofsMatch, TrustedMeansValidated
<1>7. QED
  BY <1>1, <1>2, <1>3, <1>4, <1>5, <1>6

LEMMA IdentityFailsPreserves == IInv /\ IdentityFails => IInv'
<1> SUFFICES ASSUME IInv, IdentityFails PROVE IInv'
  OBVIOUS
<1> USE SerialsAndBounds DEF IInv, IdentityFails, ownVars, Candidates, Steps
<1>1. TypeOK'
  BY DEF TypeOK
<1>2. HoldingsMatch'
  BY DEF TypeOK, HoldingsMatch
<1>3. Owned'
  BY DEF TypeOK, HoldingsMatch, Owned, Objects
<1>4. ClosedMeansReleased'
  BY DEF TypeOK, HoldingsMatch, ClosedMeansReleased
<1>5. ProofsMatch'
  BY DEF TypeOK, HoldingsMatch, ProofsMatch, SerialMatches, Accepts
<1>6. TrustedMeansValidated'
  BY DEF TypeOK, HoldingsMatch, ProofsMatch, TrustedMeansValidated
<1>7. QED
  BY <1>1, <1>2, <1>3, <1>4, <1>5, <1>6

LEMMA IdentityProvedPreserves == IInv /\ IdentityProved => IInv'
<1> SUFFICES ASSUME IInv, IdentityProved PROVE IInv'
  OBVIOUS
<1> USE SerialsAndBounds DEF IInv, ownVars, Candidates, Steps
<1>1. /\ step = "identifying" /\ resources = None /\ candidate \in Resources /\ candidate # None
      /\ candidate.session /\ {Context, Claim, candidate.device} \subseteq candidate.handles
      /\ resources' = candidate /\ candidate' = None /\ UNCHANGED <<native, opens, expired>>
      /\ step' = "idle" /\ opening' = FALSE /\ trusted' = TRUE
      /\ serial' = IF opening THEN candidate.serial ELSE serial
  BY DEF IdentityProved, HoldingsMatch, TypeOK
<1>2. candidate.serial \in Serials /\ serial' = candidate.serial
  BY <1>1 DEF ProofsMatch, SerialMatches, Accepts, Resources
<1>3. validated' = validated \cup {<<candidate.generation, serial'>>} /\ candidate.generation \in Generations
  BY <1>1, <1>2 DEF IdentityProved, IdentityMatches, Resources
<1>4. \A proof \in validated : proof[2] = serial'
  BY <1>1, <1>2 DEF ProofsMatch, SerialMatches, Accepts
<1>5. validated' \in SUBSET (Generations \X Serials)
  BY <1>2, <1>3 DEF TypeOK
<1>6. TypeOK'
  BY <1>1, <1>2, <1>5 DEF TypeOK
<1>7. HoldingsMatch'
  BY <1>1, <1>2, <1>3, <1>4 DEF TypeOK, HoldingsMatch
<1>8. Owned'
  BY <1>1 DEF Owned, Objects
<1>9. ClosedMeansReleased'
  BY <1>1, <1>2, <1>3, <1>4 DEF TypeOK, HoldingsMatch, ClosedMeansReleased
<1>10. ProofsMatch'
  BY <1>1, <1>2, <1>3, <1>4 DEF TypeOK, HoldingsMatch, ProofsMatch, SerialMatches, Accepts
<1>11. TrustedMeansValidated'
  BY <1>1, <1>2, <1>3, <1>4 DEF TypeOK, HoldingsMatch, ProofsMatch, TrustedMeansValidated
<1>12. QED
  BY <1>6, <1>7, <1>8, <1>9, <1>10, <1>11

LEMMA RejectResourcesPreserves == IInv /\ RejectResources => IInv'
<1> SUFFICES ASSUME IInv, RejectResources PROVE IInv'
  OBVIOUS
<1> USE SerialsAndBounds DEF IInv, ownVars, Candidates, Steps, Fails
<1>1. resources = None /\ candidate \in Resources /\ Context \in candidate.handles
  BY DEF RejectResources, HoldingsMatch, TypeOK
<1>2. PICK rest \in AfterClose(candidate) :
        Replace(candidate, rest) /\ resources' = IF CloseOk(rest, expired) THEN None ELSE rest
  BY DEF RejectResources
<1>3. rest \in Resources /\ ~rest.session /\ (rest.handles # {} => Context \in rest.handles)
  BY <1>1, ClosedOwner
<1>4. /\ candidate' = None /\ step' \in {"cleanup", "idle"} /\ ~trusted /\ step \in Candidates
      /\ UNCHANGED <<opens, serial, expired, opening, trusted, validated>>
  BY DEF RejectResources, Fails, ProofsMatch
<1>5. native' = Objects(rest)
  BY <1>1, <1>2, <1>3, ReplacedOwner DEF Owned, Objects
<1>6. /\ resources' \in Resources \cup {None} /\ Owned'
      /\ resources' # None =>
           ~resources'.session /\ (resources'.handles # {} => Context \in resources'.handles)
  BY <1>2, <1>3, <1>4, <1>5 DEF Owned, Objects, CloseOk, RetainedAfterError
<1>7. TypeOK'
  BY <1>4, <1>6 DEF TypeOK
<1>8. HoldingsMatch'
  BY <1>4, <1>6 DEF TypeOK, HoldingsMatch
<1>9. Owned'
  BY <1>4, <1>6 DEF Owned
<1>10. ClosedMeansReleased'
  BY <1>4, <1>6 DEF TypeOK, HoldingsMatch, ClosedMeansReleased
<1>11. ProofsMatch'
  BY <1>4, <1>6 DEF TypeOK, HoldingsMatch, ProofsMatch, SerialMatches, Accepts
<1>12. TrustedMeansValidated'
  BY <1>4, <1>6 DEF TypeOK, HoldingsMatch, ProofsMatch, TrustedMeansValidated
<1>13. QED
  BY <1>7, <1>8, <1>9, <1>10, <1>11, <1>12

LEMMA CleanUpOpenPreserves == IInv /\ CleanUpOpen => IInv'
<1> SUFFICES ASSUME IInv, CleanUpOpen PROVE IInv'
  OBVIOUS
<1> USE SerialsAndBounds DEF IInv, ownVars, Candidates, Steps
<1>1. candidate = None /\ candidate' = None
  BY DEF CleanUpOpen, HoldingsMatch
<1>2. PICK ended \in BOOLEAN : CloseBackend(ended, "closed", "failed")
  BY DEF CleanUpOpen
<1>3. /\ resources' \in Resources \cup {None}
      /\ resources' # None =>
           ~resources'.session /\ (resources'.handles # {} => Context \in resources'.handles)
      /\ Owned'
      /\ step' \in {"closed", "failed"}
      /\ step' = "closed" => resources' = None /\ native' = {}
  BY <1>1, <1>2, BackendClosed
<1>4. UNCHANGED <<opens, serial, candidate, expired, opening, trusted, validated>>
  BY DEF CleanUpOpen
<1>5. TypeOK'
  BY <1>1, <1>3, <1>4 DEF TypeOK
<1>6. HoldingsMatch'
  BY <1>1, <1>3, <1>4 DEF TypeOK, HoldingsMatch
<1>7. Owned'
  BY <1>1, <1>3, <1>4 DEF Owned
<1>8. ClosedMeansReleased'
  BY <1>1, <1>3, <1>4 DEF TypeOK, HoldingsMatch, ClosedMeansReleased
<1>9. ProofsMatch'
  BY <1>1, <1>3, <1>4 DEF TypeOK, HoldingsMatch, ProofsMatch, SerialMatches, Accepts
<1>10. TrustedMeansValidated'
  BY <1>1, <1>3, <1>4 DEF TypeOK, HoldingsMatch, ProofsMatch, TrustedMeansValidated
<1>11. QED
  BY <1>5, <1>6, <1>7, <1>8, <1>9, <1>10

LEMMA RetryClosePreserves == IInv /\ RetryClose => IInv'
<1> SUFFICES ASSUME IInv, RetryClose PROVE IInv'
  OBVIOUS
<1> USE SerialsAndBounds DEF IInv, ownVars, Candidates, Steps
<1>1. candidate = None /\ candidate' = None
  BY DEF RetryClose, HoldingsMatch
<1>2. PICK ended \in BOOLEAN : CloseBackend(ended, "closed", "failed")
  BY DEF RetryClose, CloseBackend
<1>3. /\ resources' \in Resources \cup {None}
      /\ resources' # None =>
           ~resources'.session /\ (resources'.handles # {} => Context \in resources'.handles)
      /\ Owned'
      /\ step' \in {"closed", "failed"}
      /\ step' = "closed" => resources' = None /\ native' = {}
  BY <1>1, <1>2, BackendClosed
<1>4. UNCHANGED <<opens, serial, candidate, expired, opening, trusted, validated>>
  BY DEF RetryClose
<1>5. TypeOK'
  BY <1>1, <1>3, <1>4 DEF TypeOK
<1>6. HoldingsMatch'
  BY <1>1, <1>3, <1>4 DEF TypeOK, HoldingsMatch
<1>7. Owned'
  BY <1>1, <1>3, <1>4 DEF Owned
<1>8. ClosedMeansReleased'
  BY <1>1, <1>3, <1>4 DEF TypeOK, HoldingsMatch, ClosedMeansReleased
<1>9. ProofsMatch'
  BY <1>1, <1>3, <1>4 DEF TypeOK, HoldingsMatch, ProofsMatch, SerialMatches, Accepts
<1>10. TrustedMeansValidated'
  BY <1>1, <1>3, <1>4 DEF TypeOK, HoldingsMatch, ProofsMatch, TrustedMeansValidated
<1>11. QED
  BY <1>5, <1>6, <1>7, <1>8, <1>9, <1>10

LEMMA ExchangePreserves == IInv /\ Exchange => IInv'
<1> SUFFICES ASSUME IInv, Exchange PROVE IInv'
  OBVIOUS
<1> USE SerialsAndBounds DEF IInv, Exchange, ownVars, Candidates, Steps
<1>1. TypeOK'
  BY DEF TypeOK
<1>2. HoldingsMatch'
  BY DEF TypeOK, HoldingsMatch
<1>3. Owned'
  BY DEF TypeOK, HoldingsMatch, Owned, Objects
<1>4. ClosedMeansReleased'
  BY DEF TypeOK, HoldingsMatch, ClosedMeansReleased
<1>5. ProofsMatch'
  BY DEF TypeOK, HoldingsMatch, ProofsMatch, SerialMatches, Accepts
<1>6. TrustedMeansValidated'
  BY DEF TypeOK, HoldingsMatch, ProofsMatch, TrustedMeansValidated
<1>7. QED
  BY <1>1, <1>2, <1>3, <1>4, <1>5, <1>6

LEMMA ExchangeReturnsPreserves == IInv /\ ExchangeReturns => IInv'
<1> SUFFICES ASSUME IInv, ExchangeReturns PROVE IInv'
  OBVIOUS
<1> USE SerialsAndBounds DEF IInv, ExchangeReturns, ownVars, Candidates, Steps
<1>1. TypeOK'
  BY DEF TypeOK
<1>2. HoldingsMatch'
  BY DEF TypeOK, HoldingsMatch
<1>3. Owned'
  BY DEF TypeOK, HoldingsMatch, Owned, Objects
<1>4. ClosedMeansReleased'
  BY DEF TypeOK, HoldingsMatch, ClosedMeansReleased
<1>5. ProofsMatch'
  BY DEF TypeOK, HoldingsMatch, ProofsMatch, SerialMatches, Accepts
<1>6. TrustedMeansValidated'
  BY DEF TypeOK, HoldingsMatch, ProofsMatch, TrustedMeansValidated
<1>7. QED
  BY <1>1, <1>2, <1>3, <1>4, <1>5, <1>6

LEMMA ClosePreserves == IInv /\ Close => IInv'
<1> SUFFICES ASSUME IInv, Close PROVE IInv'
  OBVIOUS
<1> USE SerialsAndBounds DEF IInv, ownVars, Candidates, Steps
<1>1. candidate = None /\ candidate' = None
  BY DEF Close, HoldingsMatch
<1>2. PICK ended \in BOOLEAN : CloseBackend(ended, "closed", "failed")
  BY DEF Close
<1>3. /\ resources' \in Resources \cup {None}
      /\ resources' # None =>
           ~resources'.session /\ (resources'.handles # {} => Context \in resources'.handles)
      /\ Owned'
      /\ step' \in {"closed", "failed"}
      /\ step' = "closed" => resources' = None /\ native' = {}
  BY <1>1, <1>2, BackendClosed
<1>4. UNCHANGED <<opens, serial, candidate, expired, opening, trusted, validated>>
  BY DEF Close
<1>5. TypeOK'
  BY <1>1, <1>3, <1>4 DEF TypeOK
<1>6. HoldingsMatch'
  BY <1>1, <1>3, <1>4 DEF TypeOK, HoldingsMatch
<1>7. Owned'
  BY <1>1, <1>3, <1>4 DEF Owned
<1>8. ClosedMeansReleased'
  BY <1>1, <1>3, <1>4 DEF TypeOK, HoldingsMatch, ClosedMeansReleased
<1>9. ProofsMatch'
  BY <1>1, <1>3, <1>4 DEF TypeOK, HoldingsMatch, ProofsMatch, SerialMatches, Accepts
<1>10. TrustedMeansValidated'
  BY <1>1, <1>3, <1>4 DEF TypeOK, HoldingsMatch, ProofsMatch, TrustedMeansValidated
<1>11. QED
  BY <1>5, <1>6, <1>7, <1>8, <1>9, <1>10

LEMMA FinishedPreserves == IInv /\ Finished => IInv'
<1> SUFFICES ASSUME IInv, Finished PROVE IInv'
  OBVIOUS
<1> USE SerialsAndBounds DEF IInv, Finished, ownVars, Candidates, Steps, vars
<1>1. TypeOK'
  BY DEF TypeOK
<1>2. HoldingsMatch'
  BY DEF TypeOK, HoldingsMatch
<1>3. Owned'
  BY DEF TypeOK, HoldingsMatch, Owned, Objects
<1>4. ClosedMeansReleased'
  BY DEF TypeOK, HoldingsMatch, ClosedMeansReleased
<1>5. ProofsMatch'
  BY DEF TypeOK, HoldingsMatch, ProofsMatch, SerialMatches, Accepts
<1>6. TrustedMeansValidated'
  BY DEF TypeOK, HoldingsMatch, ProofsMatch, TrustedMeansValidated
<1>7. QED
  BY <1>1, <1>2, <1>3, <1>4, <1>5, <1>6

LEMMA StepPreserves == IInv /\ [Next]_vars => IInv'
<1>1. IInv /\ UNCHANGED vars => IInv'
  BY DEF IInv, vars, ownVars, TypeOK, HoldingsMatch, Owned, Objects, ClosedMeansReleased,
         ProofsMatch, SerialMatches, Accepts, TrustedMeansValidated
<1>2. QED
  BY <1>1, ExpirePreserves, OpenPreserves, ReopenAndValidatePreserves, ClosePreviousPreserves,
     AcquireExpiresPreserves, EnumeratePreserves, ClosePeersPreserves, ClaimInterfacePreserves,
     AbandonOpenPreserves, CheckCandidatePreserves, DrainPendingPreserves,
     IdentityFailsPreserves, IdentityProvedPreserves, RejectResourcesPreserves,
     CleanUpOpenPreserves, RetryClosePreserves, ExchangePreserves, ExchangeReturnsPreserves,
     ClosePreserves, FinishedPreserves DEF Next

\* IInv holds in every reachable state.
THEOREM Invariance == Spec => []IInv
<1>1. QED
  BY InitIInv, StepPreserves, PTL DEF Spec

\* However many native calls fail, what is open is owned by what a later Close
\* reaches, it is of one acquisition, and a Close that succeeds has released it.
THEOREM ResourcesTheorem == Spec => []ResourcesAccounted
<1>1. IInv => NothingLeaks /\ OneGeneration
  <2> SUFFICES ASSUME IInv PROVE NothingLeaks /\ OneGeneration
    OBVIOUS
  <2>1. PICK r \in Resources \cup {None} :
          native = Objects(r) /\ (r # None /\ r.handles # {} => Context \in r.handles)
    BY DEF IInv, Owned, Objects, HoldingsMatch, TypeOK, Candidates
  <2>2. QED
    BY <2>1 DEF IInv, NothingLeaks, OneGeneration, Objects, Owned
<1>2. IInv => ResourcesAccounted
  BY <1>1 DEF IInv, ResourcesAccounted
<1>3. QED
  BY <1>2, Invariance, PTL

\* What the Session may use is open and complete, and every proof of identity that
\* was ever given named the one instrument that Open chose.
THEOREM TrustTheorem == Spec => []TrustIsJustified
<1>1. IInv => TrustIsJustified
  BY DEF IInv, TrustIsJustified, ProofsMatch, SameInstrument
<1>2. QED
  BY <1>1, Invariance, PTL

-----------------------------------------------------------------------------
(* Bytes                                                                     *)

LEMMA BytesTyped ==
  ASSUME NEW q \in Seq(Bytes)
  PROVE  /\ Len(q) \in Nat /\ DOMAIN q = 1..Len(q)
         /\ \A i \in 1..Len(q) : q[i] \in Bytes /\ q[i].value \in 0 .. Base - 1 /\ q[i].of \in Nat
<1>1. Len(q) \in Nat /\ DOMAIN q = 1..Len(q)
  BY LenProperties
<1>2. \A i \in 1..Len(q) : q[i] \in Bytes
  BY ElementOfSeq
<1>3. QED
  BY <1>1, <1>2 DEF Bytes

\* A sequence is cut in two.
LEMMA Cut ==
  ASSUME NEW S, NEW q \in Seq(S), NEW n \in 0..Len(q)
  PROVE  /\ SubSeq(q, 1, n) \in Seq(S) /\ SubSeq(q, n + 1, Len(q)) \in Seq(S)
         /\ Len(SubSeq(q, 1, n)) = n /\ Len(SubSeq(q, n + 1, Len(q))) = Len(q) - n
         /\ \A i \in 1..n : SubSeq(q, 1, n)[i] = q[i]
         /\ \A i \in 1..Len(q) - n : SubSeq(q, n + 1, Len(q))[i] = q[n + i]
         /\ SubSeq(q, 1, n) \o SubSeq(q, n + 1, Len(q)) = q
<1>1. Len(q) \in Nat /\ (\A i \in 1..Len(q) : q[i] \in S)
  BY LenProperties, ElementOfSeq
<1>2. /\ SubSeq(q, 1, n) \in Seq(S)
      /\ Len(SubSeq(q, 1, n)) = IF 1 <= n THEN n - 1 + 1 ELSE 0
      /\ \A i \in 1..n - 1 + 1 : SubSeq(q, 1, n)[i] = q[1 + i - 1]
  <2>1. \A i \in 1..n : q[i] \in S
    BY <1>1
  <2>2. 1 \in Int /\ n \in Int
    BY <1>1
  <2>3. QED
    BY <2>1, <2>2, SubSeqProperties
<1>3. /\ SubSeq(q, n + 1, Len(q)) \in Seq(S)
      /\ Len(SubSeq(q, n + 1, Len(q))) = IF n + 1 <= Len(q) THEN Len(q) - (n + 1) + 1 ELSE 0
      /\ \A i \in 1..Len(q) - (n + 1) + 1 : SubSeq(q, n + 1, Len(q))[i] = q[(n + 1) + i - 1]
  <2>1. \A i \in n + 1..Len(q) : q[i] \in S
    BY <1>1
  <2>2. n + 1 \in Int /\ Len(q) \in Int
    BY <1>1
  <2>3. QED
    BY <2>1, <2>2, SubSeqProperties
<1>4. /\ Len(SubSeq(q, 1, n)) = n
      /\ \A i \in 1..n : SubSeq(q, 1, n)[i] = q[i]
  <2>1. n - 1 + 1 = n /\ (\A i \in 1..n : 1 + i - 1 = i)
    BY <1>1
  <2>2. QED
    BY <1>1, <1>2, <2>1
<1>5. /\ Len(SubSeq(q, n + 1, Len(q))) = Len(q) - n
      /\ \A i \in 1..Len(q) - n : SubSeq(q, n + 1, Len(q))[i] = q[n + i]
  <2> DEFINE rest == SubSeq(q, n + 1, Len(q))
  <2>1. /\ Len(q) - (n + 1) + 1 = Len(q) - n
        /\ (\A i \in 1..Len(q) - n : (n + 1) + i - 1 = n + i)
        /\ ~(n + 1 <= Len(q)) => Len(q) - n = 0
    BY <1>1
  <2>2. Len(rest) = Len(q) - n
    BY <1>3, <2>1
  <2>3. \A i \in 1..Len(q) - n : rest[i] = q[(n + 1) + i - 1]
    BY <1>3, <2>1
  <2>4. \A i \in 1..Len(q) - n : rest[i] = q[n + i]
    BY <2>1, <2>3
  <2>5. QED
    BY <2>2, <2>4
<1>6. SubSeq(q, 1, n) \o SubSeq(q, n + 1, Len(q)) = q
  <2>1. 1 \in 1..Len(q) + 1 /\ n \in 1 - 1..Len(q) /\ Len(q) \in n..Len(q)
    BY <1>1
  <2>2. SubSeq(q, 1, n) \o SubSeq(q, n + 1, Len(q)) = SubSeq(q, 1, Len(q))
    BY <2>1, ConcatAdjacentSubSeq
  <2>3. QED
    BY <2>2, SubSeqFull
<1>7. QED
  BY <1>2, <1>3, <1>4, <1>5, <1>6

\* The elements of two sequences in a row.
LEMMA Joined ==
  ASSUME NEW S, NEW p \in Seq(S), NEW q \in Seq(S)
  PROVE  /\ p \o q \in Seq(S) /\ Len(p) \in Nat /\ Len(q) \in Nat
         /\ Len(p \o q) = Len(p) + Len(q)
         /\ \A i \in 1..Len(p) : (p \o q)[i] = p[i]
         /\ \A i \in 1..Len(q) : (p \o q)[Len(p) + i] = q[i]
         /\ \A i \in 1..Len(p \o q) :
              i \in 1..Len(p) \/ (i > Len(p) /\ i - Len(p) \in 1..Len(q)
                                    /\ (p \o q)[i] = q[i - Len(p)])
<1>1. Len(p) \in Nat /\ Len(q) \in Nat
  BY LenProperties
<1>2. /\ p \o q \in Seq(S) /\ Len(p \o q) = Len(p) + Len(q)
      /\ \A i \in 1..Len(p) + Len(q) : (p \o q)[i] = IF i <= Len(p) THEN p[i] ELSE q[i - Len(p)]
  BY ConcatProperties
<1>3. \A i \in 1..Len(p) : i \in 1..Len(p) + Len(q) /\ i <= Len(p)
  BY <1>1
<1>4. \A i \in 1..Len(q) : Len(p) + i \in 1..Len(p) + Len(q) /\ ~(Len(p) + i <= Len(p))
                             /\ (Len(p) + i) - Len(p) = i
  BY <1>1
<1>5. \A i \in 1..Len(p) + Len(q) :
        i \in 1..Len(p) \/ (i > Len(p) /\ i - Len(p) \in 1..Len(q) /\ ~(i <= Len(p)))
  BY <1>1
<1>6. QED
  BY <1>1, <1>2, <1>3, <1>4, <1>5

\* A prefix is read off the first part.
LEMMA FirstPart ==
  ASSUME NEW S, NEW p \in Seq(S), NEW q \in Seq(S), NEW n \in 0..Len(p)
  PROVE  SubSeq(p \o q, 1, n) = SubSeq(p, 1, n)
<1>1. /\ p \o q \in Seq(S) /\ Len(p) \in Nat /\ Len(q) \in Nat /\ Len(p \o q) = Len(p) + Len(q)
      /\ \A i \in 1..Len(p) : (p \o q)[i] = p[i]
  BY Joined
<1>2. n \in 0..Len(p \o q)
  BY <1>1
<1>3. /\ SubSeq(p \o q, 1, n) \in Seq(S) /\ Len(SubSeq(p \o q, 1, n)) = n
      /\ \A i \in 1..n : SubSeq(p \o q, 1, n)[i] = (p \o q)[i]
  BY <1>1, <1>2, Cut
<1>4. /\ SubSeq(p, 1, n) \in Seq(S) /\ Len(SubSeq(p, 1, n)) = n
      /\ \A i \in 1..n : SubSeq(p, 1, n)[i] = p[i]
  BY Cut
<1>5. \A i \in 1..n : SubSeq(p \o q, 1, n)[i] = SubSeq(p, 1, n)[i]
  BY <1>1, <1>3, <1>4
<1>6. QED
  BY <1>3, <1>4, <1>5, SeqEqual

\* A set of numbers has a smallest one.
LEMMA SmallestNumber ==
  ASSUME NEW R \in SUBSET Nat, R # {}
  PROVE  Min(R) \in R /\ \A i \in R : Min(R) <= i
<1>1. IsWellFoundedOn(OpToRel(<, Nat), Nat)
  BY NatLessThanWellFounded
<1>2. PICK k \in R : \A j \in R : ~ (<<j, k>> \in OpToRel(<, Nat))
  BY <1>1, WFMin
<1>3. k \in R /\ \A j \in R : k <= j
  <2>1. \A j \in R : j \in Nat /\ k \in Nat /\ ~ (j < k)
    BY <1>2 DEF OpToRel
  <2>2. QED
    BY <2>1
<1>4. QED
  BY <1>3 DEF Min

LEMMA SmallestSubset ==
  ASSUME NEW I, IsFiniteSet(I), NEW T \in SUBSET (SUBSET I), T # {}
  PROVE  \E x \in T : \A y \in T : y \subseteq x => y = x
<1>1. IsWellFoundedOn(StrictSubsetOrdering(I), FiniteSubsetsOf(I))
  BY FS_StrictSubsetOrderingWellFounded
<1>2. FiniteSubsetsOf(I) = SUBSET I
  BY FS_FiniteSubsetsOfFinite
<1>3. PICK x \in T : \A y \in T : ~ (<<y, x>> \in StrictSubsetOrdering(I))
  BY <1>1, <1>2, WFMin
<1>4. QED
  BY <1>3 DEF StrictSubsetOrdering

-----------------------------------------------------------------------------
(* The value of a length prefix is a number. The fold takes the lowest place of  *)
(* a set of places first.                                                       *)

Folds(f, q, D) ==
  f = [s \in SUBSET D |-> IF s = {} THEN 0 ELSE q[Min(s)].value + Base * f[s \ {Min(s)}]]
Folded(q) == CHOOSE f : Folds(f, q, DOMAIN q)

LEMMA LittleEndianFolds ==
  ASSUME NEW q
  PROVE  LittleEndian(q) = Folded(q)[DOMAIN q]
  BY DEF LittleEndian, FoldRight, MapThenFoldSet, Folded, Folds

LEMMA FoldExists ==
  ASSUME NEW q, NEW D, IsFiniteSet(D), \A i \in D : i \in Nat
  PROVE  \E f : Folds(f, q, D)
<1> DEFINE T == {s \in SUBSET D : ~ \E f : Folds(f, q, s)}
<1>1. T \in SUBSET (SUBSET D)
  OBVIOUS
<1> HIDE DEF T
<1>2. ASSUME T # {} PROVE FALSE
  <2>1. IsFiniteSet(D)
    OBVIOUS
  <2>2. \E x \in T : \A y \in T : y \subseteq x => y = x
    BY <1>1, <1>2, <2>1, SmallestSubset
  <2>3. PICK s \in T : \A y \in T : y \subseteq s => y = s
    BY <2>2
  <2>4. s \in SUBSET D /\ ~ \E f : Folds(f, q, s)
    BY <2>3 DEF T
  <2>5. CASE s = {}
    <3>1. Folds([t \in SUBSET {} |-> 0], q, {})
      BY DEF Folds
    <3>2. QED
      BY <2>4, <2>5, <3>1
  <2>6. CASE s # {}
    <3> DEFINE x == Min(s)
               r == s \ {x}
    <3>1. x \in s /\ \A i \in s : x <= i
      BY <2>4, <2>6, SmallestNumber
    <3> HIDE DEF x
    <3>2. r \notin T /\ r \in SUBSET D
      BY <2>3, <2>4, <3>1
    <3>3. PICK f : Folds(f, q, r)
      BY <3>2 DEF T
    <3> DEFINE g == [t \in SUBSET s |-> IF x \in t THEN q[x].value + Base * f[t \ {x}] ELSE f[t]]
               G(t) == IF t = {} THEN 0 ELSE q[Min(t)].value + Base * g[t \ {Min(t)}]
    <3>4. \A t \in SUBSET r : f[t] = IF t = {} THEN 0 ELSE q[Min(t)].value + Base * f[t \ {Min(t)}]
      BY <3>3 DEF Folds
    <3>5. ASSUME NEW t \in SUBSET s PROVE g[t] = G(t)
      <4>1. CASE x \in t
        <5>1. t \in SUBSET Nat /\ t # {}
          BY <2>4, <4>1
        <5>2. Min(t) = x
          <6>1. Min(t) \in t /\ Min(t) <= x
            BY <4>1, <5>1, SmallestNumber
          <6>2. x <= Min(t) /\ x \in Nat /\ Min(t) \in Nat
            BY <3>1, <5>1, <6>1, <4>1
          <6>3. QED
            BY <6>1, <6>2
        <5>3. t \ {x} \in SUBSET s /\ x \notin t \ {x}
          OBVIOUS
        <5>4. g[t \ {x}] = f[t \ {x}]
          BY <5>3
        <5>5. QED
          BY <4>1, <5>1, <5>2, <5>4
      <4>2. CASE x \notin t
        <5>1. t \in SUBSET r /\ g[t] = f[t]
          BY <4>2
        <5>2. CASE t = {}
          BY <5>1, <5>2, <3>4
        <5>3. CASE t # {}
          <6>1. t \ {Min(t)} \in SUBSET s /\ x \notin t \ {Min(t)}
            BY <4>2
          <6>2. g[t \ {Min(t)}] = f[t \ {Min(t)}]
            BY <6>1
          <6>3. f[t] = q[Min(t)].value + Base * f[t \ {Min(t)}]
            BY <5>1, <5>3, <3>4
          <6>4. QED
            BY <5>1, <5>3, <6>2, <6>3
        <5>4. QED
          BY <5>2, <5>3
      <4>3. QED
        BY <4>1, <4>2
    <3>6. g = [t \in SUBSET s |-> G(t)]
      <4>1. g = [t \in SUBSET s |-> g[t]]
        OBVIOUS
      <4> HIDE DEF g
      <4>2. QED
        BY <4>1, <3>5
    <3>7. Folds(g, q, s)
      <4> HIDE DEF g
      <4>1. QED
        BY <3>6 DEF Folds
    <3>8. QED
      BY <2>4, <3>7
  <2>7. QED
    BY <2>5, <2>6
<1>3. QED
  BY <1>2 DEF T

LEMMA LittleEndianType ==
  ASSUME NEW q \in Seq(Bytes)
  PROVE  LittleEndian(q) \in Nat
<1> DEFINE D == DOMAIN q
           f == Folded(q)
           T == {s \in SUBSET D : f[s] \notin Nat}
<1>1. D = 1..Len(q) /\ Len(q) \in Nat /\ IsFiniteSet(D) /\ D \in SUBSET Nat
  <2>1. D = 1..Len(q) /\ Len(q) \in Nat
    BY BytesTyped
  <2>2. QED
    BY <2>1, FS_Interval
<1>2. Folds(f, q, D)
  <2>1. \E h : Folds(h, q, D)
    BY <1>1, FoldExists
  <2>2. QED
    BY <2>1 DEF Folded
<1> HIDE DEF f
<1>3. \A s \in SUBSET D : f[s] = IF s = {} THEN 0 ELSE q[Min(s)].value + Base * f[s \ {Min(s)}]
  <2> HIDE DEF D
  <2>1. QED
    BY <1>2 DEF Folds
<1>4. T = {}
  <2>1. T \in SUBSET (SUBSET D)
    OBVIOUS
  <2>2. SUFFICES ASSUME T # {} PROVE FALSE
    OBVIOUS
  <2> HIDE DEF T
  <2>3. PICK s \in T : \A y \in T : y \subseteq s => y = s
    BY <1>1, <2>1, <2>2, SmallestSubset
  <2>4. s \in SUBSET D /\ f[s] \notin Nat
    BY <2>3 DEF T
  <2>5. s # {}
    <3>1. {} \in SUBSET D /\ 0 \in Nat
      OBVIOUS
    <3>2. f[{}] = 0
      BY <1>3, <3>1
    <3>3. QED
      BY <2>4, <3>1, <3>2
  <2>6. Min(s) \in s
    BY <1>1, <2>4, <2>5, SmallestNumber
  <2>7. s \ {Min(s)} \notin T /\ s \ {Min(s)} \in SUBSET D
    BY <2>3, <2>4, <2>6
  <2>8. f[s \ {Min(s)}] \in Nat
    BY <2>7 DEF T
  <2>9. f[s] = q[Min(s)].value + Base * f[s \ {Min(s)}]
    BY <1>3, <2>4, <2>5
  <2>10. q[Min(s)].value \in Nat /\ Base \in Nat
    <3>1. Min(s) \in 1..Len(q)
      BY <1>1, <2>4, <2>6
    <3>2. Base \in Nat /\ q[Min(s)].value \in 0 .. Base - 1
      BY <3>1, BytesTyped, DecoderAssumption
    <3>3. QED
      BY <3>2
  <2>11. \A a, b, c \in Nat : a + b * c \in Nat
    OBVIOUS
  <2>12. QED
    BY <2>4, <2>8, <2>9, <2>10, <2>11
<1>5. f[D] \in Nat
  BY <1>4
<1>6. QED
  BY <1>5, LittleEndianFolds DEF f

-----------------------------------------------------------------------------
(* Parts of a sequence                                                       *)

LEMMA Stretch ==
  ASSUME NEW S, NEW q \in Seq(S), NEW n \in 0..Len(q), NEW m \in 0..n
  PROVE  /\ SubSeq(q, m + 1, n) \in Seq(S) /\ Len(SubSeq(q, m + 1, n)) = n - m
         /\ \A i \in 1..n - m : SubSeq(q, m + 1, n)[i] = q[m + i]
<1> DEFINE part == SubSeq(q, m + 1, n)
<1>1. /\ Len(q) \in Nat /\ n \in Nat /\ m \in Nat /\ n <= Len(q) /\ m <= n
      /\ \A i \in 1..Len(q) : q[i] \in S
  BY LenProperties, ElementOfSeq
<1>2. \A i \in m + 1..n : q[i] \in S
  BY <1>1
<1>3. m + 1 \in Int /\ n \in Int
  BY <1>1
<1>4. /\ part \in Seq(S) /\ Len(part) = IF m + 1 <= n THEN n - (m + 1) + 1 ELSE 0
      /\ \A i \in 1..n - (m + 1) + 1 : part[i] = q[(m + 1) + i - 1]
  BY <1>2, <1>3, SubSeqProperties
<1>5. /\ n - (m + 1) + 1 = n - m /\ (~(m + 1 <= n) => n - m = 0)
      /\ \A i \in 1..n - m : (m + 1) + i - 1 = m + i
  BY <1>1
<1>6. Len(part) = n - m
  BY <1>4, <1>5
<1>7. \A i \in 1..n - m : part[i] = q[(m + 1) + i - 1]
  BY <1>4, <1>5
<1>8. \A i \in 1..n - m : part[i] = q[m + i]
  BY <1>5, <1>7
<1>9. QED
  BY <1>4, <1>6, <1>8

LEMMA Regrouped ==
  ASSUME NEW S, NEW a \in Seq(S), NEW b \in Seq(S), NEW c \in Seq(S)
  PROVE  (a \o b) \o c = a \o (b \o c)
  BY ConcatAssociative

\* What follows a prefix that ends in the second part.
LEMMA LastPart ==
  ASSUME NEW S, NEW p \in Seq(S), NEW q \in Seq(S), NEW n \in 0..Len(q)
  PROVE  SubSeq(p \o q, Len(p) + n + 1, Len(p \o q)) = SubSeq(q, n + 1, Len(q))
<1> DEFINE all == p \o q
           left == SubSeq(all, Len(p) + n + 1, Len(all))
           right == SubSeq(q, n + 1, Len(q))
<1>1. /\ all \in Seq(S) /\ Len(p) \in Nat /\ Len(q) \in Nat /\ Len(all) = Len(p) + Len(q)
      /\ \A i \in 1..Len(q) : all[Len(p) + i] = q[i]
  BY Joined
<1> HIDE DEF all
<1>2. /\ Len(p) + n \in 0..Len(all) /\ Len(all) \in 0..Len(all)
      /\ Len(q) \in 0..Len(q) /\ n \in 0..Len(q) /\ Len(p) + n + 1 = (Len(p) + n) + 1
  BY <1>1
<1>3. /\ left \in Seq(S) /\ Len(left) = Len(all) - (Len(p) + n)
      /\ \A i \in 1..Len(all) - (Len(p) + n) : left[i] = all[(Len(p) + n) + i]
  BY <1>1, <1>2, Stretch
<1>4. /\ right \in Seq(S) /\ Len(right) = Len(q) - n
      /\ \A i \in 1..Len(q) - n : right[i] = q[n + i]
  BY <1>1, <1>2, Stretch
<1> HIDE DEF left, right
<1>5. Len(all) - (Len(p) + n) = Len(q) - n
  BY <1>1, <1>2
<1>6. \A i \in 1..Len(q) - n :
        /\ (Len(p) + n) + i = Len(p) + (n + i) /\ n + i \in 1..Len(q)
  BY <1>1, <1>2
<1>7. ASSUME NEW i \in 1..Len(left) PROVE left[i] = right[i]
  <2>1. i \in 1..Len(q) - n
    BY <1>3, <1>5
  <2>2. left[i] = all[(Len(p) + n) + i] /\ right[i] = q[n + i]
    BY <1>3, <1>4, <1>5, <2>1
  <2>3. all[(Len(p) + n) + i] = q[n + i]
    BY <1>1, <1>6, <2>1
  <2>4. QED
    BY <2>2, <2>3
<1>8. left = right
  BY <1>3, <1>4, <1>5, <1>7, SeqEqual
<1>9. QED
  BY <1>8 DEF left, right, all

\* A prefix that ends in the second part.
LEMMA LongerPart ==
  ASSUME NEW S, NEW p \in Seq(S), NEW q \in Seq(S), NEW n \in 0..Len(q)
  PROVE  /\ SubSeq(p \o q, 1, Len(p) + n) = p \o SubSeq(q, 1, n)
         /\ p \o SubSeq(q, 1, n) \in Seq(S) /\ Len(p \o SubSeq(q, 1, n)) = Len(p) + n
<1> DEFINE head == SubSeq(q, 1, n)
           rest == SubSeq(q, n + 1, Len(q))
<1>1. /\ head \in Seq(S) /\ rest \in Seq(S) /\ Len(head) = n /\ head \o rest = q
  BY Cut
<1> HIDE DEF head, rest
<1>2. p \o q = (p \o head) \o rest
  <2>1. (p \o head) \o rest = p \o (head \o rest)
    <3>1. head \in Seq(S) /\ rest \in Seq(S)
      BY <1>1
    <3>2. QED
      BY <3>1, Regrouped
  <2>2. QED
    BY <1>1, <2>1
<1>3. /\ p \o head \in Seq(S) /\ Len(p) \in Nat /\ Len(head) \in Nat
      /\ Len(p \o head) = Len(p) + n
  BY <1>1, Joined
<1>4. Len(p \o head) \in 0..Len(p \o head)
  BY <1>3, LenProperties
<1>5. SubSeq((p \o head) \o rest, 1, Len(p \o head)) = SubSeq(p \o head, 1, Len(p \o head))
  BY <1>1, <1>3, <1>4, FirstPart
<1>6. SubSeq(p \o head, 1, Len(p \o head)) = p \o head
  BY <1>3, SubSeqFull
<1>7. QED
  BY <1>2, <1>3, <1>5, <1>6 DEF head

\* A prefix of the second part.
LEMMA MiddlePart ==
  ASSUME NEW S, NEW p \in Seq(S), NEW q \in Seq(S), NEW n \in 0..Len(q)
  PROVE  SubSeq(p \o q, Len(p) + 1, Len(p) + n) = SubSeq(q, 1, n)
<1> DEFINE all == p \o q
           left == SubSeq(all, Len(p) + 1, Len(p) + n)
           right == SubSeq(q, 1, n)
<1>1. /\ all \in Seq(S) /\ Len(p) \in Nat /\ Len(q) \in Nat /\ Len(all) = Len(p) + Len(q)
      /\ \A i \in 1..Len(q) : all[Len(p) + i] = q[i]
  BY Joined
<1> HIDE DEF all
<1>2. Len(p) + n \in 0..Len(all) /\ Len(p) \in 0..Len(p) + n /\ (Len(p) + n) - Len(p) = n
  BY <1>1
<1>3. /\ left \in Seq(S) /\ Len(left) = n /\ \A i \in 1..n : left[i] = all[Len(p) + i]
  BY <1>1, <1>2, Stretch
<1>4. /\ right \in Seq(S) /\ Len(right) = n /\ \A i \in 1..n : right[i] = q[i]
  BY Cut
<1> HIDE DEF left, right
<1>5. \A i \in 1..n : i \in 1..Len(q)
  BY <1>1
<1>6. \A i \in 1..n : left[i] = right[i]
  BY <1>1, <1>3, <1>4, <1>5
<1>7. left = right
  BY <1>3, <1>4, <1>6, SeqEqual
<1>8. QED
  BY <1>7 DEF left, right, all

-----------------------------------------------------------------------------
(* Frames                                                                    *)

LEMMA PrefixFact == MaximumBytes \in Nat /\ PrefixBytes \in Nat /\ PrefixBytes > 0
  BY DecoderAssumption

\* The first LF of a fragment.
LEMMA FirstLFIs ==
  ASSUME NEW q \in Seq(Bytes)
  PROVE  \/ FirstLF(q) = 0 /\ \A i \in 1..Len(q) : q[i].value # LF
         \/ /\ FirstLF(q) \in 1..Len(q) /\ q[FirstLF(q)].value = LF
            /\ \A i \in 1..FirstLF(q) - 1 : q[i].value # LF
<1> DEFINE found == {i \in 1..Len(q) : q[i].value = LF}
<1>1. FirstLF(q) = IF found # {} THEN Min(found) ELSE 0
  BY DEF FirstLF, SelectInSeq
<1>2. Len(q) \in Nat
  BY BytesTyped
<1>3. CASE found = {}
  BY <1>1, <1>3
<1>4. CASE found # {}
  <2>1. found \in SUBSET Nat
    BY <1>2
  <2>2. Min(found) \in found /\ \A i \in found : Min(found) <= i
    <3> HIDE DEF found
    <3>1. QED
      BY <1>4, <2>1, SmallestNumber
  <2>3. FirstLF(q) \in found /\ \A i \in found : FirstLF(q) <= i
    BY <1>1, <1>4, <2>2
  <2>4. FirstLF(q) \in 1..Len(q) /\ q[FirstLF(q)].value = LF
    BY <2>3
  <2>5. ASSUME NEW i \in 1..FirstLF(q) - 1 PROVE q[i].value # LF
    <3>1. i \in 1..Len(q) /\ ~ (FirstLF(q) <= i)
      BY <1>2, <2>4
    <3>2. QED
      BY <2>3, <3>1
  <2>6. QED
    BY <2>4, <2>5
<1>5. QED
  BY <1>3, <1>4

\* The frame at the beginning of some bytes ends in one place.
LEMMA FrameEndsOnce ==
  ASSUME NEW mode \in FrameModes, NEW q \in Seq(Bytes), NEW n \in 1..Len(q), NEW m \in 1..Len(q),
         FrameEnds(mode, q, n), FrameEnds(mode, q, m)
  PROVE  n = m
<1>1. Len(q) \in Nat
  BY BytesTyped
<1>2. CASE mode = "ascii"
  <2>1. /\ q[n].value = LF /\ \A i \in 1..n - 1 : q[i].value # LF
        /\ q[m].value = LF /\ \A i \in 1..m - 1 : q[i].value # LF
    BY <1>2 DEF FrameEnds
  <2>2. ~(n < m) /\ ~(m < n)
    BY <1>1, <2>1
  <2>3. QED
    BY <1>1, <2>2
<1>3. CASE mode = "lengthPrefixed"
  <2>1. n - PrefixBytes = m - PrefixBytes
    BY <1>3 DEF FrameEnds
  <2>2. QED
    BY <1>1, <2>1, PrefixFact
<1>4. QED
  BY <1>2, <1>3 DEF FrameModes

\* A frame depends on its own bytes.
LEMMA FrameEndsInPart ==
  ASSUME NEW mode \in FrameModes, NEW p \in Seq(Bytes), NEW q \in Seq(Bytes),
         NEW n \in 1..Len(p)
  PROVE  FrameEnds(mode, p \o q, n) <=> FrameEnds(mode, p, n)
<1>1. /\ Len(p) \in Nat /\ \A i \in 1..Len(p) : (p \o q)[i] = p[i]
  BY Joined
<1>2. CASE mode = "ascii"
  <2>1. (p \o q)[n] = p[n] /\ \A i \in 1..n - 1 : (p \o q)[i] = p[i]
    BY <1>1
  <2>2. QED
    BY <1>2, <2>1 DEF FrameEnds
<1>3. CASE mode = "lengthPrefixed"
  <2>1. CASE n >= PrefixBytes
    <3>1. PrefixBytes \in 0..Len(p)
      BY <1>1, <2>1, PrefixFact
    <3>2. SubSeq(p \o q, 1, PrefixBytes) = SubSeq(p, 1, PrefixBytes)
      BY <3>1, FirstPart
    <3>3. QED
      BY <1>3, <3>2 DEF FrameEnds
  <2>2. CASE ~(n >= PrefixBytes)
    BY <1>3, <2>2 DEF FrameEnds
  <2>3. QED
    BY <2>1, <2>2
<1>4. QED
  BY <1>2, <1>3 DEF FrameModes

\* What cannot fit has no frame.
LEMMA NoFrameIfTooLarge ==
  ASSUME NEW mode \in FrameModes, NEW q \in Seq(Bytes), NoFrameFits(mode, q), NEW n \in 1..Len(q)
  PROVE  ~FrameEnds(mode, q, n)
<1>1. Len(q) >= PrefixBytes => SubSeq(q, 1, PrefixBytes) \in Seq(Bytes)
  <2>1. HAVE Len(q) >= PrefixBytes
  <2>2. PrefixBytes \in 0..Len(q)
    BY <2>1, BytesTyped, PrefixFact
  <2>3. QED
    BY <2>2, Cut
<1>2. Len(q) \in Nat
  BY BytesTyped
<1>3. CASE mode = "ascii"
  BY <1>2, <1>3, PrefixFact DEF FrameEnds, NoFrameFits
<1>4. CASE mode = "lengthPrefixed"
  <2>1. LittleEndian(SubSeq(q, 1, PrefixBytes)) > MaximumBytes /\ Len(q) >= PrefixBytes
    BY <1>4 DEF NoFrameFits
  <2>2. LittleEndian(SubSeq(q, 1, PrefixBytes)) \in Nat
    BY <1>1, <2>1, LittleEndianType
  <2>3. QED
    BY <1>2, <1>4, <2>1, <2>2, PrefixFact DEF FrameEnds
<1>5. QED
  BY <1>3, <1>4 DEF FrameModes
-----------------------------------------------------------------------------
(* The decoder                                                               *)

\* A decoder that has taken these bytes and needs more.
Decoding(d, bytes) ==
  /\ ~d.complete /\ ~d.tooLarge
  /\ d.mode = "ascii" =>
       /\ d.payload = bytes /\ Len(bytes) <= MaximumBytes
       /\ \A i \in 1..Len(bytes) : bytes[i].value # LF
  /\ d.mode = "lengthPrefixed" =>
       /\ bytes = d.prefix \o d.payload
       /\ Len(d.prefix) <= PrefixBytes
       /\ Len(d.prefix) < PrefixBytes => d.payload = <<>>
       /\ Len(d.prefix) = PrefixBytes =>
            /\ LittleEndian(d.prefix) <= MaximumBytes
            /\ Len(d.payload) < LittleEndian(d.prefix)

\* What one Feed makes of it, when the bytes and the fragment are all that came.
FedWell(d, fed, bytes, fragment) ==
  LET all == bytes \o fragment
      end == Len(bytes) + fed.consumed
  IN /\ fed.decoder \in Decoders /\ fed.decoder.mode = d.mode
     /\ fed.consumed \in 0..Len(fragment)
     /\ \/ Decoding(fed.decoder, all) /\ fed.consumed = Len(fragment)
        \/ /\ fed.decoder.complete /\ ~fed.decoder.tooLarge
           /\ end \in 1..Len(all) /\ FrameEnds(d.mode, all, end)
           /\ fed.decoder.payload = FramePayload(d.mode, all, end)
        \/ fed.decoder.tooLarge /\ ~fed.decoder.complete /\ NoFrameFits(d.mode, all)

LEMMA DecoderParts ==
  ASSUME NEW d \in Decoders
  PROVE  /\ d.mode \in FrameModes /\ d.prefix \in Seq(Bytes) /\ d.payload \in Seq(Bytes)
         /\ d.complete \in BOOLEAN /\ d.tooLarge \in BOOLEAN
         /\ d = [mode |-> d.mode, prefix |-> d.prefix, payload |-> d.payload,
                 complete |-> d.complete, tooLarge |-> d.tooLarge]
  BY DEF Decoders

LEMMA NewDecodes ==
  ASSUME NEW mode \in FrameModes
  PROVE  /\ NewFrameDecoder(mode) \in Decoders /\ NewFrameDecoder(mode).mode = mode
         /\ Decoding(NewFrameDecoder(mode), <<>>)
<1> DEFINE d == NewFrameDecoder(mode)
<1>1. /\ d.mode = mode /\ d.prefix = <<>> /\ d.payload = <<>>
      /\ d.complete = FALSE /\ d.tooLarge = FALSE
  BY DEF NewFrameDecoder
<1>2. <<>> \in Seq(Bytes) /\ Len(<<>>) = 0 /\ <<>> \o <<>> = <<>>
  BY EmptySeq, ConcatEmptySeq
<1>3. d \in Decoders
  BY <1>2 DEF NewFrameDecoder, Decoders
<1> HIDE DEF d
<1>4. Decoding(d, <<>>)
  BY <1>1, <1>2, PrefixFact DEF Decoding
<1>5. QED
  BY <1>1, <1>3, <1>4 DEF d

LEMMA WithoutCRType ==
  ASSUME NEW line \in Seq(Bytes)
  PROVE  WithoutCR(line) \in Seq(Bytes)
<1>1. line # <<>> => Front(line) \in Seq(Bytes)
  <2>1. HAVE line # <<>>
  <2>2. Len(line) \in Nat \ {0}
    BY <2>1, EmptySeq
  <2>3. Len(line) - 1 \in 0..Len(line)
    BY <2>2
  <2>4. QED
    BY <2>3, Cut DEF Front
<1>2. QED
  BY <1>1 DEF WithoutCR

LEMMA FeedASCIIFeeds ==
  ASSUME NEW d \in Decoders, NEW bytes \in Seq(Bytes), NEW fragment \in Seq(Bytes),
         d.mode = "ascii", Decoding(d, bytes)
  PROVE  FedWell(d, FeedASCII(d, fragment), bytes, fragment)
<1> DEFINE remaining == MaximumBytes - Len(d.payload)
           looked == Smaller(Len(fragment), remaining + 1)
           seen == SubSeq(fragment, 1, looked)
           lineEnd == FirstLF(seen)
           size == IF lineEnd > 0 THEN lineEnd - 1 ELSE Len(seen)
           line == d.payload \o SubSeq(seen, 1, size)
           all == bytes \o fragment
           fed == FeedASCII(d, fragment)
<1>1. /\ d.payload = bytes /\ Len(bytes) <= MaximumBytes /\ ~d.complete /\ ~d.tooLarge
      /\ \A i \in 1..Len(bytes) : bytes[i].value # LF
  BY DEF Decoding
<1>2. /\ fed = CASE size > remaining ->
                      [decoder |-> [d EXCEPT !.tooLarge = TRUE], consumed |-> size]
                 [] size <= remaining /\ lineEnd = 0 ->
                      [decoder |-> [d EXCEPT !.payload = line], consumed |-> size]
                 [] size <= remaining /\ lineEnd > 0 ->
                      [decoder |-> [d EXCEPT !.payload = WithoutCR(line), !.complete = TRUE],
                       consumed |-> size + 1]
  BY DEF FeedASCII
<1>3. /\ all \in Seq(Bytes) /\ Len(bytes) \in Nat /\ Len(fragment) \in Nat
      /\ Len(all) = Len(bytes) + Len(fragment)
      /\ \A i \in 1..Len(bytes) : all[i] = bytes[i]
      /\ \A i \in 1..Len(fragment) : all[Len(bytes) + i] = fragment[i]
      /\ \A i \in 1..Len(all) :
           i \in 1..Len(bytes) \/ (i > Len(bytes) /\ i - Len(bytes) \in 1..Len(fragment)
                                     /\ all[i] = fragment[i - Len(bytes)])
  BY Joined
<1>4. /\ remaining \in Nat /\ remaining = MaximumBytes - Len(bytes) /\ looked \in 0..Len(fragment)
      /\ looked <= remaining + 1 /\ (looked = Len(fragment) \/ looked = remaining + 1)
  BY <1>1, <1>3, PrefixFact DEF Smaller
<1> HIDE DEF remaining, looked
<1>5. /\ seen \in Seq(Bytes) /\ Len(seen) = looked
      /\ \A i \in 1..looked : seen[i] = fragment[i]
  BY <1>4, Cut
<1>6. \/ lineEnd = 0 /\ \A i \in 1..Len(seen) : seen[i].value # LF
      \/ /\ lineEnd \in 1..Len(seen) /\ seen[lineEnd].value = LF
         /\ \A i \in 1..lineEnd - 1 : seen[i].value # LF
  BY <1>5, FirstLFIs
<1> HIDE DEF lineEnd
<1>7. size \in 0..looked /\ looked \in Nat /\ (lineEnd = 0 \/ lineEnd \in 1..looked)
  BY <1>4, <1>5, <1>6
<1>8. size = IF lineEnd > 0 THEN lineEnd - 1 ELSE Len(seen)
  OBVIOUS
<1> HIDE DEF size
<1>9. line \in Seq(Bytes) /\ line = SubSeq(all, 1, Len(bytes) + size) /\ Len(line) = Len(bytes) + size
  <2>1. SubSeq(seen, 1, size) = SubSeq(fragment, 1, size)
    <3>1. size \in 0..Len(seen) /\ size \in 0..Len(fragment)
      BY <1>4, <1>5, <1>7
    <3>2. /\ SubSeq(seen, 1, size) \in Seq(Bytes) /\ Len(SubSeq(seen, 1, size)) = size
          /\ \A i \in 1..size : SubSeq(seen, 1, size)[i] = seen[i]
      BY <1>5, <3>1, Cut
    <3>3. /\ SubSeq(fragment, 1, size) \in Seq(Bytes) /\ Len(SubSeq(fragment, 1, size)) = size
          /\ \A i \in 1..size : SubSeq(fragment, 1, size)[i] = fragment[i]
      BY <3>1, Cut
    <3>4. \A i \in 1..size : SubSeq(seen, 1, size)[i] = SubSeq(fragment, 1, size)[i]
      BY <1>5, <1>7, <3>2, <3>3
    <3>5. QED
      BY <3>2, <3>3, <3>4, SeqEqual
  <2>2. size \in 0..Len(fragment)
    BY <1>4, <1>7
  <2>3. QED
    <3>1. line = bytes \o SubSeq(fragment, 1, size)
      BY <1>1, <2>1
    <3>2. /\ SubSeq(all, 1, Len(bytes) + size) = bytes \o SubSeq(fragment, 1, size)
          /\ bytes \o SubSeq(fragment, 1, size) \in Seq(Bytes)
          /\ Len(bytes \o SubSeq(fragment, 1, size)) = Len(bytes) + size
      BY <2>2, LongerPart
    <3>3. QED
      BY <3>1, <3>2
<1>10. d.mode = "ascii" /\ d.prefix \in Seq(Bytes) /\ d.payload \in Seq(Bytes)
  BY DecoderParts
<1> HIDE DEF seen, line, all, fed
<1>11. CASE size > remaining
  <2>1. fed.consumed = size /\ fed.decoder = [d EXCEPT !.tooLarge = TRUE]
    BY <1>2, <1>4, <1>7, <1>11
  <2>2. lineEnd = 0 /\ size = looked /\ looked = remaining + 1
    BY <1>8, <1>4, <1>5, <1>6, <1>7, <1>11
  <2>3. fed.decoder \in Decoders /\ fed.decoder.mode = d.mode /\ fed.decoder.tooLarge
        /\ ~fed.decoder.complete
    BY <1>1, <2>1 DEF Decoders
  <2>4. NoFrameFits("ascii", all)
    <3>1. Len(all) > MaximumBytes
      BY <1>3, <1>4, <2>2, PrefixFact
    <3>2. ASSUME NEW m \in 1..MaximumBytes + 1 PROVE all[m].value # LF
      <4>1. m \in 1..Len(bytes) \/ (all[m] = fragment[m - Len(bytes)] /\ m - Len(bytes) \in 1..looked)
        BY <1>3, <1>4, <2>2, <3>1, PrefixFact
      <4>2. CASE m \in 1..Len(bytes)
        BY <1>1, <1>3, <4>2
      <4>3. CASE all[m] = fragment[m - Len(bytes)] /\ m - Len(bytes) \in 1..looked
        <5>1. \A j \in 1..looked : fragment[j].value # LF
          BY <1>5, <1>6, <2>2
        <5>2. fragment[m - Len(bytes)].value # LF
          BY <4>3, <5>1
        <5>3. QED
          BY <4>3, <5>2
      <4>4. QED
        BY <4>1, <4>2, <4>3
    <3>3. QED
      BY <3>1, <3>2 DEF NoFrameFits
  <2>5. fed.consumed \in 0..Len(fragment)
    BY <1>4, <1>7, <2>1
  <2>6. QED
    BY <1>10, <2>3, <2>4, <2>5 DEF FedWell, all, fed
<1>12. CASE size <= remaining /\ lineEnd = 0
  <2>1. fed.consumed = size /\ fed.decoder = [d EXCEPT !.payload = line]
    BY <1>2, <1>4, <1>7, <1>12
  <2>2. size = looked /\ looked = Len(fragment)
    BY <1>8, <1>4, <1>5, <1>7, <1>12
  <2>3. line = all
    <3>1. Len(bytes) + size = Len(all)
      BY <1>3, <2>2
    <3>2. QED
      BY <1>3, <1>9, <3>1, SubSeqFull
  <2>4. /\ fed.decoder \in Decoders /\ fed.decoder.mode = d.mode /\ ~fed.decoder.tooLarge
        /\ ~fed.decoder.complete /\ fed.decoder.payload = all
    BY <1>1, <1>9, <2>1, <2>3 DEF Decoders
  <2>5. Len(all) <= MaximumBytes
    BY <1>3, <1>4, <1>12, <2>2, PrefixFact
  <2>6. ASSUME NEW i \in 1..Len(all) PROVE all[i].value # LF
    <3>1. i \in 1..Len(bytes) \/ (all[i] = fragment[i - Len(bytes)] /\ i - Len(bytes) \in 1..looked)
      BY <1>3, <2>2
    <3>2. CASE i \in 1..Len(bytes)
      BY <1>1, <1>3, <3>2
    <3>3. CASE all[i] = fragment[i - Len(bytes)] /\ i - Len(bytes) \in 1..looked
      <4>1. \A j \in 1..looked : fragment[j].value # LF
        BY <1>5, <1>6, <1>12
      <4>2. fragment[i - Len(bytes)].value # LF
        BY <3>3, <4>1
      <4>3. QED
        BY <3>3, <4>2
    <3>4. QED
      BY <3>1, <3>2, <3>3
  <2>7. Decoding(fed.decoder, all)
    BY <1>10, <2>4, <2>5, <2>6 DEF Decoding
  <2>8. fed.consumed = Len(fragment) /\ fed.consumed \in 0..Len(fragment)
    BY <1>3, <2>1, <2>2
  <2>9. QED
    BY <2>4, <2>7, <2>8 DEF FedWell, all, fed
<1>13. CASE size <= remaining /\ lineEnd > 0
  <2> DEFINE end == Len(bytes) + (size + 1)
  <2>1. /\ fed.consumed = size + 1
        /\ fed.decoder = [d EXCEPT !.payload = WithoutCR(line), !.complete = TRUE]
    BY <1>2, <1>4, <1>7, <1>13
  <2>2. size = lineEnd - 1 /\ lineEnd \in 1..looked
    BY <1>8, <1>7, <1>13
  <2>3. WithoutCR(line) \in Seq(Bytes)
    BY <1>9, WithoutCRType
  <2>4. /\ fed.decoder \in Decoders /\ fed.decoder.mode = d.mode /\ ~fed.decoder.tooLarge
        /\ fed.decoder.complete /\ fed.decoder.payload = WithoutCR(line)
    BY <1>1, <2>1, <2>3 DEF Decoders
  <2>5. fed.consumed \in 0..Len(fragment) /\ end \in 1..Len(all) /\ end - 1 = Len(bytes) + size
    BY <1>3, <1>4, <1>7, <2>1, <2>2
  <2>6. FrameEnds("ascii", all, end)
    <3>1. end - 1 <= MaximumBytes
      BY <1>3, <1>4, <1>13, <2>5, <1>7, PrefixFact
    <3>2. all[end].value = LF
      <4>1. all[end] = fragment[lineEnd] /\ fragment[lineEnd] = seen[lineEnd]
        BY <1>3, <1>4, <1>5, <2>2
      <4>2. QED
        BY <1>6, <1>13, <4>1
    <3>3. ASSUME NEW m \in 1..end - 1 PROVE all[m].value # LF
      <4>1. /\ m \in 1..Len(all)
            /\ m \in 1..Len(bytes) \/ (m > Len(bytes) /\ m - Len(bytes) \in 1..lineEnd - 1)
        BY <1>3, <1>4, <1>7, <2>2, <2>5
      <4>2. CASE m \in 1..Len(bytes)
        BY <1>1, <1>3, <4>2
      <4>3. CASE m > Len(bytes) /\ m - Len(bytes) \in 1..lineEnd - 1
        <5>1. all[m] = fragment[m - Len(bytes)]
          BY <1>3, <4>1, <4>3
        <5>2. m - Len(bytes) \in 1..looked
          BY <1>3, <1>7, <2>2, <4>3
        <5>3. QED
          BY <1>5, <1>6, <1>13, <4>3, <5>1, <5>2
      <4>4. QED
        BY <4>1, <4>2, <4>3
    <3>4. QED
      BY <3>1, <3>2, <3>3 DEF FrameEnds
  <2>7. fed.decoder.payload = FramePayload("ascii", all, end)
    BY <1>9, <2>4, <2>5 DEF FramePayload
  <2>8. QED
    BY <1>10, <2>1, <2>4, <2>5, <2>6, <2>7 DEF FedWell, all, fed
<1>14. QED
  <2>1. size > remaining \/ (size <= remaining /\ lineEnd = 0) \/ (size <= remaining /\ lineEnd > 0)
    BY <1>4, <1>7
  <2>2. QED
    BY <2>1, <1>11, <1>12, <1>13

LEMMA FeedLengthPrefixedFeeds ==
  ASSUME NEW d \in Decoders, NEW bytes \in Seq(Bytes), NEW fragment \in Seq(Bytes),
         d.mode = "lengthPrefixed", Decoding(d, bytes)
  PROVE  FedWell(d, FeedLengthPrefixed(d, fragment), bytes, fragment)
<1> DEFINE before == d.prefix
           body == d.payload
           head == Smaller(PrefixBytes - Len(before), Len(fragment))
           prefix == before \o SubSeq(fragment, 1, head)
           length == LittleEndian(prefix)
           size == Smaller(Len(fragment) - head, length - Len(body))
           payload == body \o SubSeq(fragment, head + 1, head + size)
           started == [d EXCEPT !.prefix = prefix]
           all == bytes \o fragment
           rest == SubSeq(fragment, head + 1, Len(fragment))
           fed == FeedLengthPrefixed(d, fragment)
<1>1. /\ ~d.complete /\ ~d.tooLarge /\ bytes = before \o body
      /\ Len(before) <= PrefixBytes
      /\ Len(before) < PrefixBytes => body = <<>>
      /\ Len(before) = PrefixBytes =>
           /\ LittleEndian(before) <= MaximumBytes
           /\ Len(body) < LittleEndian(before)
  BY DEF Decoding
<1>2. fed = CASE Len(prefix) < PrefixBytes -> [decoder |-> started, consumed |-> head]
              [] Len(prefix) = PrefixBytes /\ length > MaximumBytes ->
                   [decoder |-> [started EXCEPT !.tooLarge = TRUE], consumed |-> head]
              [] Len(prefix) = PrefixBytes /\ length <= MaximumBytes ->
                   [decoder |-> [started EXCEPT !.payload = payload,
                                                !.complete = Len(payload) = length],
                    consumed |-> head + size]
  BY DEF FeedLengthPrefixed
<1>3. /\ all \in Seq(Bytes) /\ Len(bytes) \in Nat /\ Len(fragment) \in Nat
      /\ Len(all) = Len(bytes) + Len(fragment)
  BY Joined
<1> HIDE DEF fed, size, payload
<1>4. /\ before \in Seq(Bytes) /\ body \in Seq(Bytes) /\ d.mode \in FrameModes
      /\ Len(before) \in Nat /\ Len(body) \in Nat
      /\ Len(bytes) = Len(before) + Len(body)
  <2>1. before \in Seq(Bytes) /\ body \in Seq(Bytes) /\ d.mode \in FrameModes
    BY DecoderParts
  <2> HIDE DEF before, body
  <2>2. QED
    BY <1>1, <2>1, Joined
<1> HIDE DEF before, body
<1>5. /\ head \in 0..Len(fragment)
      /\ head = PrefixBytes - Len(before) \/ (head = Len(fragment) /\ head < PrefixBytes - Len(before))
  BY <1>1, <1>3, <1>4, PrefixFact DEF Smaller
<1> HIDE DEF head
<1>6. /\ SubSeq(fragment, 1, head) \in Seq(Bytes) /\ Len(SubSeq(fragment, 1, head)) = head
  BY <1>5, Cut
<1>7. prefix \in Seq(Bytes) /\ Len(prefix) \in Nat /\ Len(prefix) = Len(before) + head /\ Len(prefix) <= PrefixBytes
  <2>1. prefix \in Seq(Bytes) /\ Len(prefix) = Len(before) + head
    BY <1>4, <1>6, Joined
  <2> HIDE DEF prefix
  <2>2. QED
    BY <1>3, <1>4, <1>5, <2>1, PrefixFact
<1> HIDE DEF prefix, length
<1>8. /\ rest \in Seq(Bytes) /\ Len(rest) = Len(fragment) - head
      /\ SubSeq(fragment, 1, head) \o rest = fragment
  BY <1>5, Cut
<1> HIDE DEF rest
<1>9. ASSUME Len(prefix) = PrefixBytes
      PROVE  /\ all = prefix \o (body \o rest)
             /\ Len(body) <= length /\ length \in Nat
             /\ Len(body) = 0 \/ (Len(body) < length /\ head = 0)
  <2>1. length \in Nat
    BY <1>7, LittleEndianType DEF length
  <2>2. CASE Len(before) < PrefixBytes
    <3>1. body = <<>> /\ bytes = before /\ Len(body) = 0
      BY <1>1, <1>4, <2>2, ConcatEmptySeq, EmptySeq
    <3>2. all = prefix \o rest
      <4>1. (before \o SubSeq(fragment, 1, head)) \o rest = before \o (SubSeq(fragment, 1, head) \o rest)
        <5> DEFINE first == SubSeq(fragment, 1, head)
        <5>1. before \in Seq(Bytes) /\ first \in Seq(Bytes) /\ rest \in Seq(Bytes)
          BY <1>4, <1>6, <1>8
        <5> HIDE DEF first
        <5>2. (before \o first) \o rest = before \o (first \o rest)
          BY <5>1, Regrouped
        <5>3. QED
          BY <5>2 DEF first
      <4>2. QED
        BY <1>8, <3>1, <4>1 DEF prefix
    <3>3. body \o rest = rest
      BY <1>8, <3>1, ConcatEmptySeq
    <3>4. QED
      BY <2>1, <3>1, <3>2, <3>3
  <2>3. CASE Len(before) = PrefixBytes
    <3>1. head = 0
      BY <1>3, <1>4, <1>5, <1>7, <1>9, <2>3, PrefixFact
    <3>2. SubSeq(fragment, 1, head) = <<>> /\ rest = fragment
      BY <3>1, SubSeqEmpty, SubSeqFull DEF rest
    <3>3. prefix = before
      BY <1>4, <3>2, ConcatEmptySeq DEF prefix
    <3>4. all = prefix \o (body \o rest)
      <4>1. (before \o body) \o fragment = before \o (body \o fragment)
        BY <1>4, Regrouped
      <4>2. QED
        BY <1>1, <3>2, <3>3, <4>1
    <3>5. Len(body) < length
      BY <1>1, <2>3, <3>3 DEF length
    <3>6. QED
      BY <1>4, <2>1, <3>1, <3>4, <3>5
  <2>4. Len(before) < PrefixBytes \/ Len(before) = PrefixBytes
    BY <1>1, <1>4, PrefixFact
  <2>5. QED
    BY <2>2, <2>3, <2>4
<1>10. ASSUME Len(prefix) = PrefixBytes
       PROVE  PrefixBytes \in 0..Len(all) /\ SubSeq(all, 1, PrefixBytes) = prefix
  <2>1. body \o rest \in Seq(Bytes)
    BY <1>4, <1>8, Joined
  <2>2. Len(all) = PrefixBytes + Len(body \o rest) /\ Len(body \o rest) \in Nat
    BY <1>7, <1>9, <1>10, <2>1, Joined
  <2>3. PrefixBytes \in 0..Len(prefix) /\ PrefixBytes \in 0..Len(all)
    <3> HIDE DEF all
    <3>1. QED
      BY <1>10, <2>2, PrefixFact
  <2>4. SubSeq(all, 1, PrefixBytes) = SubSeq(prefix, 1, Len(prefix))
    <3>1. SubSeq(prefix \o (body \o rest), 1, PrefixBytes) = SubSeq(prefix, 1, PrefixBytes)
      BY <1>7, <2>1, <2>3, FirstPart
    <3>2. QED
      BY <1>9, <1>10, <3>1
  <2>5. QED
    BY <1>7, <2>3, <2>4, SubSeqFull
<1> HIDE DEF all
<1>11. started \in Decoders /\ started.mode = d.mode /\ started.prefix = prefix
       /\ started.payload = body /\ started.complete = FALSE /\ started.tooLarge = FALSE
  BY <1>1, <1>7 DEF Decoders, body
<1>12. CASE Len(prefix) < PrefixBytes
  <2>1. fed.decoder = started /\ fed.consumed = head
    <3> HIDE DEF started
    <3>1. QED
      BY <1>2, <1>7, <1>12, PrefixFact
  <2>2. head = Len(fragment) /\ Len(before) < PrefixBytes
    BY <1>3, <1>4, <1>5, <1>7, <1>12, PrefixFact
  <2>3. body = <<>> /\ bytes = before
    BY <1>1, <1>4, <2>2, ConcatEmptySeq
  <2>4. all = prefix
    BY <2>2, <2>3, SubSeqFull DEF all, prefix
  <2>5. prefix = prefix \o <<>>
    BY <1>7, ConcatEmptySeq
  <2>6. Decoding(started, all)
    <3> HIDE DEF started
    <3>1. QED
      BY <1>11, <1>12, <2>3, <2>4, <2>5, <1>7, PrefixFact DEF Decoding
  <2>7. fed.consumed = Len(fragment) /\ fed.consumed \in 0..Len(fragment)
    BY <1>3, <2>1, <2>2
  <2>8. fed.decoder \in Decoders /\ fed.decoder.mode = d.mode /\ Decoding(fed.decoder, all)
    BY <1>11, <2>1, <2>6
  <2>9. QED
    <3> HIDE DEF fed
    <3>1. FedWell(d, fed, bytes, fragment)
      BY <2>7, <2>8 DEF FedWell, all
    <3>2. QED
      BY <3>1 DEF fed
<1>13. CASE Len(prefix) = PrefixBytes /\ length > MaximumBytes
  <2>1. /\ fed.decoder = [started EXCEPT !.tooLarge = TRUE] /\ fed.consumed = head
    <3> HIDE DEF started
    <3>1. QED
      BY <1>2, <1>7, <1>9, <1>13, PrefixFact
  <2>2. /\ fed.decoder \in Decoders /\ fed.decoder.mode = d.mode
        /\ fed.decoder.tooLarge /\ ~fed.decoder.complete
    <3> HIDE DEF started, fed
    <3>1. QED
      BY <1>11, <2>1 DEF Decoders
  <2>3. NoFrameFits("lengthPrefixed", all)
    <3>1. Len(all) >= PrefixBytes /\ LittleEndian(SubSeq(all, 1, PrefixBytes)) > MaximumBytes
      <4>1. Len(all) >= PrefixBytes
        BY <1>3, <1>10, <1>13, PrefixFact
      <4>2. LittleEndian(SubSeq(all, 1, PrefixBytes)) = length
        BY <1>10, <1>13 DEF length
      <4>3. QED
        BY <1>13, <4>1, <4>2
    <3>2. QED
      BY <3>1 DEF NoFrameFits
  <2>4. QED
    <3>1. fed.consumed \in 0..Len(fragment)
      BY <1>5, <2>1
    <3> HIDE DEF fed
    <3>2. FedWell(d, fed, bytes, fragment)
      BY <2>2, <2>3, <3>1 DEF FedWell, all
    <3>3. QED
      BY <3>2 DEF fed
<1>14. CASE Len(prefix) = PrefixBytes /\ length <= MaximumBytes
  <2> DEFINE x == body \o rest
  <2>1. /\ all = prefix \o x /\ Len(body) <= length /\ length \in Nat
        /\ Len(body) = 0 \/ (Len(body) < length /\ head = 0)
    BY <1>9, <1>14
  <2>2. x \in Seq(Bytes) /\ Len(x) = Len(body) + Len(rest) /\ Len(rest) \in Nat
    BY <1>4, <1>8, Joined
  <2> HIDE DEF x
  <2>3. /\ size \in 0..Len(rest) /\ Len(body) + size <= length
        /\ Len(body) + size = length \/ size = Len(rest)
    BY <1>4, <1>8, <2>1, <2>2 DEF size, Smaller
  <2>4. payload = body \o SubSeq(rest, 1, size)
    <3>1. SubSeq(fragment, head + 1, head + size) = SubSeq(rest, 1, size)
      <4> DEFINE left == SubSeq(fragment, head + 1, head + size)
                 right == SubSeq(rest, 1, size)
      <4>1. /\ head + size \in 0..Len(fragment) /\ head \in 0..head + size
            /\ (head + size) - head = size /\ Len(fragment) \in 0..Len(fragment)
            /\ head \in 0..Len(fragment)
        BY <1>3, <1>5, <1>8, <2>2, <2>3
      <4>2. /\ left \in Seq(Bytes) /\ Len(left) = size
            /\ \A i \in 1..size : left[i] = fragment[head + i]
        BY <4>1, Stretch
      <4>3. \A i \in 1..Len(fragment) - head : rest[i] = fragment[head + i]
        BY <4>1, Stretch DEF rest
      <4>4. /\ right \in Seq(Bytes) /\ Len(right) = size
            /\ \A i \in 1..size : right[i] = rest[i]
        BY <1>8, <2>3, Cut
      <4> HIDE DEF left, right
      <4>5. \A i \in 1..size : i \in 1..Len(fragment) - head
        BY <1>8, <2>2, <2>3
      <4>6. \A i \in 1..size : left[i] = right[i]
        BY <4>2, <4>3, <4>4, <4>5
      <4>7. left = right
        BY <4>2, <4>4, <4>6, SeqEqual
      <4>8. QED
        BY <4>7 DEF left, right
    <3>2. QED
      BY <3>1 DEF payload
  <2>5. /\ payload = SubSeq(x, 1, Len(body) + size) /\ payload \in Seq(Bytes)
        /\ Len(payload) = Len(body) + size
    <3>1. /\ SubSeq(body \o rest, 1, Len(body) + size) = body \o SubSeq(rest, 1, size)
          /\ body \o SubSeq(rest, 1, size) \in Seq(Bytes)
          /\ Len(body \o SubSeq(rest, 1, size)) = Len(body) + size
      BY <1>4, <1>8, <2>3, LongerPart
    <3>2. QED
      BY <2>4, <3>1 DEF x
  <2>6. /\ fed.decoder = [started EXCEPT !.payload = payload, !.complete = Len(payload) = length]
        /\ fed.consumed = head + size
    <3> HIDE DEF started
    <3>1. QED
      BY <1>2, <1>7, <1>14, <2>1, PrefixFact
  <2>7. /\ fed.decoder \in Decoders /\ fed.decoder.mode = d.mode
        /\ fed.decoder.prefix = prefix /\ fed.decoder.payload = payload
        /\ fed.decoder.complete = (Len(payload) = length) /\ fed.decoder.tooLarge = FALSE
    <3> HIDE DEF started
    <3>1. QED
      BY <1>11, <2>5, <2>6 DEF Decoders
  <2> DEFINE Sizes ==
    /\ Len(bytes) \in Nat /\ Len(fragment) \in Nat /\ Len(before) \in Nat /\ Len(body) \in Nat
    /\ head \in Nat /\ size \in Nat /\ Len(rest) \in Nat /\ length \in Nat
    /\ Len(all) = Len(bytes) + Len(fragment) /\ Len(bytes) = Len(before) + Len(body)
    /\ Len(rest) = Len(fragment) - head /\ size <= Len(rest) /\ Len(before) + head = PrefixBytes
    /\ Len(payload) = Len(body) + size /\ Len(payload) <= length
    /\ Len(payload) = length \/ size = Len(rest)
    /\ fed.consumed = head + size /\ PrefixBytes \in Nat /\ PrefixBytes > 0
    /\ Len(prefix) = PrefixBytes /\ length <= MaximumBytes /\ MaximumBytes \in Nat
  <2>8. Sizes
    <3>1. Len(bytes) \in Nat /\ Len(fragment) \in Nat /\ Len(all) = Len(bytes) + Len(fragment)
      BY <1>3
    <3>2. Len(before) \in Nat /\ Len(body) \in Nat /\ Len(bytes) = Len(before) + Len(body)
      BY <1>4
    <3>3. head \in Nat /\ Len(prefix) = PrefixBytes /\ Len(before) + head = PrefixBytes
      <4>1. head \in Nat
        BY <1>3, <1>5
      <4>2. Len(prefix) = PrefixBytes
        BY <1>14
      <4>3. Len(prefix) = Len(before) + head
        BY <1>7
      <4>4. QED
        BY <4>1, <4>2, <4>3
    <3>4. Len(rest) \in Nat /\ Len(rest) = Len(fragment) - head /\ size \in Nat /\ size <= Len(rest)
      BY <1>8, <2>2, <2>3
    <3>5. length \in Nat /\ Len(payload) = Len(body) + size
      BY <2>1, <2>5
    <3>6. Len(payload) <= length /\ (Len(payload) = length \/ size = Len(rest))
      BY <2>3, <3>5
    <3>7. fed.consumed = head + size /\ length <= MaximumBytes
      BY <1>14, <2>6
    <3>8. QED
      BY <3>1, <3>2, <3>3, <3>4, <3>5, <3>6, <3>7, PrefixFact
  <2>9. /\ fed.consumed \in 0..Len(fragment)
        /\ Len(bytes) + fed.consumed = PrefixBytes + Len(payload)
        /\ PrefixBytes + Len(payload) \in 1..Len(all)
    <3>1. fed.consumed \in 0..Len(fragment)
      BY <2>8
    <3>2. Len(bytes) + fed.consumed = PrefixBytes + Len(payload)
      <4>1. \A a, b, h, s, p \in Nat : a + h = p => (a + b) + (h + s) = p + (b + s)
        OBVIOUS
      <4>2. QED
        <5>1. /\ Len(before) \in Nat /\ Len(body) \in Nat /\ head \in Nat /\ size \in Nat
              /\ PrefixBytes \in Nat
          BY <2>8
        <5>2. Len(before) + head = PrefixBytes
          BY <2>8
        <5>3. (Len(before) + Len(body)) + (head + size) = PrefixBytes + (Len(body) + size)
          BY <4>1, <5>1, <5>2
        <5>4. /\ Len(bytes) = Len(before) + Len(body) /\ fed.consumed = head + size
              /\ Len(payload) = Len(body) + size
          BY <2>8
        <5>5. QED
          BY <5>3, <5>4
    <3>3. QED
      BY <2>8, <3>1, <3>2
  <2>10. CASE Len(payload) = length
    <3> DEFINE end == Len(bytes) + fed.consumed
    <3>1. end = PrefixBytes + length /\ end \in 1..Len(all)
      BY <2>9, <2>10
    <3>2. SubSeq(all, 1, PrefixBytes) = prefix
      BY <1>10, <1>14
    <3>3. FrameEnds("lengthPrefixed", all, end)
      <4>1. /\ end >= PrefixBytes /\ LittleEndian(SubSeq(all, 1, PrefixBytes)) = end - PrefixBytes
            /\ end - PrefixBytes <= MaximumBytes
        <5>1. LittleEndian(prefix) = length
          BY DEF length
        <5> HIDE DEF end
        <5>2. QED
          <6>1. \A e, l, p, m \in Nat : e = p + l /\ l <= m => e >= p /\ e - p = l /\ e - p <= m
            OBVIOUS
          <6>2. end \in Nat /\ end = PrefixBytes + length
            BY <2>8, <3>1
          <6>3. QED
            <7>1. length \in Nat /\ PrefixBytes \in Nat /\ MaximumBytes \in Nat /\ length <= MaximumBytes
              BY <2>8
            <7>2. end >= PrefixBytes /\ end - PrefixBytes = length /\ end - PrefixBytes <= MaximumBytes
              BY <6>1, <6>2, <7>1
            <7>3. QED
              BY <3>2, <5>1, <7>2
      <4>2. QED
        BY <4>1 DEF FrameEnds
    <3>4. payload = SubSeq(all, PrefixBytes + 1, end)
      <4>1. Len(body) + size \in 0..Len(x)
        BY <1>4, <2>2, <2>3
      <4>2. SubSeq(prefix \o x, Len(prefix) + 1, Len(prefix) + (Len(body) + size))
              = SubSeq(x, 1, Len(body) + size)
        BY <1>7, <2>2, <4>1, MiddlePart
      <4>3. Len(prefix) = PrefixBytes /\ Len(body) + size = length
        BY <1>14, <2>5, <2>10
      <4>4. QED
        BY <2>1, <2>5, <3>1, <4>2, <4>3
    <3>5. payload = FramePayload("lengthPrefixed", all, end)
      BY <3>4 DEF FramePayload
    <3>6. FedWell(d, fed, bytes, fragment)
      BY <2>7, <2>9, <2>10, <3>1, <3>3, <3>5 DEF FedWell, all
    <3>7. QED
      BY <3>6 DEF fed
  <2>11. CASE Len(payload) # length
    <3>1. size = Len(rest) /\ Len(payload) < length
      BY <2>8, <2>11
    <3>2. fed.consumed = Len(fragment)
      BY <2>8, <3>1
    <3>3. payload = x
      BY <2>2, <2>5, <3>1, SubSeqFull
    <3>4. Decoding(fed.decoder, all)
      <4>1. LittleEndian(prefix) = length
        BY DEF length
      <4>2. QED
        <5>1. all = fed.decoder.prefix \o fed.decoder.payload
          BY <2>1, <2>7, <3>3
        <5>2. /\ Len(fed.decoder.prefix) = PrefixBytes
              /\ LittleEndian(fed.decoder.prefix) <= MaximumBytes
              /\ Len(fed.decoder.payload) < LittleEndian(fed.decoder.prefix)
          BY <1>14, <2>7, <3>1, <4>1
        <5>3. ~fed.decoder.complete /\ ~fed.decoder.tooLarge /\ fed.decoder.mode = "lengthPrefixed"
          BY <2>7, <2>11
        <5>4. QED
          BY <5>1, <5>2, <5>3, PrefixFact DEF Decoding
    <3>5. FedWell(d, fed, bytes, fragment)
      BY <2>7, <2>9, <3>2, <3>4 DEF FedWell, all
    <3>6. QED
      BY <3>5 DEF fed
  <2>12. QED
    BY <2>10, <2>11
<1>15. QED
  <2>1. Len(prefix) = PrefixBytes => length \in Nat
    BY <1>9
  <2>2. Len(prefix) < PrefixBytes \/ Len(prefix) = PrefixBytes
    BY <1>7, PrefixFact
  <2>3. \A l \in Nat : l > MaximumBytes \/ l <= MaximumBytes
    BY PrefixFact
  <2>4. QED
    BY <1>12, <1>13, <1>14, <2>1, <2>2, <2>3

LEMMA FeedFeeds ==
  ASSUME NEW d \in Decoders, NEW bytes \in Seq(Bytes), NEW fragment \in Seq(Bytes),
         Decoding(d, bytes)
  PROVE  FedWell(d, Feed(d, fragment), bytes, fragment)
<1>1. ~d.complete /\ ~d.tooLarge /\ d.mode \in FrameModes
  BY DecoderParts DEF Decoding
<1>2. CASE d.mode = "ascii"
  <2>1. Feed(d, fragment) = FeedASCII(d, fragment)
    BY <1>1, <1>2 DEF Feed
  <2>2. QED
    BY <1>2, <2>1, FeedASCIIFeeds
<1>3. CASE d.mode = "lengthPrefixed"
  <2>1. Feed(d, fragment) = FeedLengthPrefixed(d, fragment)
    BY <1>1, <1>3 DEF Feed
  <2>2. QED
    BY <1>3, <2>1, FeedLengthPrefixedFeeds
<1>4. QED
  BY <1>1, <1>2, <1>3 DEF FrameModes

\* A decoder that needs more is as its reference says.
LEMMA DecodingReference ==
  ASSUME NEW d \in Decoders, NEW bytes \in Seq(Bytes), Decoding(d, bytes)
  PROVE  DecodedAs(d, bytes)
<1>1. /\ Len(bytes) \in Nat /\ DOMAIN bytes = 1..Len(bytes) /\ d.mode \in FrameModes
      /\ d.prefix \in Seq(Bytes) /\ d.payload \in Seq(Bytes) /\ ~d.complete /\ ~d.tooLarge
  BY BytesTyped, DecoderParts DEF Decoding
<1>2. CASE d.mode = "ascii"
  <2>1. Len(bytes) <= MaximumBytes /\ \A i \in 1..Len(bytes) : bytes[i].value # LF
    BY <1>2 DEF Decoding
  <2>2. \A n \in 1..Len(bytes) : ~FrameEnds(d.mode, bytes, n)
    BY <1>2, <2>1 DEF FrameEnds
  <2>3. ~NoFrameFits(d.mode, bytes)
    BY <1>1, <1>2, <2>1, PrefixFact DEF NoFrameFits
  <2>4. QED
    BY <1>1, <2>2, <2>3 DEF DecodedAs
<1>3. CASE d.mode = "lengthPrefixed"
  <2>1. /\ bytes = d.prefix \o d.payload /\ Len(d.prefix) <= PrefixBytes
        /\ Len(d.prefix) < PrefixBytes => d.payload = <<>>
        /\ Len(d.prefix) = PrefixBytes =>
             /\ LittleEndian(d.prefix) <= MaximumBytes
             /\ Len(d.payload) < LittleEndian(d.prefix)
    BY <1>3 DEF Decoding
  <2>2. /\ Len(d.prefix) \in Nat /\ Len(d.payload) \in Nat
        /\ Len(bytes) = Len(d.prefix) + Len(d.payload)
    BY <1>1, <2>1, Joined
  <2>3. CASE Len(d.prefix) < PrefixBytes
    <3>1. Len(bytes) < PrefixBytes
      <4>1. d.payload = <<>>
        BY <2>1, <2>3
      <4>2. Len(d.payload) = 0
        BY <4>1, EmptySeq
      <4>3. QED
        BY <2>2, <2>3, <4>2, PrefixFact
    <3>2. \A n \in 1..Len(bytes) : ~(n >= PrefixBytes)
      BY <1>1, <3>1, PrefixFact
    <3>3. ~(Len(bytes) >= PrefixBytes)
      BY <1>1, <3>1, PrefixFact
    <3>4. QED
      BY <1>1, <1>3, <3>2, <3>3 DEF DecodedAs, FrameEnds, NoFrameFits
  <2>4. CASE Len(d.prefix) = PrefixBytes
    <3>1. SubSeq(bytes, 1, PrefixBytes) = d.prefix
      <4>1. Len(d.prefix) \in 0..Len(d.prefix)
        BY <2>2
      <4>2. SubSeq(d.prefix \o d.payload, 1, Len(d.prefix)) = SubSeq(d.prefix, 1, Len(d.prefix))
        BY <1>1, <4>1, FirstPart
      <4>3. SubSeq(d.prefix, 1, Len(d.prefix)) = d.prefix
        BY <1>1, SubSeqFull
      <4>4. QED
        BY <2>1, <2>4, <4>2, <4>3
    <3>2. LittleEndian(d.prefix) \in Nat
      BY <1>1, LittleEndianType
    <3>3. /\ LittleEndian(d.prefix) <= MaximumBytes /\ Len(d.payload) < LittleEndian(d.prefix)
          /\ Len(bytes) = PrefixBytes + Len(d.payload)
      BY <2>1, <2>2, <2>4
    <3>4. \A n \in 1..Len(bytes) : LittleEndian(d.prefix) # n - PrefixBytes
      <4>1. \A l, b, p, q, n \in Nat : b < l /\ q = p + b /\ n <= q => l # n - p
        OBVIOUS
      <4>2. \A n \in 1..Len(bytes) : n \in Nat /\ n <= Len(bytes)
        BY <1>1
      <4>3. QED
        BY <1>1, <2>2, <3>2, <3>3, <4>1, <4>2, PrefixFact
    <3>5. ~(LittleEndian(d.prefix) > MaximumBytes)
      BY <3>2, <3>3, PrefixFact
    <3>6. QED
      BY <1>1, <1>3, <3>1, <3>4, <3>5 DEF DecodedAs, FrameEnds, NoFrameFits
  <2>5. QED
    BY <2>1, <2>2, <2>3, <2>4, PrefixFact
<1>4. QED
  BY <1>1, <1>2, <1>3 DEF FrameModes

\* So is a decoder that is fed while it needs more; what it leaves of the fragment
\* is what follows the frame.
LEMMA FedReference ==
  ASSUME NEW d \in Decoders, NEW bytes \in Seq(Bytes), NEW fragment \in Seq(Bytes),
         Decoding(d, bytes)
  PROVE  LET fed == Feed(d, fragment)
             all == bytes \o fragment
         IN /\ DecodedAs(fed.decoder, all)
            /\ \A n \in DOMAIN all : FrameEnds(d.mode, all, n) =>
                 Unconsumed(fragment, fed.consumed) = SubSeq(all, n + 1, Len(all))
<1> DEFINE fed == Feed(d, fragment)
           all == bytes \o fragment
           end == Len(bytes) + fed.consumed
<1>1. FedWell(d, fed, bytes, fragment)
  BY FeedFeeds
<1>2. /\ all \in Seq(Bytes) /\ Len(all) \in Nat /\ DOMAIN all = 1..Len(all)
      /\ d.mode \in FrameModes /\ Len(bytes) \in Nat /\ Len(fragment) \in Nat
      /\ Len(all) = Len(bytes) + Len(fragment)
  BY Joined, BytesTyped, DecoderParts
<1> HIDE DEF fed
<1>3. /\ fed.decoder \in Decoders /\ fed.decoder.mode = d.mode
      /\ fed.consumed \in 0..Len(fragment)
      /\ \/ Decoding(fed.decoder, all) /\ fed.consumed = Len(fragment)
         \/ /\ fed.decoder.complete /\ ~fed.decoder.tooLarge
            /\ end \in 1..Len(all) /\ FrameEnds(d.mode, all, end)
            /\ fed.decoder.payload = FramePayload(d.mode, all, end)
         \/ fed.decoder.tooLarge /\ ~fed.decoder.complete /\ NoFrameFits(d.mode, all)
  BY <1>1 DEF FedWell
<1> DEFINE Goal == /\ DecodedAs(fed.decoder, all)
                   /\ \A n \in DOMAIN all : FrameEnds(d.mode, all, n) =>
                        Unconsumed(fragment, fed.consumed) = SubSeq(all, n + 1, Len(all))
<1> HIDE DEF all
<1>4. CASE Decoding(fed.decoder, all)
  <2>1. DecodedAs(fed.decoder, all)
    BY <1>2, <1>3, <1>4, DecodingReference
  <2>2. ~fed.decoder.complete
    BY <1>4 DEF Decoding
  <2>3. \A n \in DOMAIN all : ~FrameEnds(d.mode, all, n)
    BY <1>3, <2>1, <2>2 DEF DecodedAs
  <2>4. Goal
    BY <2>1, <2>3
  <2>5. QED
    BY <2>4 DEF all, fed
<1>5. CASE /\ fed.decoder.complete /\ ~fed.decoder.tooLarge
           /\ end \in 1..Len(all) /\ FrameEnds(d.mode, all, end)
           /\ fed.decoder.payload = FramePayload(d.mode, all, end)
  <2>1. \A n \in DOMAIN all : FrameEnds(d.mode, all, n) => n = end
    <3> HIDE DEF end
    <3>1. QED
      BY <1>2, <1>5, FrameEndsOnce
  <2>2. ~NoFrameFits(d.mode, all)
    <3> HIDE DEF end
    <3>1. QED
      BY <1>2, <1>5, NoFrameIfTooLarge
  <2>3. DecodedAs(fed.decoder, all)
    <3> HIDE DEF end
    <3>1. QED
      BY <1>2, <1>3, <1>5, <2>1, <2>2 DEF DecodedAs
  <2>4. Unconsumed(fragment, fed.consumed) = SubSeq(all, end + 1, Len(all))
    <3>1. SubSeq(bytes \o fragment, Len(bytes) + fed.consumed + 1, Len(bytes \o fragment))
            = SubSeq(fragment, fed.consumed + 1, Len(fragment))
      BY <1>3, LastPart
    <3>2. QED
      BY <3>1 DEF Unconsumed, all
  <2>5. Goal
    <3> HIDE DEF end
    <3>1. QED
      BY <2>1, <2>3, <2>4
  <2>6. QED
    BY <2>5 DEF all, fed
<1>6. CASE fed.decoder.tooLarge /\ ~fed.decoder.complete /\ NoFrameFits(d.mode, all)
  <2>1. \A n \in DOMAIN all : ~FrameEnds(d.mode, all, n)
    BY <1>2, <1>6, NoFrameIfTooLarge
  <2>2. DecodedAs(fed.decoder, all)
    BY <1>3, <1>6, <2>1 DEF DecodedAs
  <2>3. Goal
    BY <2>1, <2>2
  <2>4. QED
    BY <2>3 DEF all, fed
<1>7. QED
  BY <1>3, <1>4, <1>5, <1>6

-----------------------------------------------------------------------------
(* What the instrument sends                                                 *)

LEMMA FunctionIsSeq ==
  ASSUME NEW S, NEW n \in Nat, NEW f \in [1..n -> S]
  PROVE  f \in Seq(S) /\ Len(f) = n
<1>1. f \in Seq(S)
  BY SeqDef
<1>2. DOMAIN f = 1..Len(f) /\ Len(f) \in Nat
  BY <1>1, LenProperties
<1>3. QED
  BY <1>1, <1>2

LEMMA TaggedBytes ==
  ASSUME NEW values \in Seq(0 .. Base - 1), NEW n \in Nat
  PROVE  /\ Tagged(values, n) \in Seq(Bytes) /\ Len(Tagged(values, n)) = Len(values)
         /\ Len(values) \in Nat
         /\ \A i \in 1..Len(values) : /\ Tagged(values, n)[i].value = values[i]
                                      /\ Tagged(values, n)[i].of = n
<1>1. /\ Len(values) \in Nat /\ DOMAIN values = 1..Len(values)
      /\ \A i \in 1..Len(values) : values[i] \in 0 .. Base - 1
  BY LenProperties, ElementOfSeq
<1>2. Tagged(values, n) = [i \in 1..Len(values) |-> [value |-> values[i], of |-> n]]
  BY <1>1 DEF Tagged
<1>3. Tagged(values, n) \in [1..Len(values) -> Bytes]
  BY <1>1, <1>2 DEF Bytes
<1>4. Tagged(values, n) \in Seq(Bytes) /\ Len(Tagged(values, n)) = Len(values)
  BY <1>1, <1>3, FunctionIsSeq
<1>5. QED
  BY <1>1, <1>2, <1>4

LEMMA ValuesAre ==
  ASSUME NEW q \in Seq(Bytes)
  PROVE  /\ Values(q) \in Seq(0 .. Base - 1) /\ Len(Values(q)) = Len(q)
         /\ \A i \in 1..Len(q) : Values(q)[i] = q[i].value
<1>1. /\ Len(q) \in Nat /\ DOMAIN q = 1..Len(q)
      /\ \A i \in 1..Len(q) : q[i].value \in 0 .. Base - 1
  BY BytesTyped
<1>2. Values(q) = [i \in 1..Len(q) |-> q[i].value]
  BY <1>1 DEF Values
<1>3. Values(q) \in [1..Len(q) -> 0 .. Base - 1]
  BY <1>1, <1>2
<1>4. Values(q) \in Seq(0 .. Base - 1) /\ Len(Values(q)) = Len(q)
  BY <1>1, <1>3, FunctionIsSeq
<1>5. QED
  BY <1>2, <1>4

LEMMA ValuesOfTagged ==
  ASSUME NEW values \in Seq(0 .. Base - 1), NEW n \in Nat
  PROVE  Values(Tagged(values, n)) = values
<1> DEFINE q == Tagged(values, n)
<1>1. /\ q \in Seq(Bytes) /\ Len(q) = Len(values)
      /\ \A i \in 1..Len(values) : q[i].value = values[i]
  BY TaggedBytes
<1> HIDE DEF q
<1>2. /\ Values(q) \in Seq(0 .. Base - 1) /\ Len(Values(q)) = Len(values)
      /\ \A i \in 1..Len(values) : Values(q)[i] = values[i]
  BY <1>1, ValuesAre
<1>3. Values(q) = values
  BY <1>2, SeqEqual
<1>4. QED
  BY <1>3 DEF q

LEMMA OutputsTyped ==
  ASSUME NEW k \in Kinds, NEW values \in Outputs(k)
  PROVE  values \in Seq(0 .. Base - 1) /\ Len(values) <= DrainLimit
<1>1. values \in Seq(0 .. Base - 1)
  <2>1. CASE k = "none"
    BY <2>1, EndpointAssumption DEF Outputs
  <2>2. CASE k # "none"
    <3>1. k \in Kinds \ {"none"} /\ values \in Answers[k]
      BY <2>2 DEF Outputs
    <3>2. Answers[k] \in SUBSET Seq(0 .. Base - 1)
      BY <3>1, EndpointAssumption
    <3>3. QED
      BY <3>1, <3>2
  <2>3. QED
    BY <2>1, <2>2
<1>2. QED
  BY <1>1, OutputsFit

LEMMA PrefixIs ==
  ASSUME NEW S, NEW s \in Seq(S), NEW t \in Seq(S)
  PROVE  IsPrefix(s, t) <=> Len(s) <= Len(t) /\ \A i \in 1..Len(s) : s[i] = t[i]
<1>1. Len(s) \in Nat /\ Len(t) \in Nat
  BY LenProperties
<1>2. ASSUME Len(s) <= Len(t)
      PROVE  SubSeq(s, 1, Len(s)) = SubSeq(t, 1, Len(s))
               <=> \A i \in 1..Len(s) : s[i] = t[i]
  <2> DEFINE r == SubSeq(t, 1, Len(s))
  <2>1. SubSeq(s, 1, Len(s)) = s
    BY SubSeqFull
  <2>2. Len(s) \in 0..Len(t)
    BY <1>1, <1>2
  <2>3. r \in Seq(S) /\ Len(r) = Len(s) /\ \A i \in 1..Len(s) : r[i] = t[i]
    BY <2>2, Cut
  <2> HIDE DEF r
  <2>4. s = r <=> \A i \in 1..Len(s) : s[i] = r[i]
    <3>1. (\A i \in 1..Len(s) : s[i] = r[i]) => s = r
      BY <2>3, SeqEqual
    <3>2. QED
      BY <3>1
  <2>5. s = r <=> \A i \in 1..Len(s) : s[i] = t[i]
    BY <2>3, <2>4
  <2>6. QED
    BY <2>1, <2>5 DEF r
<1>3. QED
  BY <1>2 DEF IsPrefix

LEMMA PrefixExtends ==
  ASSUME NEW S, NEW s \in Seq(S), NEW t \in Seq(S), NEW u \in Seq(S), IsPrefix(s, t)
  PROVE  IsPrefix(s, t \o u)
<1>1. Len(s) <= Len(t) /\ (\A i \in 1..Len(s) : s[i] = t[i]) /\ Len(s) \in Nat
  BY PrefixIs, LenProperties
<1>2. /\ t \o u \in Seq(S) /\ Len(t) \in Nat /\ Len(u) \in Nat
      /\ Len(t \o u) = Len(t) + Len(u) /\ \A i \in 1..Len(t) : (t \o u)[i] = t[i]
  BY Joined
<1>3. Len(s) <= Len(t \o u) /\ \A i \in 1..Len(s) : s[i] = (t \o u)[i]
  BY <1>1, <1>2
<1>4. QED
  BY <1>2, <1>3, PrefixIs

\* Bytes that begin an answer and are a frame are the whole answer.
LEMMA AnswerIsWhole ==
  ASSUME NEW k \in Kinds \ {"none"}, NEW n \in 1..MaxCommands, NEW values \in Answers[k],
         NEW p \in Seq(Bytes), NEW q \in Seq(Bytes), p \o q = Tagged(values, n),
         Len(p) >= 1, FrameEnds(ModeOf(k), p, Len(p))
  PROVE  p = Tagged(values, n) /\ q = <<>>
<1> DEFINE whole == Tagged(values, n)
<1>1. /\ p \o q \in Seq(Bytes) /\ Len(p) \in Nat /\ Len(q) \in Nat
      /\ Len(p \o q) = Len(p) + Len(q)
  BY Joined
<1>2. values \in Seq(0 .. Base - 1) /\ n \in Nat /\ ModeOf(k) \in FrameModes
  <2>1. k \in Kinds /\ values \in Outputs(k)
    BY DEF Outputs
  <2>2. QED
    BY <2>1, OutputsTyped, EndpointAssumption DEF ModeOf, FrameModes
<1>3. Len(whole) = Len(values) /\ Len(values) \in Nat
  BY <1>2, TaggedBytes
<1>4. FrameEnds(ModeOf(k), whole, Len(p))
  <2>1. Len(p) \in 1..Len(p)
    BY <1>1
  <2>2. FrameEnds(ModeOf(k), p \o q, Len(p))
    BY <1>2, <2>1, FrameEndsInPart
  <2>3. QED
    BY <2>2
<1>5. ~(Len(p) \in 1..Len(values) - 1)
  BY <1>2, <1>4, AnswersAreFrames
<1>6. Len(q) = 0
  <2>1. Len(p) + Len(q) = Len(values)
    BY <1>1, <1>3
  <2>2. QED
    BY <1>1, <1>3, <1>5, <2>1
<1>7. q = <<>>
  BY <1>6, EmptySeq
<1>8. p \o q = p
  BY <1>7, ConcatEmptySeq
<1>9. QED
  BY <1>7, <1>8

\* A line whose payload is the identity.
LEMMA IdentityLine ==
  ASSUME NEW p \in Seq(Bytes), Len(p) >= 1, FrameEnds("ascii", p, Len(p)),
         Values(FramePayload("ascii", p, Len(p))) = IdentityValues
  PROVE  Values(p) \in IdentityLines
<1> DEFINE size == Len(p)
           line == SubSeq(p, 1, size - 1)
<1>1. size \in Nat /\ size - 1 \in 0..Len(p) /\ size >= 1
  BY BytesTyped
<1>2. line \in Seq(Bytes) /\ Len(line) = size - 1 /\ \A i \in 1..size - 1 : line[i] = p[i]
  BY <1>1, Cut
<1> HIDE DEF line
<1>3. p[size].value = LF
  BY DEF FrameEnds
<1>4. Values(WithoutCR(line)) = IdentityValues
  BY DEF FramePayload, line
<1>5. /\ Values(p) \in Seq(0 .. Base - 1) /\ Len(Values(p)) = size
      /\ \A i \in 1..size : Values(p)[i] = p[i].value
  BY ValuesAre
<1>6. CASE line # <<>> /\ Last(line).value = CR
  <2> DEFINE payload == SubSeq(line, 1, (size - 1) - 1)
             tail == <<CR, LF>>
             other == IdentityValues \o tail
  <2>1. size - 1 >= 1
    <3>1. Len(line) \in Nat \ {0}
      BY <1>2, <1>6, EmptySeq
    <3>2. QED
      BY <1>1, <1>2, <3>1
  <2>2. (size - 1) - 1 \in 0..Len(line)
    BY <1>1, <1>2, <2>1
  <2>3. /\ payload \in Seq(Bytes) /\ Len(payload) = size - 2
        /\ \A i \in 1..size - 2 : payload[i] = line[i]
    <3>1. (size - 1) - 1 = size - 2
      BY <1>1
    <3>2. /\ payload \in Seq(Bytes) /\ Len(payload) = (size - 1) - 1
          /\ \A i \in 1..(size - 1) - 1 : payload[i] = line[i]
      BY <1>2, <2>2, Cut
    <3> HIDE DEF payload
    <3>3. QED
      BY <3>1, <3>2
  <2>4. WithoutCR(line) = payload /\ p[size - 1].value = CR
    <3>1. line[size - 1] = p[size - 1]
      BY <1>1, <1>2, <2>1
    <3>2. Last(line) = line[size - 1] /\ Front(line) = payload
      BY <1>2 DEF Last, Front
    <3>3. QED
      BY <1>6, <3>1, <3>2 DEF WithoutCR
  <2> HIDE DEF payload
  <2>5. Len(IdentityValues) = size - 2 /\ \A i \in 1..size - 2 : IdentityValues[i] = p[i].value
    <3>1. /\ Len(Values(payload)) = size - 2
          /\ \A i \in 1..size - 2 : Values(payload)[i] = payload[i].value
      BY <2>3, ValuesAre
    <3>2. \A i \in 1..size - 2 : payload[i] = p[i]
      BY <1>1, <1>2, <2>3
    <3>3. QED
      BY <1>4, <2>4, <3>1, <3>2
  <2>6. tail \in Seq(0 .. Base - 1) /\ Len(tail) = 2 /\ tail[1] = CR /\ tail[2] = LF
    BY DecoderAssumption
  <2> HIDE DEF tail
  <2>7. /\ other \in Seq(0 .. Base - 1) /\ Len(other) = Len(IdentityValues) + Len(tail)
        /\ \A i \in 1..Len(IdentityValues) : other[i] = IdentityValues[i]
        /\ \A i \in 1..Len(tail) : other[Len(IdentityValues) + i] = tail[i]
    <3> DEFINE Digits == 0 .. Base - 1
    <3>1. IdentityValues \in Seq(Digits) /\ tail \in Seq(Digits)
      BY <2>6, EndpointAssumption
    <3> HIDE DEF Digits
    <3>2. /\ other \in Seq(Digits) /\ Len(other) = Len(IdentityValues) + Len(tail)
          /\ \A i \in 1..Len(IdentityValues) : other[i] = IdentityValues[i]
          /\ \A i \in 1..Len(tail) : other[Len(IdentityValues) + i] = tail[i]
      BY <3>1, Joined
    <3>3. QED
      BY <3>2 DEF Digits
  <2> HIDE DEF other
  <2>8. Len(other) = size /\ other[size - 1] = CR /\ other[size] = LF
    <3>1. Len(IdentityValues) + 1 = size - 1 /\ Len(IdentityValues) + 2 = size
      BY <1>1, <2>1, <2>5
    <3>2. 1 \in 1..Len(tail) /\ 2 \in 1..Len(tail)
      BY <2>6
    <3>3. QED
      BY <2>6, <2>7, <3>1, <3>2
  <2>9. \A i \in 1..size : i \in 1..size - 2 \/ i = size - 1 \/ i = size
    BY <1>1
  <2>10. \A i \in 1..size : other[i] = Values(p)[i]
    <3>1. size - 1 \in 1..size /\ size \in 1..size
      BY <1>1, <2>1
    <3>2. ASSUME NEW i \in 1..size, i \in 1..size - 2 PROVE other[i] = Values(p)[i]
      BY <1>5, <2>5, <2>7, <3>2
    <3>3. QED
      BY <1>3, <1>5, <2>4, <2>8, <2>9, <3>1, <3>2
  <2>11. other = Values(p)
    BY <1>5, <2>7, <2>8, <2>10, SeqEqual
  <2>12. QED
    BY <2>11 DEF IdentityLines, other, tail
<1>7. CASE ~(line # <<>> /\ Last(line).value = CR)
  <2> DEFINE tail == <<LF>>
             other == IdentityValues \o tail
  <2>1. WithoutCR(line) = line
    BY <1>7 DEF WithoutCR
  <2>2. Len(IdentityValues) = size - 1 /\ \A i \in 1..size - 1 : IdentityValues[i] = p[i].value
    <3>1. /\ Len(Values(line)) = size - 1
          /\ \A i \in 1..size - 1 : Values(line)[i] = line[i].value
      BY <1>2, ValuesAre
    <3>2. QED
      BY <1>2, <1>4, <2>1, <3>1
  <2>3. tail \in Seq(0 .. Base - 1) /\ Len(tail) = 1 /\ tail[1] = LF
    BY DecoderAssumption
  <2> HIDE DEF tail
  <2>4. /\ other \in Seq(0 .. Base - 1) /\ Len(other) = Len(IdentityValues) + Len(tail)
        /\ \A i \in 1..Len(IdentityValues) : other[i] = IdentityValues[i]
        /\ \A i \in 1..Len(tail) : other[Len(IdentityValues) + i] = tail[i]
    <3> DEFINE Digits == 0 .. Base - 1
    <3>1. IdentityValues \in Seq(Digits) /\ tail \in Seq(Digits)
      BY <2>3, EndpointAssumption
    <3> HIDE DEF Digits
    <3>2. /\ other \in Seq(Digits) /\ Len(other) = Len(IdentityValues) + Len(tail)
          /\ \A i \in 1..Len(IdentityValues) : other[i] = IdentityValues[i]
          /\ \A i \in 1..Len(tail) : other[Len(IdentityValues) + i] = tail[i]
      BY <3>1, Joined
    <3>3. QED
      BY <3>2 DEF Digits
  <2> HIDE DEF other
  <2>5. Len(other) = size /\ other[size] = LF
    <3>1. Len(IdentityValues) + 1 = size /\ 1 \in 1..Len(tail)
      BY <1>1, <2>2, <2>3
    <3>2. QED
      BY <2>3, <2>4, <3>1
  <2>6. \A i \in 1..size : other[i] = Values(p)[i]
    <3>1. size \in 1..size /\ \A i \in 1..size : i \in 1..size - 1 \/ i = size
      BY <1>1
    <3>2. ASSUME NEW i \in 1..size, i \in 1..size - 1 PROVE other[i] = Values(p)[i]
      BY <1>5, <2>2, <2>4, <3>2
    <3>3. QED
      BY <1>3, <1>5, <2>5, <3>1, <3>2
  <2>7. other = Values(p)
    BY <1>5, <2>4, <2>5, <2>6, SeqEqual
  <2>8. QED
    BY <2>7 DEF IdentityLines, other, tail
<1>8. QED
  BY <1>6, <1>7

\* What begins with something that does not read as the identity is not the identity.
LEMMA StaleIsNotIdentity ==
  ASSUME NEW values \in Seq(0 .. Base - 1), ~ReadsAsIdentity(values), NEW m \in 1..MaxCommands,
         NEW p \in Seq(Bytes), NEW q \in Seq(Bytes), IsPrefix(Tagged(values, m), p \o q),
         Len(p) >= 1, FrameEnds("ascii", p, Len(p))
  PROVE  Values(FramePayload("ascii", p, Len(p))) # IdentityValues
<1> DEFINE whole == Tagged(values, m)
           all == p \o q
           line == Values(p)
<1>1. SUFFICES ASSUME Values(FramePayload("ascii", p, Len(p))) = IdentityValues
               PROVE  FALSE
  OBVIOUS
<1>2. line \in IdentityLines
  BY <1>1, IdentityLine
<1>3. ~IsPrefix(values, line) /\ ~IsPrefix(line, values)
  BY <1>2 DEF ReadsAsIdentity
<1>4. values \in Seq(0 .. Base - 1) /\ m \in Nat
  BY EndpointAssumption
<1>5. /\ line \in Seq(0 .. Base - 1) /\ Len(line) = Len(p)
      /\ \A i \in 1..Len(p) : line[i] = p[i].value
  BY ValuesAre
<1> HIDE DEF line
<1>6. /\ whole \in Seq(Bytes) /\ Len(whole) = Len(values) /\ Len(values) \in Nat
      /\ \A i \in 1..Len(values) : whole[i].value = values[i]
  BY <1>4, TaggedBytes
<1>7. /\ all \in Seq(Bytes) /\ Len(p) \in Nat
      /\ \A i \in 1..Len(p) : all[i] = p[i]
  BY Joined
<1>8. Len(whole) <= Len(all) /\ \A i \in 1..Len(whole) : whole[i] = all[i]
  <2>1. IsPrefix(whole, all)
    OBVIOUS
  <2> HIDE DEF whole, all
  <2>2. QED
    BY <1>6, <1>7, <2>1, PrefixIs
<1> HIDE DEF whole, all
<1>9. \A i \in 1..Len(values) : i \in 1..Len(p) => values[i] = line[i]
  BY <1>5, <1>6, <1>7, <1>8
<1>10. CASE Len(values) <= Len(line)
  <2>1. \A i \in 1..Len(values) : values[i] = line[i]
    BY <1>5, <1>6, <1>7, <1>9, <1>10
  <2>2. IsPrefix(values, line)
    BY <1>4, <1>5, <1>10, <2>1, PrefixIs
  <2>3. QED
    BY <1>3, <2>2
<1>11. CASE Len(line) <= Len(values)
  <2>1. \A i \in 1..Len(line) : line[i] = values[i]
    BY <1>5, <1>6, <1>7, <1>9, <1>11
  <2>2. IsPrefix(line, values)
    BY <1>4, <1>5, <1>11, <2>1, PrefixIs
  <2>3. QED
    BY <1>3, <2>2
<1>12. QED
  BY <1>5, <1>6, <1>7, <1>10, <1>11

-----------------------------------------------------------------------------
(* The inductive invariant                                                   *)

\* What this exchange has read and can still read.
Stream == received \o wire
Silent == Stream = <<>> /\ pending = <<>>

\* What comes first was sent for an earlier command, and does not read as the identity.
Stale ==
  \/ Stream = <<>> /\ pending # <<>> /\ ~ReadsAsIdentity(Values(Head(pending).bytes))
  \/ \E m \in 1..MaxCommands, values \in Seq(0 .. Base - 1) :
       ~ReadsAsIdentity(values) /\ IsPrefix(Tagged(values, m), Stream)

\* All there is comes from the current command.
Own ==
  \/ Silent
  \/ Stream = <<>> /\ Len(pending) = 1 /\ Head(pending).number = number /\ Head(pending).kind = kind
  \/ pending = <<>> /\ \E values \in Answers[kind] : Stream = Tagged(values, number)

\* Of a candidate that an imposter may have let in nothing is known.
StreamKnown == ~imposter =>
  /\ place = "idle" /\ ~idleProbe => wire = <<>> /\ pending = <<>>
  /\ place = "writing" => Silent \/ (kind = "identity" /\ Stale)
  /\ place = "reading" => Own \/ (kind = "identity" /\ Stale)

Placed ==
  /\ place = "draining" => number < MaxCommands /\ answered = NoAnswer
  /\ place \notin {"down", "draining"} => number > 0
  /\ place # "down" => buffer = <<>>
  /\ place \notin {"down", "idle", "reading"} => received = <<>>
  /\ place = "silence" => kind = "none"
  /\ place = "reading" => kind # "none"

PendingKnown ==
  \A i \in 1..Len(pending) : \E values \in Outputs(pending[i].kind) :
    pending[i].bytes = Tagged(values, pending[i].number)

\* A run of bytes of one command is no longer than the command's output.
Runs(q) ==
  \A a \in 1..Len(q), b \in 1..Len(q) :
    a <= b /\ (\A i \in a..b : q[i].of = q[a].of) => b - a + 1 <= DrainLimit
Absent(q) == \A i \in 1..Len(pending), j \in 1..Len(q) : q[j].of # pending[i].number
Before(n) == /\ \A i \in 1..Len(pending) : pending[i].number <= n
             /\ \A i \in 1..Len(wire) : wire[i].of <= n

Counted ==
  /\ Before(number)
  /\ place \in {"probing", "writing"} => Before(number - 1)
  /\ \A i \in 1..Len(pending), j \in 1..Len(pending) :
       pending[i].number = pending[j].number => i = j
  /\ Runs(wire) /\ Absent(wire)
  /\ place = "draining" =>
       WithinDrainLimit(drained) /\ Runs(drained \o wire) /\ Absent(drained)

Decodes ==
  place = "reading" => decoder.mode = ModeOf(kind) /\ Decoding(decoder, received)

EndpointIInv ==
  /\ EndpointTypeOK /\ Placed /\ PendingKnown /\ StreamKnown /\ Counted /\ Decodes
  /\ AnswersBelong /\ DecodesReference /\ OverflowMeansExcess

USE DEF histories

Pendings == [number : 1 .. MaxCommands, kind : Kinds, bytes : Seq(Bytes)]

LEMMA Typed ==
  ASSUME EndpointTypeOK
  PROVE  /\ pending \in Seq(Pendings) /\ Len(pending) \in Nat /\ DOMAIN pending = 1..Len(pending)
         /\ \A i \in 1..Len(pending) : /\ pending[i] \in Pendings
                                       /\ pending[i].number \in 1..MaxCommands
                                       /\ pending[i].kind \in Kinds
                                       /\ pending[i].bytes \in Seq(Bytes)
         /\ wire \in Seq(Bytes) /\ Len(wire) \in Nat /\ DOMAIN wire = 1..Len(wire)
         /\ received \in Seq(Bytes) /\ Len(received) \in Nat /\ DOMAIN received = 1..Len(received)
         /\ drained \in Seq(Bytes) /\ Len(drained) \in Nat /\ DOMAIN drained = 1..Len(drained)
         /\ buffer \in Seq(Bytes) /\ decoder \in Decoders
         /\ number \in 0..MaxCommands /\ kind \in Kinds /\ place \in Places
         /\ MaxCommands \in Nat
<1>1. pending \in Seq(Pendings)
  BY DEF EndpointTypeOK, Pendings
<1>2. \A i \in 1..Len(pending) : pending[i] \in Pendings
  BY <1>1, ElementOfSeq
<1>3. Len(pending) \in Nat /\ DOMAIN pending = 1..Len(pending)
  BY <1>1, LenProperties
<1>4. \A r \in Pendings : r.number \in 1..MaxCommands /\ r.kind \in Kinds /\ r.bytes \in Seq(Bytes)
  BY DEF Pendings
<1>5. wire \in Seq(Bytes) /\ received \in Seq(Bytes) /\ drained \in Seq(Bytes)
  BY DEF EndpointTypeOK
<1>6. /\ Len(wire) \in Nat /\ DOMAIN wire = 1..Len(wire)
      /\ Len(received) \in Nat /\ DOMAIN received = 1..Len(received)
      /\ Len(drained) \in Nat /\ DOMAIN drained = 1..Len(drained)
  BY <1>5, LenProperties
<1>7. QED
  BY <1>1, <1>2, <1>3, <1>4, <1>5, <1>6, EndpointAssumption DEF EndpointTypeOK

\* One transfer takes a beginning of what is queued.
LEMMA Transferred ==
  ASSUME wire \in Seq(Bytes), NEW n \in 1..Len(wire), Transfer(n)
  PROVE  /\ Chunk(n) \in Seq(Bytes) /\ Len(Chunk(n)) = n /\ n <= TransferBytes
         /\ wire' \in Seq(Bytes) /\ wire' = SubSeq(wire, n + 1, Len(wire))
         /\ Chunk(n) \o wire' = wire /\ pending' = pending
<1>1. Len(wire) \in Nat
  BY LenProperties
<1>2. n \in 1..Smaller(TransferBytes, Len(wire))
  BY DEF Transfer
<1>3. n <= TransferBytes
  BY <1>1, <1>2, EndpointAssumption DEF Smaller
<1>4. n \in 0..Len(wire) /\ wire' = SubSeq(wire, n + 1, Len(wire)) /\ pending' = pending
  BY <1>1 DEF Transfer
<1>5. QED
  BY <1>3, <1>4, Cut DEF Chunk

\* What is left after a step that sends nothing.
Shorter(q) == \E m \in 0..Len(wire) : q = SubSeq(wire, m + 1, Len(wire))

LEMMA ShorterIs ==
  ASSUME wire \in Seq(Bytes), NEW q, Shorter(q)
  PROVE  \E m \in 0..Len(wire) :
           /\ q \in Seq(Bytes) /\ Len(q) \in Nat /\ Len(q) = Len(wire) - m
           /\ \A i \in 1..Len(q) : m + i \in 1..Len(wire) /\ q[i] = wire[m + i]
<1>1. PICK m \in 0..Len(wire) : q = SubSeq(wire, m + 1, Len(wire))
  BY DEF Shorter
<1>2. /\ q \in Seq(Bytes) /\ Len(q) = Len(wire) - m
      /\ \A i \in 1..Len(wire) - m : q[i] = wire[m + i]
  BY <1>1, Cut
<1>3. Len(wire) \in Nat /\ Len(q) \in Nat
  BY <1>2, LenProperties
<1>4. \A i \in 1..Len(q) : m + i \in 1..Len(wire) /\ i \in 1..Len(wire) - m
  BY <1>2, <1>3
<1>5. QED
  BY <1>2, <1>3, <1>4

LEMMA Unchanged ==
  ASSUME wire \in Seq(Bytes)
  PROVE  Shorter(wire)
<1>1. Len(wire) \in Nat /\ SubSeq(wire, 0 + 1, Len(wire)) = wire
  BY LenProperties, SubSeqFull
<1>2. 0 \in 0..Len(wire)
  BY <1>1
<1>3. QED
  BY <1>1, <1>2 DEF Shorter

LEMMA FailedTransfer ==
  ASSUME EndpointTypeOK, TransferFails
  PROVE  Shorter(wire') /\ pending' = pending
<1>1. wire \in Seq(Bytes) /\ DOMAIN wire = 1..Len(wire) /\ Len(wire) \in Nat
  BY Typed
<1>2. CASE UNCHANGED instrument
  BY <1>1, <1>2, Unchanged DEF instrument
<1>3. CASE \E n \in DOMAIN wire : Transfer(n)
  <2>1. PICK n \in 1..Len(wire) : Transfer(n)
    BY <1>1, <1>3
  <2>2. wire' = SubSeq(wire, n + 1, Len(wire)) /\ pending' = pending /\ n \in 0..Len(wire)
    BY <1>1, <2>1 DEF Transfer
  <2>3. QED
    BY <2>2 DEF Shorter
<1>4. QED
  BY <1>2, <1>3 DEF TransferFails

\* Every action but Emit takes from the wire.
LEMMA OthersShorten ==
  ASSUME EndpointTypeOK, EndpointNext \/ UNCHANGED endpointVars, ~Emit
  PROVE  Shorter(wire')
<1>1. wire \in Seq(Bytes) /\ DOMAIN wire = 1..Len(wire) /\ Len(wire) \in Nat
  BY Typed
<1>2. ASSUME NEW n \in DOMAIN wire, Transfer(n) PROVE Shorter(wire')
  <2>1. n \in 1..Len(wire) /\ n \in 0..Len(wire)
    BY <1>1
  <2>2. wire' = SubSeq(wire, n + 1, Len(wire))
    BY <1>2 DEF Transfer
  <2>3. QED
    BY <2>1, <2>2 DEF Shorter
<1>3. wire' = wire => Shorter(wire')
  BY <1>1, Unchanged
<1>4. CASE Reopen \/ DrainQuiet \/ ProbeQuiet \/ Write \/ WriteFails \/ SilenceObserved
           \/ (\E k \in Kinds \ {"identity"} : BeginExchange(k)) \/ CommandsDone
           \/ UNCHANGED endpointVars
  BY <1>3, <1>4 DEF Reopen, DrainQuiet, ProbeQuiet, Write, WriteFails, SilenceObserved,
                    BeginExchange, CommandsDone, endpointVars, instrument
<1>5. CASE DrainFails \/ ProbeFails
  BY <1>5, FailedTransfer DEF DrainFails, ProbeFails
<1>6. CASE ReadFails
  <2>1. CASE deferredEOF
    BY <1>3, <1>6, <2>1 DEF ReadFails, instrument
  <2>2. CASE ~deferredEOF
    BY <1>6, <2>2, FailedTransfer DEF ReadFails
  <2>3. QED
    BY <2>1, <2>2
<1>7. CASE DrainTransfer
  <2>1. \E n \in DOMAIN wire : Transfer(n)
    BY <1>7 DEF DrainTransfer
  <2>2. QED
    BY <1>2, <2>1
<1>8. CASE Receive
  <2>1. \E n \in DOMAIN wire : Transfer(n)
    BY <1>8 DEF Receive
  <2>2. QED
    BY <1>2, <2>1
<1>9. QED
  BY <1>4, <1>5, <1>6, <1>7, <1>8 DEF EndpointNext

\* Emit moves the first answer to the wire.
LEMMA Emitted ==
  ASSUME EndpointTypeOK, PendingKnown, Emit
  PROVE  \E values \in Outputs(pending[1].kind) :
           LET sent == Tagged(values, pending[1].number)
           IN /\ pending # <<>> /\ 1 \in 1..Len(pending) /\ Head(pending) = pending[1]
              /\ values \in Seq(0 .. Base - 1) /\ Len(values) <= DrainLimit
              /\ sent \in Seq(Bytes) /\ wire' = wire \o sent /\ wire' \in Seq(Bytes)
              /\ pending' \in Seq(Pendings) /\ Len(pending') = Len(pending) - 1
              /\ \A i \in 1..Len(pending') : i + 1 \in 1..Len(pending)
                                               /\ pending'[i] = pending[i + 1]
              /\ pending[1].bytes = sent
<1>1. /\ pending \in Seq(Pendings) /\ Len(pending) \in Nat /\ wire \in Seq(Bytes)
      /\ \A i \in 1..Len(pending) : /\ pending[i].number \in 1..MaxCommands
                                    /\ pending[i].kind \in Kinds
      /\ MaxCommands \in Nat
  BY Typed
<1>2. pending # <<>> /\ wire' = wire \o Head(pending).bytes /\ pending' = Tail(pending)
  BY DEF Emit
<1>3. Len(pending) \in Nat \ {0} /\ Head(pending) = pending[1]
  BY <1>1, <1>2, EmptySeq
<1>4. 1 \in 1..Len(pending)
  BY <1>3
<1>5. PICK values \in Outputs(pending[1].kind) :
        pending[1].bytes = Tagged(values, pending[1].number)
  BY <1>4 DEF PendingKnown
<1>6. pending[1].kind \in Kinds /\ pending[1].number \in Nat
  BY <1>1, <1>4
<1>7. values \in Seq(0 .. Base - 1) /\ Len(values) <= DrainLimit
  BY <1>5, <1>6, OutputsTyped
<1> DEFINE sent == Tagged(values, pending[1].number)
<1>8. sent \in Seq(Bytes)
  BY <1>6, <1>7, TaggedBytes
<1> HIDE DEF sent
<1>9. wire' = wire \o sent /\ wire' \in Seq(Bytes)
  <2>1. wire' = wire \o sent
    BY <1>2, <1>3, <1>5 DEF sent
  <2>2. QED
    BY <1>1, <1>8, <2>1, ConcatProperties
<1>10. /\ pending' \in Seq(Pendings) /\ Len(pending') = Len(pending) - 1
       /\ \A i \in 1..Len(pending') : pending'[i] = pending[i + 1]
  BY <1>1, <1>2, HeadTailProperties
<1>11. \A i \in 1..Len(pending') : i + 1 \in 1..Len(pending)
  BY <1>3, <1>10
<1>12. QED
  BY <1>2, <1>3, <1>4, <1>5, <1>7, <1>8, <1>9, <1>10, <1>11 DEF sent

-----------------------------------------------------------------------------
(* Counting: no command has more on the wire than it may send                *)

LEMMA RunsOfEnd ==
  ASSUME NEW p \in Seq(Bytes), NEW q \in Seq(Bytes), Runs(p \o q)
  PROVE  Runs(q)
<1> DEFINE all == p \o q
<1>1. /\ Len(p) \in Nat /\ Len(q) \in Nat /\ Len(all) = Len(p) + Len(q)
      /\ \A i \in 1..Len(q) : all[Len(p) + i] = q[i]
  BY Joined
<1>2. \A a \in 1..Len(all), b \in 1..Len(all) :
        a <= b /\ (\A i \in a..b : all[i].of = all[a].of) => b - a + 1 <= DrainLimit
  BY DEF Runs
<1> HIDE DEF all
<1>3. ASSUME NEW a \in 1..Len(q), NEW b \in 1..Len(q), a <= b,
             \A i \in a..b : q[i].of = q[a].of
      PROVE  b - a + 1 <= DrainLimit
  <2> DEFINE x == Len(p) + a
             y == Len(p) + b
  <2>1. x \in 1..Len(all) /\ y \in 1..Len(all) /\ x <= y /\ y - x + 1 = b - a + 1
    BY <1>1, <1>3
  <2>2. ASSUME NEW i \in x..y PROVE all[i].of = all[x].of
    <3>1. i - Len(p) \in a..b /\ i - Len(p) \in 1..Len(q) /\ i = Len(p) + (i - Len(p))
      BY <1>1, <1>3
    <3>2. all[i] = q[i - Len(p)] /\ all[x] = q[a]
      BY <1>1, <3>1
    <3>3. QED
      BY <1>3, <3>1, <3>2
  <2> HIDE DEF x, y
  <2>3. y - x + 1 <= DrainLimit
    BY <1>2, <2>1, <2>2
  <2>4. QED
    BY <2>1, <2>3
<1>4. QED
  BY <1>3 DEF Runs

\* What one command sends is one more run.
LEMMA RunsOfMore ==
  ASSUME NEW q \in Seq(Bytes), Runs(q), NEW n \in Nat, \A j \in 1..Len(q) : q[j].of # n,
         NEW values \in Seq(0 .. Base - 1), Len(values) <= DrainLimit
  PROVE  Runs(q \o Tagged(values, n))
<1> DEFINE sent == Tagged(values, n)
           all == q \o sent
<1>1. /\ sent \in Seq(Bytes) /\ Len(sent) = Len(values) /\ Len(values) \in Nat
      /\ \A i \in 1..Len(values) : sent[i].of = n
  BY TaggedBytes
<1> HIDE DEF sent
<1>2. /\ Len(q) \in Nat /\ Len(all) = Len(q) + Len(values)
      /\ \A i \in 1..Len(q) : all[i] = q[i]
      /\ \A i \in 1..Len(all) : i \in 1..Len(q) \/ (i > Len(q) /\ i - Len(q) \in 1..Len(values)
                                                      /\ all[i] = sent[i - Len(q)])
  <2>1. /\ Len(q) \in Nat /\ Len(all) = Len(q) + Len(sent)
        /\ \A i \in 1..Len(q) : all[i] = q[i]
        /\ \A i \in 1..Len(all) : i \in 1..Len(q) \/ (i > Len(q) /\ i - Len(q) \in 1..Len(sent)
                                                        /\ all[i] = sent[i - Len(q)])
    <3>1. q \in Seq(Bytes) /\ sent \in Seq(Bytes)
      BY <1>1
    <3>2. /\ Len(q) \in Nat /\ Len(q \o sent) = Len(q) + Len(sent)
          /\ \A i \in 1..Len(q) : (q \o sent)[i] = q[i]
          /\ \A i \in 1..Len(q \o sent) :
               i \in 1..Len(q) \/ (i > Len(q) /\ i - Len(q) \in 1..Len(sent)
                                      /\ (q \o sent)[i] = sent[i - Len(q)])
      BY <3>1, Joined
    <3>3. QED
      BY <3>2
  <2>2. QED
    BY <1>1, <2>1
<1> HIDE DEF all
<1>3. \A i \in 1..Len(all) : (i \in 1..Len(q) /\ all[i].of # n) \/ (i > Len(q) /\ all[i].of = n)
  <2>1. ASSUME NEW i \in 1..Len(all), i \in 1..Len(q) PROVE all[i].of # n
    BY <1>2, <2>1
  <2>2. ASSUME NEW i \in 1..Len(all), i > Len(q), i - Len(q) \in 1..Len(values),
               all[i] = sent[i - Len(q)]
        PROVE  all[i].of = n
    BY <1>1, <2>2
  <2>3. ASSUME NEW i \in 1..Len(all)
        PROVE  (i \in 1..Len(q) /\ all[i].of # n) \/ (i > Len(q) /\ all[i].of = n)
    <3>1. i \in 1..Len(q) \/ (i > Len(q) /\ i - Len(q) \in 1..Len(values)
                                  /\ all[i] = sent[i - Len(q)])
      BY <1>2
    <3>2. CASE i \in 1..Len(q)
      <4>1. all[i].of # n
        BY <2>1, <3>2
      <4>2. QED
        BY <3>2, <4>1
    <3>3. CASE i > Len(q) /\ i - Len(q) \in 1..Len(values) /\ all[i] = sent[i - Len(q)]
      BY <2>2, <3>3
    <3>4. QED
      BY <3>1, <3>2, <3>3
  <2>4. QED
    BY <2>3
<1>4. ASSUME NEW a \in 1..Len(all), NEW b \in 1..Len(all), a <= b,
             \A i \in a..b : all[i].of = all[a].of
      PROVE  b - a + 1 <= DrainLimit
  <2>0. a \in Nat /\ b \in Nat /\ a \in a..b /\ b \in a..b /\ DrainLimit \in Nat
    BY <1>2, <1>1, <1>4, PrefixFact DEF DrainLimit
  <2>1. CASE b \in 1..Len(q)
    <3>1. a \in 1..Len(q)
      BY <1>2, <1>4, <2>1
    <3>2. \A i \in a..b : i \in 1..Len(q) /\ all[i] = q[i]
      BY <1>2, <2>1, <3>1
    <3>3. \A i \in a..b : q[i].of = q[a].of
      BY <1>4, <2>0, <3>2
    <3>4. QED
      BY <1>4, <2>1, <3>1, <3>3 DEF Runs
  <2>2. CASE b > Len(q)
    <3>1. all[b].of = n
      BY <1>3, <1>2, <2>2
    <3>2. all[a].of = n
      BY <1>4, <2>0, <3>1
    <3>3. a > Len(q)
      BY <1>3, <3>2
    <3>4. b - a + 1 <= Len(values)
      BY <1>1, <1>2, <2>0, <3>3
    <3>5. \A v, l, x \in Int : x <= v /\ v <= l => x <= l
      OBVIOUS
    <3>6. QED
      BY <1>1, <2>0, <3>4, <3>5
  <2>3. QED
    BY <1>2, <2>1, <2>2
<1>5. Runs(all)
  BY <1>4 DEF Runs
<1>6. QED
  BY <1>5 DEF all, sent

LEMMA CountedByEmit ==
  ASSUME EndpointTypeOK, PendingKnown, Counted, Emit
  PROVE  Counted'
<1>1. PICK values \in Outputs(pending[1].kind) :
           LET sent == Tagged(values, pending[1].number)
           IN /\ pending # <<>> /\ 1 \in 1..Len(pending) /\ Head(pending) = pending[1]
              /\ values \in Seq(0 .. Base - 1) /\ Len(values) <= DrainLimit
              /\ sent \in Seq(Bytes) /\ wire' = wire \o sent /\ wire' \in Seq(Bytes)
              /\ pending' \in Seq(Pendings) /\ Len(pending') = Len(pending) - 1
              /\ \A i \in 1..Len(pending') : i + 1 \in 1..Len(pending)
                                               /\ pending'[i] = pending[i + 1]
  BY Emitted
<1> DEFINE n == pending[1].number
           sent == Tagged(values, n)
<1>2. /\ 1 \in 1..Len(pending) /\ Len(values) <= DrainLimit /\ values \in Seq(0 .. Base - 1)
      /\ sent \in Seq(Bytes) /\ wire' = wire \o sent /\ wire' \in Seq(Bytes)
      /\ Len(pending') = Len(pending) - 1
      /\ \A i \in 1..Len(pending') : i + 1 \in 1..Len(pending) /\ pending'[i] = pending[i + 1]
  BY <1>1
<1>3. /\ wire \in Seq(Bytes) /\ drained \in Seq(Bytes) /\ Len(pending) \in Nat
      /\ Len(drained) \in Nat /\ Len(wire) \in Nat
      /\ \A i \in 1..Len(pending) : pending[i].number \in 1..MaxCommands
      /\ MaxCommands \in Nat
  BY Typed
<1>4. n \in Nat
  <2>1. n \in 1..MaxCommands /\ MaxCommands \in Nat
    BY <1>2, <1>3
  <2> HIDE DEF n
  <2>2. QED
    BY <2>1
<1>5. /\ number' = number /\ place' = place /\ drained' = drained
  BY DEF Emit
<1>6. /\ Len(sent) = Len(values) /\ Len(values) \in Nat
      /\ \A i \in 1..Len(values) : sent[i].of = n
  BY <1>2, <1>4, TaggedBytes
<1>7. /\ Before(number)
      /\ place \in {"probing", "writing"} => Before(number - 1)
      /\ \A i \in 1..Len(pending), j \in 1..Len(pending) :
           pending[i].number = pending[j].number => i = j
      /\ Runs(wire) /\ Absent(wire)
      /\ place = "draining" =>
           WithinDrainLimit(drained) /\ Runs(drained \o wire) /\ Absent(drained)
  BY DEF Counted
<1>8. \A j \in 1..Len(wire) : wire[j].of # n
  BY <1>2, <1>7 DEF Absent
<1> DEFINE mine == pending[1].number
<1>9. \A i \in 1..Len(pending') : pending'[i].number # n
  <2>1. \A i \in 1..Len(pending') : i + 1 # 1 /\ i + 1 \in 1..Len(pending)
    BY <1>2
  <2>2. QED
    BY <1>2, <1>7, <2>1
<1> HIDE DEF n, mine
<1>10. /\ Len(wire') \in Nat
       /\ \A i \in 1..Len(wire') : (i \in 1..Len(wire) /\ wire'[i] = wire[i]) \/ wire'[i].of = n
  <2> HIDE DEF sent
  <2>1. /\ Len(wire \o sent) = Len(wire) + Len(sent)
        /\ \A i \in 1..Len(wire) : (wire \o sent)[i] = wire[i]
        /\ \A i \in 1..Len(wire \o sent) :
              i \in 1..Len(wire) \/ (i > Len(wire) /\ i - Len(wire) \in 1..Len(sent)
                                    /\ (wire \o sent)[i] = sent[i - Len(wire)])
    BY <1>2, <1>3, Joined
  <2>2. QED
    BY <1>2, <1>3, <1>6, <2>1
<1>11. ASSUME NEW m, Before(m) PROVE Before(m)'
  <2>1. n <= m
    BY <1>2, <1>11 DEF Before, n
  <2>2. \A i \in 1..Len(wire') : wire'[i].of <= m
    BY <1>10, <1>11, <2>1 DEF Before
  <2>3. \A i \in 1..Len(pending') : pending'[i].number <= m
    BY <1>2, <1>11 DEF Before
  <2>4. QED
    BY <2>2, <2>3 DEF Before
<1>12. Before(number)' /\ (place' \in {"probing", "writing"} => Before(number - 1)')
  BY <1>5, <1>7, <1>11
<1>13. \A i \in 1..Len(pending'), j \in 1..Len(pending') :
         pending'[i].number = pending'[j].number => i = j
  <2>1. ASSUME NEW i \in 1..Len(pending'), NEW j \in 1..Len(pending'),
               pending'[i].number = pending'[j].number
        PROVE  i = j
    <3>1. /\ i + 1 \in 1..Len(pending) /\ j + 1 \in 1..Len(pending)
          /\ pending[i + 1].number = pending[j + 1].number
      BY <1>2, <2>1
    <3>2. i + 1 = j + 1
      BY <1>7, <3>1
    <3>3. QED
      BY <3>2
  <2>2. QED
    BY <2>1
<1>14. ASSUME NEW q, Absent(q), NEW r, Len(r) \in Nat,
              \A i \in 1..Len(r) : (i \in 1..Len(q) /\ r[i] = q[i]) \/ r[i].of = n
       PROVE  \A i \in 1..Len(pending'), j \in 1..Len(r) : r[j].of # pending'[i].number
  BY <1>2, <1>9, <1>14 DEF Absent
<1>15. Runs(wire)' /\ Absent(wire)'
  <2>1. Runs(wire \o sent)
    BY <1>2, <1>3, <1>4, <1>7, <1>8, RunsOfMore
  <2>2. Runs(wire')
    BY <1>2, <2>1
  <2>3. Absent(wire)'
    <3>1. \A i \in 1..Len(pending'), j \in 1..Len(wire') : wire'[j].of # pending'[i].number
      BY <1>7, <1>10, <1>14
    <3>2. QED
      BY <3>1 DEF Absent
  <2>4. QED
    BY <2>2, <2>3 DEF Runs
<1>16. ASSUME place' = "draining"
       PROVE  WithinDrainLimit(drained)' /\ Runs(drained \o wire)' /\ Absent(drained)'
  <2>1. WithinDrainLimit(drained) /\ Runs(drained \o wire) /\ Absent(drained)
    BY <1>5, <1>7, <1>16
  <2>2. \A j \in 1..Len(drained) : drained[j].of # n
    BY <1>2, <2>1 DEF Absent, n
  <2> DEFINE q == drained \o wire
  <2>3. q \in Seq(Bytes) /\ \A j \in 1..Len(q) : q[j].of # n
    <3>1. /\ q \in Seq(Bytes)
          /\ \A i \in 1..Len(drained) : q[i] = drained[i]
          /\ \A i \in 1..Len(q) :
               i \in 1..Len(drained) \/ (i > Len(drained) /\ i - Len(drained) \in 1..Len(wire)
                                           /\ q[i] = wire[i - Len(drained)])
      BY <1>3, Joined
    <3>2. QED
      BY <1>8, <2>2, <3>1
  <2>4. Runs(q \o sent)
    <3>1. Runs(q)
      BY <2>1
    <3> HIDE DEF q
    <3>2. QED
      BY <1>2, <1>4, <2>3, <3>1, RunsOfMore
  <2>5. q \o sent = drained' \o wire'
    <3>1. (drained \o wire) \o sent = drained \o (wire \o sent)
      <4>1. sent \in Seq(Bytes) /\ wire \in Seq(Bytes) /\ drained \in Seq(Bytes)
        BY <1>2, <1>3
      <4> HIDE DEF sent
      <4>2. QED
        BY <4>1, Regrouped
    <3>2. QED
      BY <1>2, <1>5, <3>1
  <2>6. Runs(drained' \o wire')
    <3> HIDE DEF q, sent
    <3>1. QED
      BY <2>4, <2>5
  <2>7. Absent(drained)'
    BY <1>3, <1>5, <1>14, <2>1 DEF Absent
  <2>8. WithinDrainLimit(drained)'
    BY <1>5, <2>1 DEF WithinDrainLimit, DrainLimit
  <2>9. QED
    BY <2>6, <2>7, <2>8 DEF Runs, DrainLimit
<1>17. QED
  BY <1>12, <1>13, <1>15, <1>16 DEF Counted

LEMMA BeforeWhatIsLeft ==
  ASSUME EndpointTypeOK, Shorter(wire'), NEW n, Before(n)
  PROVE  \A i \in 1..Len(wire') : wire'[i].of <= n
<1>1. \E m \in 0..Len(wire) :
        \A i \in 1..Len(wire') : m + i \in 1..Len(wire) /\ wire'[i] = wire[m + i]
  BY Typed, ShorterIs
<1>2. QED
  BY <1>1 DEF Before

\* The instrument takes a command that nothing on its way is about.
LEMMA CountedByWrite ==
  ASSUME EndpointTypeOK, Placed, Counted, place = "writing", TakesCommand, wire' = wire,
         number' = number, place' # "draining", place' \notin {"probing", "writing"}
  PROVE  Counted'
<1>1. /\ pending \in Seq(Pendings) /\ wire \in Seq(Bytes) /\ kind \in Kinds
      /\ number \in 1..MaxCommands /\ MaxCommands \in Nat
      /\ Len(pending) \in Nat
      /\ \A i \in 1..Len(wire) : wire[i].of \in Nat
      /\ \A i \in 1..Len(pending) : pending[i].number \in 1..MaxCommands
  BY Typed, BytesTyped DEF Placed
<1>2. /\ Before(number - 1) /\ Before(number) /\ Runs(wire) /\ Absent(wire)
      /\ \A i \in 1..Len(pending), j \in 1..Len(pending) :
           pending[i].number = pending[j].number => i = j
  BY DEF Counted
<1>3. CASE UNCHANGED pending
  BY <1>2, <1>3 DEF Counted, Before, Runs, Absent, DrainLimit
<1>4. CASE \E values \in Outputs(kind) :
             pending' = Append(pending, [number |-> number, kind |-> kind,
                                         bytes |-> Tagged(values, number)])
  <2>1. PICK values \in Outputs(kind) :
          pending' = Append(pending, [number |-> number, kind |-> kind,
                                      bytes |-> Tagged(values, number)])
    BY <1>4
  <2> DEFINE r == [number |-> number, kind |-> kind, bytes |-> Tagged(values, number)]
  <2>2. r \in Pendings
    <3>1. values \in Seq(0 .. Base - 1)
      BY <1>1, OutputsTyped
    <3>2. Tagged(values, number) \in Seq(Bytes)
      BY <1>1, <3>1, TaggedBytes
    <3>3. QED
      BY <1>1, <3>2 DEF Pendings
  <2>3. /\ Len(pending') = Len(pending) + 1
        /\ \A i \in 1..Len(pending) : pending'[i] = pending[i]
        /\ pending'[Len(pending) + 1] = r
    <3> HIDE DEF r
    <3>1. pending' = Append(pending, r)
      BY <2>1 DEF r
    <3>2. QED
      BY <1>1, <2>2, <3>1, AppendProperties
  <2>4. r.number = number
    OBVIOUS
  <2> HIDE DEF r
  <2>5. \A i \in 1..Len(pending') : (i \in 1..Len(pending) /\ pending'[i] = pending[i])
                                      \/ (i = Len(pending) + 1 /\ pending'[i].number = number)
    BY <1>1, <2>3, <2>4
  <2>6. \A i \in 1..Len(pending) : pending[i].number # number
    BY <1>1, <1>2 DEF Before
  <2>7. \A i \in 1..Len(wire) : wire[i].of # number
    BY <1>1, <1>2 DEF Before
  <2>8. Before(number)'
    <3>1. \A i \in 1..Len(pending') : pending'[i].number <= number
      BY <1>1, <1>2, <2>5 DEF Before
    <3>2. \A i \in 1..Len(wire) : wire[i].of <= number
      BY <1>2 DEF Before
    <3>3. QED
      BY <3>1, <3>2 DEF Before
  <2>9. Absent(wire)'
    <3>1. \A i \in 1..Len(pending'), j \in 1..Len(wire) : wire[j].of # pending'[i].number
      BY <1>2, <2>5, <2>7 DEF Absent
    <3>2. QED
      BY <3>1 DEF Absent
  <2>10. \A i \in 1..Len(pending'), j \in 1..Len(pending') :
           pending'[i].number = pending'[j].number => i = j
    <3>1. ASSUME NEW i \in 1..Len(pending'), NEW j \in 1..Len(pending'),
                 pending'[i].number = pending'[j].number
          PROVE  i = j
      <4>1. CASE i \in 1..Len(pending) /\ j \in 1..Len(pending)
        <5>1. pending'[i] = pending[i] /\ pending'[j] = pending[j]
          BY <2>3, <4>1
        <5>2. QED
          BY <1>2, <3>1, <4>1, <5>1
      <4>2. CASE i \in 1..Len(pending) /\ j = Len(pending) + 1
        <5>1. pending'[i].number # number /\ pending'[j].number = number
          BY <2>3, <2>4, <2>6, <4>2
        <5>2. QED
          BY <3>1, <5>1
      <4>3. CASE i = Len(pending) + 1 /\ j \in 1..Len(pending)
        <5>1. pending'[j].number # number /\ pending'[i].number = number
          BY <2>3, <2>4, <2>6, <4>3
        <5>2. QED
          BY <3>1, <5>1
      <4>4. CASE i = Len(pending) + 1 /\ j = Len(pending) + 1
        BY <4>4
      <4>5. (i \in 1..Len(pending) \/ i = Len(pending) + 1)
              /\ (j \in 1..Len(pending) \/ j = Len(pending) + 1)
        BY <2>5
      <4>6. QED
        BY <4>1, <4>2, <4>3, <4>4, <4>5
    <3>2. QED
      BY <3>1
  <2>11. Runs(wire)'
    BY <1>2 DEF Runs, DrainLimit
  <2>12. QED
    BY <2>8, <2>9, <2>10, <2>11 DEF Counted
<1>5. QED
  BY <1>3, <1>4 DEF TakesCommand

\* A step that adds nothing.
LEMMA CountedByLess ==
  ASSUME EndpointTypeOK, EndpointTypeOK', Counted, Shorter(wire'), pending' = pending,
         number' \in {number, number + 1},
         place' \in {"probing", "writing"} =>
           number' = number + 1 \/ (number' = number /\ place \in {"probing", "writing"}),
         place' = "draining" =>
           WithinDrainLimit(drained)' /\ Runs(drained \o wire)' /\ Absent(drained)'
  PROVE  Counted'
<1>1. /\ Before(number) /\ Runs(wire) /\ Absent(wire)
      /\ place \in {"probing", "writing"} => Before(number - 1)
      /\ \A i \in 1..Len(pending), j \in 1..Len(pending) :
           pending[i].number = pending[j].number => i = j
  BY DEF Counted
<1>2. /\ wire \in Seq(Bytes) /\ Len(wire) \in Nat /\ number \in Nat /\ MaxCommands \in Nat
      /\ \A i \in 1..Len(wire) : wire[i].of \in Nat
      /\ \A i \in 1..Len(pending) : pending[i].number \in 1..MaxCommands
  <2>1. /\ wire \in Seq(Bytes) /\ Len(wire) \in Nat
        /\ number \in 0..MaxCommands /\ MaxCommands \in Nat
        /\ \A i \in 1..Len(pending) : pending[i].number \in 1..MaxCommands
    BY Typed
  <2>2. \A i \in 1..Len(wire) : wire[i].of \in Nat
    BY <2>1, BytesTyped
  <2>3. number \in Nat
    BY <2>1
  <2>4. QED
    BY <2>1, <2>2, <2>3
<1>3. wire' \in Seq(Bytes) /\ \A i \in 1..Len(wire') : wire'[i].of \in Nat
  <2>1. wire' \in Seq(Bytes)
    BY DEF EndpointTypeOK
  <2>2. QED
    BY <2>1, BytesTyped
<1>4. PICK m \in 0..Len(wire) :
        /\ wire' = SubSeq(wire, m + 1, Len(wire))
  BY DEF Shorter
<1>5. ASSUME NEW n \in Int, Before(n) PROVE Before(n)'
  <2>1. \A i \in 1..Len(wire') : wire'[i].of <= n
    BY <1>5, BeforeWhatIsLeft
  <2>2. QED
    BY <1>5, <2>1 DEF Before
<1>6. Before(number)'
  <2>1. Before(number')
    BY <1>1, <1>2 DEF Before
  <2>2. \A i \in 1..Len(wire') : wire'[i].of <= number'
    BY <2>1, BeforeWhatIsLeft
  <2>3. QED
    BY <2>1, <2>2 DEF Before
<1>7. ASSUME place' \in {"probing", "writing"} PROVE Before(number - 1)'
  <2>1. Before(number' - 1)
    <3>1. CASE number' = number + 1
      BY <1>1, <1>2, <3>1 DEF Before
    <3>2. CASE number' = number /\ place \in {"probing", "writing"}
      BY <1>1, <3>2 DEF Before
    <3>3. QED
      BY <1>7, <3>1, <3>2
  <2>2. \A i \in 1..Len(wire') : wire'[i].of <= number' - 1
    BY <2>1, BeforeWhatIsLeft
  <2>3. QED
    BY <2>1, <2>2 DEF Before
<1>8. Runs(wire)'
  <2>1. SubSeq(wire, 1, m) \in Seq(Bytes) /\ SubSeq(wire, 1, m) \o wire' = wire
    BY <1>2, <1>4, Cut
  <2>2. Runs(wire')
    BY <1>1, <1>3, <2>1, RunsOfEnd
  <2>3. QED
    BY <2>2 DEF Runs, DrainLimit
<1>9. Absent(wire)'
  <2>1. \E l \in 0..Len(wire) :
          \A i \in 1..Len(wire') : l + i \in 1..Len(wire) /\ wire'[i] = wire[l + i]
    BY <1>2, ShorterIs
  <2>2. \A i \in 1..Len(pending), j \in 1..Len(wire') : wire'[j].of # pending[i].number
    BY <1>1, <2>1 DEF Absent
  <2>3. QED
    BY <2>2 DEF Absent
<1>10. QED
  BY <1>1, <1>6, <1>7, <1>8, <1>9 DEF Counted

LEMMA EmptyRuns ==
  ASSUME NEW q, Len(q) = 0
  PROVE  Runs(q) /\ Absent(q) /\ WithinDrainLimit(q)
  BY PrefixFact DEF Runs, Absent, WithinDrainLimit, DrainLimit

\* A drain reads on in the same stream.
LEMMA DrainedOn ==
  ASSUME EndpointTypeOK, Counted, DrainTransfer
  PROVE  /\ Runs(drained' \o wire') /\ drained' \in Seq(Bytes) /\ wire' \in Seq(Bytes)
         /\ pending' = pending
         /\ \A i \in 1..Len(pending), j \in 1..Len(drained') : drained'[j].of # pending[i].number
         /\ Len(drained') <= DrainLimit + TransferBytes
<1>1. /\ wire \in Seq(Bytes) /\ DOMAIN wire = 1..Len(wire) /\ drained \in Seq(Bytes)
      /\ Len(wire) \in Nat
  BY Typed
<1>2. /\ WithinDrainLimit(drained) /\ Runs(drained \o wire) /\ Absent(drained) /\ Absent(wire)
  BY DEF Counted, DrainTransfer
<1>3. PICK n \in 1..Len(wire) : Transfer(n) /\ drained' = drained \o Chunk(n)
  BY <1>1 DEF DrainTransfer
<1>4. /\ Chunk(n) \in Seq(Bytes) /\ Len(Chunk(n)) = n /\ n <= TransferBytes
      /\ wire' \in Seq(Bytes) /\ Chunk(n) \o wire' = wire /\ pending' = pending
  BY <1>1, <1>3, Transferred
<1> DEFINE c == Chunk(n)
<1>5. c = SubSeq(wire, 1, n) /\ n \in 0..Len(wire)
  BY <1>1 DEF Chunk
<1>6. \A i \in 1..n : c[i] = wire[i] /\ i \in 1..Len(wire)
  <2>1. \A i \in 1..n : c[i] = wire[i]
    BY <1>1, <1>5, Cut
  <2>2. QED
    BY <1>1, <2>1
<1> HIDE DEF c
<1>7. c \in Seq(Bytes) /\ Len(c) = n /\ c \o wire' = wire /\ drained' = drained \o c
  BY <1>3, <1>4 DEF c
<1>8. drained' \o wire' = drained \o wire
  <2>1. c \in Seq(Bytes) /\ wire' \in Seq(Bytes) /\ drained \in Seq(Bytes)
    BY <1>1, <1>4, <1>7
  <2> DEFINE w == wire'
  <2>2. w \in Seq(Bytes)
    BY <2>1
  <2> HIDE DEF w
  <2>3. (drained \o c) \o w = drained \o (c \o w)
    BY <2>1, <2>2, Regrouped
  <2>4. QED
    BY <1>7, <2>3 DEF w
<1>9. Runs(drained' \o wire')
  BY <1>2, <1>8
<1>10. /\ drained \o c \in Seq(Bytes) /\ Len(drained) \in Nat /\ Len(c) \in Nat
       /\ Len(drained \o c) = Len(drained) + Len(c)
       /\ \A i \in 1..Len(drained) : (drained \o c)[i] = drained[i]
       /\ \A i \in 1..Len(drained \o c) :
            i \in 1..Len(drained) \/ (i > Len(drained) /\ i - Len(drained) \in 1..Len(c)
                                        /\ (drained \o c)[i] = c[i - Len(drained)])
  <2>1. drained \in Seq(Bytes) /\ c \in Seq(Bytes)
    BY <1>1, <1>7
  <2>2. QED
    BY <2>1, Joined
<1>11. \A i \in 1..Len(drained') : \/ i \in 1..Len(drained) /\ drained'[i] = drained[i]
                                   \/ /\ i - Len(drained) \in 1..Len(wire)
                                      /\ drained'[i] = wire[i - Len(drained)]
  BY <1>6, <1>7, <1>10
<1>12. \A i \in 1..Len(pending), j \in 1..Len(drained') : drained'[j].of # pending[i].number
  BY <1>2, <1>11 DEF Absent
<1>13. Len(drained') <= DrainLimit + TransferBytes
  <2>1. Len(drained) <= DrainLimit /\ DrainLimit \in Nat /\ TransferBytes \in Nat
    BY <1>2, PrefixFact, EndpointAssumption DEF WithinDrainLimit, DrainLimit
  <2>2. Len(drained') = Len(drained) + n /\ Len(drained) \in Nat /\ n \in Nat
    BY <1>7, <1>10
  <2>3. \A a, b, l, t \in Nat : a <= l /\ b <= t => a + b <= l + t
    OBVIOUS
  <2>4. QED
    BY <1>4, <2>1, <2>2, <2>3
<1>14. QED
  BY <1>4, <1>7, <1>9, <1>10, <1>12, <1>13

LEMMA CountedByOthers ==
  ASSUME EndpointTypeOK, EndpointTypeOK', Placed, Counted,
         EndpointNext \/ UNCHANGED endpointVars, ~Emit
  PROVE  Counted'
<1>1. Shorter(wire')
  BY OthersShorten
<1> DEFINE Drains == WithinDrainLimit(drained)' /\ Runs(drained \o wire)' /\ Absent(drained)'
<1>2. number \in Int
  BY Typed
<1>3. CASE CommandsDone \/ UNCHANGED endpointVars
  <2>1. UNCHANGED endpointVars
    BY <1>3 DEF CommandsDone
  <2>2. QED
    BY <2>1 DEF endpointVars, instrument, Counted, Before, Runs, Absent, WithinDrainLimit,
                DrainLimit
<1>4. CASE Reopen
  <2>1. /\ pending' = pending /\ number' = number /\ place' = "draining" /\ drained' = <<>>
        /\ wire' = wire
    BY <1>4 DEF Reopen, instrument
  <2>2. Len(drained') = 0
    BY <2>1, EmptySeq
  <2>3. drained' \o wire' = wire
    <3>1. wire \in Seq(Bytes)
      BY Typed
    <3>2. QED
      BY <2>1, <3>1, ConcatEmptySeq
  <2>4. Runs(wire)
    BY DEF Counted
  <2>5. Runs(drained \o wire)'
    <3>1. Runs(drained' \o wire')
      BY <2>3, <2>4
    <3>2. QED
      BY <3>1 DEF Runs, DrainLimit
  <2>6. WithinDrainLimit(drained)' /\ Absent(drained)'
    BY <2>2, PrefixFact DEF WithinDrainLimit, DrainLimit, Absent
  <2>7. QED
    BY <1>1, <2>1, <2>5, <2>6, CountedByLess
<1>5. CASE DrainTransfer
  <2>1. /\ number' = number
        /\ place' = IF WithinDrainLimit(drained') THEN "draining" ELSE "down"
    BY <1>5 DEF DrainTransfer
  <2>2. /\ Runs(drained' \o wire') /\ pending' = pending
        /\ \A i \in 1..Len(pending), j \in 1..Len(drained') : drained'[j].of # pending[i].number
    BY <1>5, DrainedOn
  <2>3. Runs(drained \o wire)' /\ Absent(drained)'
    BY <2>2 DEF Runs, DrainLimit, Absent
  <2>4. place' = "draining" => WithinDrainLimit(drained)'
    BY <2>1 DEF WithinDrainLimit, DrainLimit
  <2>5. place' \notin {"probing", "writing"}
    BY <2>1
  <2>6. QED
    BY <1>1, <2>1, <2>2, <2>3, <2>4, <2>5, CountedByLess
<1>6. CASE DrainQuiet \/ (\E k \in Kinds \ {"identity"} : BeginExchange(k))
  <2>1. pending' = pending /\ number' = number + 1 /\ place' # "draining"
    BY <1>6 DEF DrainQuiet, BeginExchange, instrument
  <2>2. QED
    BY <1>1, <2>1, CountedByLess
<1>7. CASE ProbeQuiet
  <2>1. pending' = pending /\ number' = number /\ place' # "draining" /\ place = "probing"
    BY <1>7 DEF ProbeQuiet, instrument
  <2>2. QED
    BY <1>1, <2>1, CountedByLess
<1>8. CASE DrainFails \/ ProbeFails \/ SilenceObserved
  <2>1. number' = number /\ place' \notin {"draining", "probing", "writing"} /\ pending' = pending
    BY <1>8, FailedTransfer DEF DrainFails, ProbeFails, SilenceObserved, SessionFails, instrument
  <2>2. QED
    BY <1>1, <2>1, CountedByLess
<1>9. CASE ReadFails
  <2>1. pending' = pending
    BY <1>9, FailedTransfer DEF ReadFails, instrument
  <2>2. number' = number /\ place' \notin {"draining", "probing", "writing"}
    BY <1>9 DEF ReadFails, SessionFails
  <2>3. QED
    BY <1>1, <2>1, <2>2, CountedByLess
<1>10. CASE Receive
  <2>1. pending' = pending
    BY <1>10 DEF Receive, Transfer
  <2>2. number' = number /\ place' \notin {"draining", "probing", "writing"}
    <3>1. place = "reading" /\ number' = number /\ place' \in {"idle", "down", place}
      BY <1>10 DEF Receive, SessionFails
    <3>2. QED
      BY <3>1
  <2>3. QED
    BY <1>1, <2>1, <2>2, CountedByLess
<1>11. CASE Write
  <2>1. /\ place = "writing" /\ TakesCommand /\ wire' = wire /\ number' = number
        /\ place' \in {"silence", "reading"}
    BY <1>11 DEF Write
  <2>2. QED
    BY <2>1, CountedByWrite
<1>12. CASE WriteFails
  <2>1. /\ place = "writing" /\ TakesCommand /\ wire' = wire /\ number' = number
        /\ place' = "down"
    BY <1>12 DEF WriteFails, SessionFails
  <2>2. QED
    BY <2>1, CountedByWrite
<1>13. QED
  BY <1>3, <1>4, <1>5, <1>6, <1>7, <1>8, <1>9, <1>10, <1>11, <1>12 DEF EndpointNext

\* A drain that overflows has read what two commands sent.
LEMMA OverflowByDrain ==
  ASSUME EndpointTypeOK, Counted, DrainTransfer
  PROVE  OverflowMeansExcess'
<1> DEFINE q == drained'
           w == wire'
           origins == {q[i].of : i \in DOMAIN q}
<1>1. /\ Runs(q \o w) /\ q \in Seq(Bytes) /\ w \in Seq(Bytes)
  BY DrainedOn
<1> HIDE DEF q, w
<1>2. Len(q) \in Nat /\ DOMAIN q = 1..Len(q) /\ DrainLimit \in Nat
  BY <1>1, BytesTyped, PrefixFact DEF DrainLimit
<1>3. ASSUME ~WithinDrainLimit(q), ~(Cardinality(origins) > 1) PROVE FALSE
  <2>1. Len(q) > DrainLimit
    BY <1>2, <1>3 DEF WithinDrainLimit
  <2>2. IsFiniteSet(origins)
    <3>1. IsFiniteSet(1..Len(q))
      BY <1>2, FS_Interval
    <3> DEFINE f == [i \in 1..Len(q) |-> q[i].of]
    <3>2. f \in Surjection(1..Len(q), origins)
      BY <1>2 DEF Surjection
    <3>3. QED
      BY <3>1, <3>2, FS_Surjection
  <2>3. 1 \in 1..Len(q) /\ q[1].of \in origins
    BY <1>2, <2>1
  <2>4. origins = {q[1].of}
    <3>1. Cardinality(origins) \in Nat
      BY <2>2, FS_CardinalityType
    <3>2. Cardinality(origins) # 0
      BY <2>2, <2>3, FS_EmptySet
    <3>3. Cardinality(origins) = 1
      BY <1>3, <3>1, <3>2
    <3>4. \E x : origins = {x}
      BY <2>2, <3>3, FS_Singleton
    <3>5. QED
      BY <2>3, <3>4
  <2>5. \A i \in 1..Len(q) : q[i].of = q[1].of
    BY <1>2, <2>4
  <2> DEFINE all == q \o w
  <2>6. Len(q) \in 1..Len(all) /\ 1 \in 1..Len(all) /\ \A i \in 1..Len(q) : all[i] = q[i]
    <3>1. /\ Len(w) \in Nat /\ Len(all) = Len(q) + Len(w)
          /\ \A i \in 1..Len(q) : all[i] = q[i]
      BY <1>1, Joined
    <3>2. QED
      BY <1>2, <2>1, <3>1
  <2>7. \A i \in 1..Len(q) : all[i].of = all[1].of
    BY <2>3, <2>5, <2>6
  <2> HIDE DEF all
  <2>8. Runs(all)
    BY <1>1 DEF all
  <2>9. Len(q) - 1 + 1 <= DrainLimit
    BY <1>2, <2>1, <2>6, <2>7, <2>8 DEF Runs
  <2>10. QED
    BY <1>2, <2>1, <2>9
<1>4. QED
  BY <1>3 DEF OverflowMeansExcess, WithinDrainLimit, DrainLimit, q

-----------------------------------------------------------------------------
(* Reading                                                                   *)

FedOk(fed, chunk) ==
  fed.decoder.complete /\ Unconsumed(chunk, fed.consumed) = <<>> /\ Accepted(fed.decoder.payload)

LEMMA ReceivedIs ==
  ASSUME EndpointTypeOK, Decodes, Receive
  PROVE  \E n \in 1..Len(wire) :
           LET fed == Feed(decoder, Chunk(n))
           IN /\ FedWell(decoder, fed, received, Chunk(n))
              /\ DecodedAs(fed.decoder, received \o Chunk(n))
              /\ \A m \in DOMAIN received' : FrameEnds(decoder.mode, received', m) =>
                   Unconsumed(Chunk(n), fed.consumed) = SubSeq(received', m + 1, Len(received'))
              /\ Chunk(n) \in Seq(Bytes) /\ received' = received \o Chunk(n)
              /\ received' \in Seq(Bytes) /\ Len(received') \in Nat /\ Len(received') >= 1
              /\ wire' \in Seq(Bytes) /\ received' \o wire' = received \o wire
              /\ pending' = pending /\ place = "reading" /\ decoder.mode = ModeOf(kind)
              /\ decoder' = fed.decoder /\ buffer' = Unconsumed(Chunk(n), fed.consumed)
              /\ \/ /\ FedOk(fed, Chunk(n))
                    /\ place' = "idle" /\ Answered(fed.decoder.payload)
                 \/ /\ ~FedOk(fed, Chunk(n)) /\ (fed.decoder.complete \/ fed.decoder.tooLarge)
                    /\ place' = "down" /\ UNCHANGED answered
                 \/ /\ ~fed.decoder.complete /\ ~fed.decoder.tooLarge
                    /\ UNCHANGED <<place, answered>>
<1>1. /\ wire \in Seq(Bytes) /\ DOMAIN wire = 1..Len(wire) /\ Len(wire) \in Nat
      /\ received \in Seq(Bytes) /\ Len(received) \in Nat /\ decoder \in Decoders
  BY Typed
<1>2. /\ place = "reading"
      /\ \E n \in DOMAIN wire :
           /\ Transfer(n)
           /\ received' = received \o Chunk(n)
           /\ LET fed == Feed(decoder, Chunk(n))
                  rest == Unconsumed(Chunk(n), fed.consumed)
                  ok == fed.decoder.complete /\ rest = <<>> /\ Accepted(fed.decoder.payload)
              IN /\ decoder' = fed.decoder
                 /\ buffer' = rest
                 /\ \/ /\ ok
                       /\ place' = "idle" /\ Answered(fed.decoder.payload)
                    \/ /\ ~ok /\ (fed.decoder.complete \/ fed.decoder.tooLarge)
                       /\ SessionFails /\ UNCHANGED answered
                    \/ /\ ~fed.decoder.complete /\ ~fed.decoder.tooLarge
                       /\ UNCHANGED <<place, answered>>
  BY DEF Receive
<1>3. PICK n \in 1..Len(wire) :
           /\ Transfer(n)
           /\ received' = received \o Chunk(n)
           /\ LET fed == Feed(decoder, Chunk(n))
                  rest == Unconsumed(Chunk(n), fed.consumed)
                  ok == fed.decoder.complete /\ rest = <<>> /\ Accepted(fed.decoder.payload)
              IN /\ decoder' = fed.decoder
                 /\ buffer' = rest
                 /\ \/ /\ ok
                       /\ place' = "idle" /\ Answered(fed.decoder.payload)
                    \/ /\ ~ok /\ (fed.decoder.complete \/ fed.decoder.tooLarge)
                       /\ SessionFails /\ UNCHANGED answered
                    \/ /\ ~fed.decoder.complete /\ ~fed.decoder.tooLarge
                       /\ UNCHANGED <<place, answered>>
  BY <1>1, <1>2
<1> DEFINE chunk == Chunk(n)
           fed == Feed(decoder, chunk)
<1>4. /\ chunk \in Seq(Bytes) /\ Len(chunk) = n
      /\ wire' \in Seq(Bytes) /\ chunk \o wire' = wire /\ pending' = pending
  BY <1>1, <1>3, Transferred
<1>5. decoder.mode = ModeOf(kind) /\ Decoding(decoder, received)
  BY <1>2 DEF Decodes
<1>6. received' = received \o chunk
  BY <1>3
<1>7. /\ decoder' = fed.decoder /\ buffer' = Unconsumed(chunk, fed.consumed)
      /\ \/ /\ FedOk(fed, chunk)
            /\ place' = "idle" /\ Answered(fed.decoder.payload)
         \/ /\ ~FedOk(fed, chunk) /\ (fed.decoder.complete \/ fed.decoder.tooLarge)
            /\ place' = "down" /\ UNCHANGED answered
         \/ /\ ~fed.decoder.complete /\ ~fed.decoder.tooLarge
            /\ UNCHANGED <<place, answered>>
  BY <1>3 DEF FedOk, SessionFails
<1> HIDE DEF chunk
<1>8. /\ FedWell(decoder, fed, received, chunk)
      /\ DecodedAs(fed.decoder, received \o chunk)
      /\ \A m \in DOMAIN (received \o chunk) : FrameEnds(decoder.mode, received \o chunk, m) =>
           Unconsumed(chunk, fed.consumed)
             = SubSeq(received \o chunk, m + 1, Len(received \o chunk))
  BY <1>1, <1>4, <1>5, FeedFeeds, FedReference
<1> HIDE DEF fed
<1>9. /\ received' \in Seq(Bytes) /\ Len(received') \in Nat /\ Len(received') >= 1
  <2>1. received \o chunk \in Seq(Bytes) /\ Len(received \o chunk) = Len(received) + Len(chunk)
    BY <1>1, <1>4, ConcatProperties
  <2>2. QED
    BY <1>1, <1>4, <1>6, <2>1
<1>10. received' \o wire' = received \o wire
  <2>1. \A p \in Seq(Bytes), q \in Seq(Bytes), r \in Seq(Bytes) : (p \o q) \o r = p \o (q \o r)
    BY Regrouped
  <2>2. (received \o chunk) \o wire' = received \o (chunk \o wire')
    BY <1>1, <1>4, <2>1
  <2>3. QED
    BY <1>4, <1>6, <2>2
<1>11. \A m \in DOMAIN received' : FrameEnds(decoder.mode, received', m) =>
         Unconsumed(chunk, fed.consumed) = SubSeq(received', m + 1, Len(received'))
  BY <1>6, <1>8
<1>12. n \in 1..Len(wire)
  OBVIOUS
<1>13. QED
  BY <1>2, <1>4, <1>5, <1>6, <1>7, <1>8, <1>9, <1>10, <1>11, <1>12 DEF fed, chunk

\* A frame with nothing behind it is all that was read.
LEMMA OkIsAll ==
  ASSUME NEW d \in Decoders, NEW fed, NEW bytes \in Seq(Bytes), NEW chunk \in Seq(Bytes),
         FedWell(d, fed, bytes, chunk), FedOk(fed, chunk)
  PROVE  LET all == bytes \o chunk
         IN /\ FrameEnds(d.mode, all, Len(all))
            /\ fed.decoder.payload = FramePayload(d.mode, all, Len(all))
<1> DEFINE all == bytes \o chunk
           end == Len(bytes) + fed.consumed
<1>1. fed.decoder.complete /\ Unconsumed(chunk, fed.consumed) = <<>>
  BY DEF FedOk
<1>2. /\ fed.consumed \in 0..Len(chunk) /\ Len(chunk) \in Nat /\ Len(bytes) \in Nat
      /\ Len(all) = Len(bytes) + Len(chunk)
  <2>1. fed.consumed \in 0..Len(chunk)
    BY DEF FedWell
  <2>2. QED
    BY <2>1, Joined
<1>3. FrameEnds(d.mode, all, end) /\ fed.decoder.payload = FramePayload(d.mode, all, end)
  BY <1>1 DEF FedWell, Decoding
<1>4. Len(chunk) - fed.consumed = 0
  <2>1. Len(SubSeq(chunk, fed.consumed + 1, Len(chunk))) = Len(chunk) - fed.consumed
    BY <1>2, Cut
  <2>2. SubSeq(chunk, fed.consumed + 1, Len(chunk)) = <<>>
    BY <1>1 DEF Unconsumed
  <2>3. QED
    BY <2>1, <2>2, EmptySeq
<1>5. end = Len(all)
  BY <1>2, <1>4
<1>6. QED
  BY <1>3, <1>5

-----------------------------------------------------------------------------
(* Types and places                                                          *)

\* The instrument takes a command.
LEMMA Taken ==
  ASSUME EndpointTypeOK, Placed, place = "writing", TakesCommand
  PROVE  \/ pending' = pending
         \/ \E values \in Outputs(kind) :
              LET taken == [number |-> number, kind |-> kind, bytes |-> Tagged(values, number)]
              IN /\ pending' = Append(pending, taken) /\ taken \in Pendings
                 /\ pending' \in Seq(Pendings) /\ Len(pending') = Len(pending) + 1
                 /\ \A i \in 1..Len(pending) : pending'[i] = pending[i]
                 /\ pending'[Len(pending) + 1] = taken
<1>1. ASSUME NEW values \in Outputs(kind),
             pending' = Append(pending, [number |-> number, kind |-> kind,
                                        bytes |-> Tagged(values, number)])
      PROVE  LET taken == [number |-> number, kind |-> kind, bytes |-> Tagged(values, number)]
             IN /\ pending' = Append(pending, taken) /\ taken \in Pendings
                /\ pending' \in Seq(Pendings) /\ Len(pending') = Len(pending) + 1
                /\ \A i \in 1..Len(pending) : pending'[i] = pending[i]
                /\ pending'[Len(pending) + 1] = taken
  <2> DEFINE taken == [number |-> number, kind |-> kind, bytes |-> Tagged(values, number)]
  <2>1. pending \in Seq(Pendings) /\ kind \in Kinds /\ number \in 0..MaxCommands /\ MaxCommands \in Nat
    BY Typed
  <2>2. number \in 1..MaxCommands /\ number \in Nat
    BY <2>1 DEF Placed
  <2>3. Tagged(values, number) \in Seq(Bytes)
    BY <1>1, <2>1, <2>2, OutputsTyped, TaggedBytes
  <2>4. taken \in Pendings
    BY <2>1, <2>2, <2>3 DEF Pendings
  <2>5. pending' = Append(pending, taken)
    BY <1>1
  <2> HIDE DEF taken
  <2>6. /\ Append(pending, taken) \in Seq(Pendings)
        /\ Len(Append(pending, taken)) = Len(pending) + 1
        /\ \A i \in 1..Len(pending) : Append(pending, taken)[i] = pending[i]
        /\ Append(pending, taken)[Len(pending) + 1] = taken
    BY <2>1, <2>4, AppendProperties
  <2>7. QED
    BY <2>4, <2>5, <2>6 DEF taken
<1>2. QED
  BY <1>1 DEF TakesCommand

\* What an action may do to the instrument.
LEMMA InstrumentTyped ==
  ASSUME EndpointTypeOK, Placed, PendingKnown, EndpointNext \/ UNCHANGED endpointVars
  PROVE  /\ pending' \in Seq(Pendings) /\ wire' \in Seq(Bytes)
         /\ ~Emit /\ ~Write /\ ~WriteFails => pending' = pending
<1>1. wire \in Seq(Bytes) /\ pending \in Seq(Pendings) /\ DOMAIN wire = 1..Len(wire)
  BY Typed
<1>2. CASE Emit
  BY <1>2, Emitted
<1>3. CASE ~Emit
  <2>1. wire' \in Seq(Bytes)
    BY <1>1, <1>3, OthersShorten, ShorterIs
  <2>2. CASE Write \/ WriteFails
    <3>1. pending' \in Seq(Pendings)
      BY <1>1, <2>2, Taken DEF Write, WriteFails
    <3>2. QED
      BY <2>1, <2>2, <3>1
  <2>3. CASE ~(Write \/ WriteFails)
    <3>1. \A n : Transfer(n) => pending' = pending
      BY DEF Transfer
    <3>2. TransferFails => pending' = pending
      BY <3>1 DEF TransferFails, instrument
    <3>3. pending' = pending
      BY <1>3, <2>3, <3>1, <3>2
      DEF EndpointNext, Reopen, DrainTransfer, DrainQuiet, DrainFails, BeginExchange, ProbeQuiet,
          ProbeFails, SilenceObserved, Receive, ReadFails, CommandsDone, endpointVars, instrument
    <3>4. QED
      BY <1>1, <2>1, <3>3
  <2>4. QED
    BY <2>2, <2>3
<1>4. QED
  BY <1>2, <1>3

\* The rest of what Receive leaves.
LEMMA ReceivedTyped ==
  ASSUME EndpointTypeOK, Decodes, Receive
  PROVE  /\ decoder' \in Decoders /\ decoder'.payload \in Seq(Bytes) /\ buffer' \in Seq(Bytes)
         /\ received' \in Seq(Bytes)
         /\ place' \in {"idle", "down", "reading"}
         /\ place' # "down" => buffer' = <<>>
         /\ place' = "idle" => Answered(decoder'.payload) /\ decoder'.complete
         /\ place' # "idle" => answered' = answered
         /\ UNCHANGED <<number, kind, idleProbe, drained, imposter>> /\ deferredEOF' \in BOOLEAN
<1>1. PICK n \in 1..Len(wire) :
           LET fed == Feed(decoder, Chunk(n))
           IN /\ FedWell(decoder, fed, received, Chunk(n))
              /\ Chunk(n) \in Seq(Bytes)
              /\ received' \in Seq(Bytes) /\ place = "reading"
              /\ decoder' = fed.decoder /\ buffer' = Unconsumed(Chunk(n), fed.consumed)
              /\ \/ /\ FedOk(fed, Chunk(n))
                    /\ place' = "idle" /\ Answered(fed.decoder.payload)
                 \/ /\ ~FedOk(fed, Chunk(n)) /\ (fed.decoder.complete \/ fed.decoder.tooLarge)
                    /\ place' = "down" /\ UNCHANGED answered
                 \/ /\ ~fed.decoder.complete /\ ~fed.decoder.tooLarge
                    /\ UNCHANGED <<place, answered>>
  BY ReceivedIs
<1> DEFINE chunk == Chunk(n)
           fed == Feed(decoder, chunk)
<1>2. FedWell(decoder, fed, received, chunk) /\ chunk \in Seq(Bytes)
  BY <1>1
<1>3. decoder' = fed.decoder /\ buffer' = Unconsumed(chunk, fed.consumed)
  BY <1>1
<1>4. \/ /\ FedOk(fed, chunk)
         /\ place' = "idle" /\ Answered(fed.decoder.payload)
      \/ /\ ~FedOk(fed, chunk) /\ (fed.decoder.complete \/ fed.decoder.tooLarge)
         /\ place' = "down" /\ UNCHANGED answered
      \/ /\ ~fed.decoder.complete /\ ~fed.decoder.tooLarge
         /\ UNCHANGED <<place, answered>>
  BY <1>1
<1> HIDE DEF chunk, fed
<1>5. fed.decoder \in Decoders /\ fed.consumed \in 0..Len(chunk)
  BY <1>2 DEF FedWell
<1>6. decoder' \in Decoders /\ decoder'.payload \in Seq(Bytes)
  BY <1>3, <1>5, DecoderParts
<1>7. buffer' \in Seq(Bytes)
  BY <1>2, <1>3, <1>5, Cut DEF Unconsumed
<1>8. ~fed.decoder.complete /\ ~fed.decoder.tooLarge => buffer' = <<>>
  <2>1. HAVE ~fed.decoder.complete /\ ~fed.decoder.tooLarge
  <2>2. fed.consumed = Len(chunk) /\ Len(chunk) \in Nat
    BY <1>2, <2>1, LenProperties DEF FedWell
  <2>3. Len(buffer') = Len(chunk) - fed.consumed
    BY <1>2, <1>3, <1>5, Cut DEF Unconsumed
  <2>4. Len(buffer') = 0
    BY <2>2, <2>3
  <2>5. QED
    BY <1>7, <2>4, EmptySeq
<1>9. FedOk(fed, chunk) => buffer' = <<>> /\ fed.decoder.complete
  BY <1>3 DEF FedOk
<1>10. place = "reading" /\ received' \in Seq(Bytes)
  BY <1>1
<1>11. UNCHANGED <<number, kind, idleProbe, drained, imposter>> /\ deferredEOF' \in BOOLEAN
  BY DEF Receive
<1>12. QED
  BY <1>3, <1>4, <1>6, <1>7, <1>8, <1>9, <1>10, <1>11

LEMMA TypePreserved ==
  ASSUME EndpointTypeOK, Placed, PendingKnown, Decodes, Counted,
         EndpointNext \/ UNCHANGED endpointVars
  PROVE  EndpointTypeOK' /\ Placed'
<1> DEFINE Rest ==
             /\ number' \in 0..MaxCommands /\ kind' \in Kinds /\ place' \in Places
             /\ buffer' \in Seq(Bytes) /\ deferredEOF' \in BOOLEAN /\ idleProbe' \in BOOLEAN
             /\ decoder' \in Decoders /\ received' \in Seq(Bytes) /\ imposter' \in BOOLEAN
             /\ drained' \in Seq(Bytes) /\ Len(drained') <= DrainLimit + TransferBytes
             /\ answered' \in [number : 0 .. MaxCommands, kind : Kinds, received : Seq(Bytes),
                               payload : Seq(Bytes)]
             /\ Placed'
<1>1. /\ number \in 0..MaxCommands /\ MaxCommands \in Nat /\ kind \in Kinds /\ place \in Places
      /\ buffer \in Seq(Bytes) /\ deferredEOF \in BOOLEAN /\ idleProbe \in BOOLEAN
      /\ decoder \in Decoders /\ received \in Seq(Bytes) /\ imposter \in BOOLEAN
      /\ drained \in Seq(Bytes) /\ Len(drained) <= DrainLimit + TransferBytes
      /\ answered \in [number : 0 .. MaxCommands, kind : Kinds, received : Seq(Bytes),
                       payload : Seq(Bytes)]
  BY EndpointAssumption DEF EndpointTypeOK
<1>2. <<>> \in Seq(Bytes) /\ Len(<<>>) = 0 /\ 0 <= DrainLimit + TransferBytes
  BY EmptySeq, PrefixFact, EndpointAssumption DEF DrainLimit
<1>3. ASSUME Emit PROVE Rest
  BY <1>1, <1>3 DEF Emit, session, Placed
<1>4. ASSUME Reopen PROVE Rest
  <2>1. NoAnswer \in [number : 0 .. MaxCommands, kind : Kinds, received : Seq(Bytes),
                      payload : Seq(Bytes)]
    BY <1>1, <1>2 DEF NoAnswer, Kinds
  <2>2. QED
    BY <1>1, <1>2, <1>4, <2>1 DEF Reopen, Placed, Places
<1>5. ASSUME DrainTransfer PROVE Rest
  <2>1. drained' \in Seq(Bytes) /\ Len(drained') <= DrainLimit + TransferBytes
    BY <1>5, DrainedOn
  <2>2. place = "draining" /\ place' \in {"draining", "down"}
    BY <1>5 DEF DrainTransfer
  <2>3. UNCHANGED <<number, kind, session, received, imposter, answered>>
    BY <1>5 DEF DrainTransfer
  <2>4. QED
    BY <1>1, <2>1, <2>2, <2>3 DEF session, Placed, Places
<1>6. ASSUME DrainQuiet PROVE Rest
  BY <1>1, <1>6 DEF DrainQuiet, OutlivesDrain, session, Placed, Places, Kinds
<1>7. ASSUME DrainFails \/ ProbeFails \/ ReadFails PROVE Rest
  BY <1>1, <1>7 DEF DrainFails, ProbeFails, ReadFails, SessionFails, session, Placed, Places
<1>8. ASSUME NEW k \in Kinds \ {"identity"}, BeginExchange(k) PROVE Rest
  <2>1. place' \in {"down", "probing", "writing"}
    <3>1. deferredEOF \in BOOLEAN /\ idleProbe \in BOOLEAN
      BY <1>1
    <3>2. QED
      BY <1>8, <3>1 DEF BeginExchange
  <2>2. /\ place = "idle" /\ number < MaxCommands
        /\ number' = number + 1 /\ kind' = k /\ received' = <<>>
        /\ UNCHANGED <<session, drained, imposter, answered>>
    BY <1>8 DEF BeginExchange
  <2>3. QED
    BY <1>1, <1>2, <2>1, <2>2 DEF session, Placed, Places
<1>9. ASSUME ProbeQuiet PROVE Rest
  BY <1>1, <1>9 DEF ProbeQuiet, Placed, Places
<1>10. ASSUME Write PROVE Rest
  <2>1. NewFrameDecoder(ModeOf(kind)) \in Decoders
    BY NewDecodes DEF ModeOf, FrameModes
  <2>2. QED
    BY <1>1, <1>10, <2>1 DEF Write, Placed, Places
<1>11. ASSUME WriteFails PROVE Rest
  BY <1>1, <1>11 DEF WriteFails, SessionFails, session, Placed, Places
<1>12. ASSUME SilenceObserved PROVE Rest
  BY <1>1, <1>2, <1>12
  DEF SilenceObserved, Answered, NeedsIdleProbe, Placed, Places
<1>13. ASSUME Receive PROVE Rest
  <2>1. /\ decoder' \in Decoders /\ decoder'.payload \in Seq(Bytes) /\ buffer' \in Seq(Bytes)
        /\ received' \in Seq(Bytes)
        /\ place' \in {"idle", "down", "reading"}
        /\ place' # "down" => buffer' = <<>>
        /\ UNCHANGED <<number, kind, idleProbe, drained, imposter>> /\ deferredEOF' \in BOOLEAN
    BY <1>13, ReceivedTyped
  <2>2. answered' \in [number : 0 .. MaxCommands, kind : Kinds, received : Seq(Bytes),
                       payload : Seq(Bytes)]
    <3>1. CASE place' = "idle"
      BY <1>1, <1>13, <2>1, <3>1, ReceivedTyped DEF Answered
    <3>2. CASE place' # "idle"
      BY <1>1, <1>13, <3>2, ReceivedTyped
    <3>3. QED
      BY <3>1, <3>2
  <2>3. place = "reading"
    BY <1>13 DEF Receive
  <2>4. Placed'
    BY <1>1, <2>1, <2>3 DEF Placed
  <2>5. QED
    BY <1>1, <2>1, <2>2, <2>4 DEF Places
<1>14. ASSUME CommandsDone \/ UNCHANGED endpointVars PROVE Rest
  BY <1>1, <1>14 DEF CommandsDone, endpointVars, session, Placed
<1>15. Rest
  <2> HIDE DEF Rest
  <2>1. QED
    BY <1>3, <1>4, <1>5, <1>6, <1>7, <1>8, <1>9, <1>10, <1>11, <1>12, <1>13, <1>14
       DEF EndpointNext
<1>16. pending' \in Seq(Pendings) /\ wire' \in Seq(Bytes)
  BY InstrumentTyped
<1>17. QED
  BY <1>15, <1>16 DEF EndpointTypeOK, Pendings

LEMMA PendingPreserved ==
  ASSUME EndpointTypeOK, Placed, PendingKnown, EndpointNext \/ UNCHANGED endpointVars
  PROVE  PendingKnown'
<1>1. pending \in Seq(Pendings) /\ Len(pending) \in Nat
  BY Typed
<1>2. CASE Emit
  <2>1. \A i \in 1..Len(pending') : i + 1 \in 1..Len(pending) /\ pending'[i] = pending[i + 1]
    BY <1>2, Emitted
  <2>2. QED
    BY <2>1 DEF PendingKnown
<1>3. CASE Write \/ WriteFails
  <2>1. \/ pending' = pending
        \/ \E values \in Outputs(kind) :
             LET taken == [number |-> number, kind |-> kind, bytes |-> Tagged(values, number)]
             IN /\ pending' \in Seq(Pendings) /\ Len(pending') = Len(pending) + 1
                /\ \A i \in 1..Len(pending) : pending'[i] = pending[i]
                /\ pending'[Len(pending) + 1] = taken
    BY <1>3, Taken DEF Write, WriteFails
  <2>2. ASSUME NEW values \in Outputs(kind),
               Len(pending') = Len(pending) + 1,
               \A i \in 1..Len(pending) : pending'[i] = pending[i],
               pending'[Len(pending) + 1] = [number |-> number, kind |-> kind,
                                             bytes |-> Tagged(values, number)]
        PROVE  PendingKnown'
    <3>1. SUFFICES ASSUME NEW i \in 1..Len(pending')
                   PROVE  \E v \in Outputs(pending'[i].kind) :
                            pending'[i].bytes = Tagged(v, pending'[i].number)
      BY DEF PendingKnown
    <3>2. CASE i \in 1..Len(pending)
      BY <2>2, <3>2 DEF PendingKnown
    <3>3. CASE i = Len(pending) + 1
      BY <2>2, <3>3
    <3>4. QED
      BY <1>1, <2>2, <3>2, <3>3
  <2>3. CASE pending' = pending
    BY <2>3 DEF PendingKnown
  <2>4. QED
    BY <2>1, <2>2, <2>3
<1>4. CASE ~Emit /\ ~Write /\ ~WriteFails
  <2>1. pending' = pending
    BY <1>4, InstrumentTyped
  <2>2. QED
    BY <2>1 DEF PendingKnown
<1>5. QED
  BY <1>2, <1>3, <1>4

-----------------------------------------------------------------------------
(* Whose bytes there are                                                     *)

LEMMA StreamTyped ==
  ASSUME EndpointTypeOK
  PROVE  /\ Stream \in Seq(Bytes) /\ Len(Stream) \in Nat
         /\ Stream = <<>> <=> received = <<>> /\ wire = <<>>
<1>1. received \in Seq(Bytes) /\ wire \in Seq(Bytes)
  BY Typed
<1>2. /\ Stream \in Seq(Bytes) /\ Len(received) \in Nat /\ Len(wire) \in Nat
      /\ Len(Stream) = Len(received) + Len(wire)
  BY <1>1, Joined DEF Stream
<1>3. /\ Stream = <<>> <=> Len(Stream) = 0
      /\ received = <<>> <=> Len(received) = 0
      /\ wire = <<>> <=> Len(wire) = 0
  BY <1>1, <1>2, EmptySeq
<1>4. Len(Stream) \in Nat
  BY <1>2
<1>5. \A a \in Nat, b \in Nat : a + b = 0 <=> a = 0 /\ b = 0
  OBVIOUS
<1>6. QED
  BY <1>2, <1>3, <1>4, <1>5

LEMMA StreamGrows ==
  ASSUME EndpointTypeOK, PendingKnown, Emit
  PROVE  \E values \in Outputs(pending[1].kind) :
           LET sent == Tagged(values, pending[1].number)
           IN /\ Stream' = Stream \o sent /\ sent \in Seq(Bytes)
              /\ pending # <<>> /\ Head(pending) = pending[1] /\ 1 \in 1..Len(pending)
              /\ Len(pending') = Len(pending) - 1 /\ pending' \in Seq(Pendings)
              /\ pending[1].bytes = sent
<1>1. PICK values \in Outputs(pending[1].kind) :
           LET sent == Tagged(values, pending[1].number)
           IN /\ pending # <<>> /\ 1 \in 1..Len(pending) /\ Head(pending) = pending[1]
              /\ sent \in Seq(Bytes) /\ wire' = wire \o sent
              /\ Len(pending') = Len(pending) - 1 /\ pending' \in Seq(Pendings)
              /\ pending[1].bytes = sent
  BY Emitted
<1> DEFINE sent == Tagged(values, pending[1].number)
<1>2. sent \in Seq(Bytes) /\ wire' = wire \o sent /\ received' = received
  BY <1>1 DEF Emit
<1> HIDE DEF sent
<1>3. received \in Seq(Bytes) /\ wire \in Seq(Bytes)
  BY Typed
<1>4. \A p \in Seq(Bytes), q \in Seq(Bytes), r \in Seq(Bytes) : (p \o q) \o r = p \o (q \o r)
  BY Regrouped
<1>5. (received \o wire) \o sent = received \o (wire \o sent)
  BY <1>2, <1>3, <1>4
<1>6. Stream' = Stream \o sent
  BY <1>2, <1>5 DEF Stream
<1>7. QED
  BY <1>1, <1>6 DEF sent

LEMMA StaleByEmit ==
  ASSUME EndpointTypeOK, PendingKnown, Stale, Emit
  PROVE  Stale'
<1>1. PICK values \in Outputs(pending[1].kind) :
           LET sent == Tagged(values, pending[1].number)
           IN /\ Stream' = Stream \o sent /\ sent \in Seq(Bytes)
              /\ pending # <<>> /\ Head(pending) = pending[1] /\ 1 \in 1..Len(pending)
              /\ pending[1].bytes = sent
  BY StreamGrows
<1> DEFINE sent == Tagged(values, pending[1].number)
<1>2. Stream' = Stream \o sent /\ sent \in Seq(Bytes)
  BY <1>1
<1>3. Stream \in Seq(Bytes)
  BY StreamTyped
<1>4. pending[1].kind \in Kinds /\ pending[1].number \in 1..MaxCommands /\ MaxCommands \in Nat
  BY <1>1, Typed
<1>5. CASE Stream = <<>> /\ pending # <<>> /\ ~ReadsAsIdentity(Values(Head(pending).bytes))
  <2>1. Stream' = sent
    BY <1>2, <1>5, ConcatEmptySeq
  <2>2. IsPrefix(sent, sent)
    <3> HIDE DEF sent
    <3>1. Len(sent) \in Nat
      BY <1>2, LenProperties
    <3>2. QED
      BY <1>2, <3>1, PrefixIs
  <2>3. values \in Seq(0 .. Base - 1) /\ pending[1].number \in Nat
    BY <1>4, OutputsTyped
  <2>4. Values(sent) = values
    BY <2>3, ValuesOfTagged
  <2>5. ~ReadsAsIdentity(values)
    <3>1. Head(pending).bytes = sent
      BY <1>1
    <3>2. ~ReadsAsIdentity(Values(sent))
      BY <1>5, <3>1
    <3>3. QED
      BY <2>4, <3>2
  <2>6. IsPrefix(Tagged(values, pending[1].number), Stream')
    BY <2>1, <2>2
  <2>7. \E m \in 1..MaxCommands, v \in Seq(0 .. Base - 1) :
          ~ReadsAsIdentity(v) /\ IsPrefix(Tagged(v, m), Stream')
    BY <1>4, <2>3, <2>5, <2>6
  <2>8. QED
    BY <2>7 DEF Stale
<1>6. CASE \E m \in 1..MaxCommands, v \in Seq(0 .. Base - 1) :
             ~ReadsAsIdentity(v) /\ IsPrefix(Tagged(v, m), Stream)
  <2>1. PICK m \in 1..MaxCommands, v \in Seq(0 .. Base - 1) :
             ~ReadsAsIdentity(v) /\ IsPrefix(Tagged(v, m), Stream)
    BY <1>6
  <2> DEFINE old == Tagged(v, m)
  <2>2. old \in Seq(Bytes)
    <3>1. m \in Nat
      BY <1>4
    <3>2. QED
      BY <2>1, <3>1, TaggedBytes
  <2>3. IsPrefix(old, Stream \o sent)
    <3>1. IsPrefix(old, Stream)
      BY <2>1
    <3> HIDE DEF old, sent
    <3>2. QED
      BY <1>2, <1>3, <2>2, <3>1, PrefixExtends
  <2>4. IsPrefix(Tagged(v, m), Stream')
    BY <1>2, <2>3
  <2>5. \E m2 \in 1..MaxCommands, v2 \in Seq(0 .. Base - 1) :
          ~ReadsAsIdentity(v2) /\ IsPrefix(Tagged(v2, m2), Stream')
    BY <2>1, <2>4
  <2>6. QED
    BY <2>5 DEF Stale
<1>7. QED
  BY <1>5, <1>6 DEF Stale

LEMMA OwnByEmit ==
  ASSUME EndpointTypeOK, PendingKnown, Own, Emit, kind # "none"
  PROVE  Own'
<1>1. PICK values \in Outputs(pending[1].kind) :
           LET sent == Tagged(values, pending[1].number)
           IN /\ Stream' = Stream \o sent /\ sent \in Seq(Bytes)
              /\ pending # <<>> /\ Head(pending) = pending[1] /\ 1 \in 1..Len(pending)
              /\ Len(pending') = Len(pending) - 1 /\ pending' \in Seq(Pendings)
  BY StreamGrows
<1>2. /\ Stream = <<>> /\ Len(pending) = 1
      /\ Head(pending).number = number /\ Head(pending).kind = kind
  BY <1>1 DEF Own, Silent
<1>3. pending' = <<>>
  <2>1. Len(pending') = 0 /\ pending' \in Seq(Pendings)
    BY <1>1, <1>2
  <2>2. QED
    BY <2>1, EmptySeq
<1>4. values \in Answers[kind] /\ kind' = kind /\ number' = number
  BY <1>1, <1>2 DEF Outputs, Emit
<1>5. Stream' = Tagged(values, number)
  <2> DEFINE sent == Tagged(values, pending[1].number)
  <2>1. Stream' = Stream \o sent /\ sent \in Seq(Bytes)
    BY <1>1
  <2>2. Stream' = sent
    BY <1>2, <2>1, ConcatEmptySeq
  <2>3. pending[1].number = number
    BY <1>1, <1>2
  <2>4. QED
    BY <2>2, <2>3
<1>6. QED
  BY <1>3, <1>4, <1>5 DEF Own

\* A read that goes on leaves the stream as it is.
LEMMA StreamRead ==
  ASSUME EndpointTypeOK, Decodes, Receive
  PROVE  /\ Stream' = Stream /\ Stream # <<>> /\ pending' = pending
         /\ number' = number /\ kind' = kind /\ place = "reading"
<1>1. /\ received' \o wire' = received \o wire /\ pending' = pending /\ place = "reading"
      /\ received' \in Seq(Bytes) /\ wire' \in Seq(Bytes) /\ Len(received') >= 1
  BY ReceivedIs
<1>2. Stream' = Stream
  BY <1>1 DEF Stream
<1>3. Len(received' \o wire') >= 1
  <2> DEFINE p == received'
             q == wire'
  <2>1. p \in Seq(Bytes) /\ q \in Seq(Bytes) /\ Len(p) >= 1
    BY <1>1
  <2> HIDE DEF p, q
  <2>2. Len(p \o q) = Len(p) + Len(q) /\ Len(p) \in Nat /\ Len(q) \in Nat
    BY <2>1, Joined
  <2>3. Len(p \o q) >= 1
    BY <2>1, <2>2
  <2>4. QED
    BY <2>3 DEF p, q
<1>4. Len(Stream) >= 1
  BY <1>1, <1>3 DEF Stream
<1>5. Stream # <<>>
  BY <1>4, EmptySeq
<1>6. number' = number /\ kind' = kind
  BY DEF Receive
<1>7. QED
  BY <1>1, <1>2, <1>5, <1>6

\* An exchange that succeeds has read the answer of its command, and all of it.
LEMMA OkIsOwn ==
  ASSUME EndpointTypeOK, Placed, StreamKnown, Decodes, Receive, place' = "idle", ~imposter
  PROVE  /\ pending' = <<>> /\ wire' = <<>> /\ kind # "none"
         /\ \E values \in Answers[kind] : received' = Tagged(values, number)
         /\ answered' = [number |-> number, kind |-> kind, received |-> received',
                         payload |-> decoder'.payload]
<1>1. PICK n \in 1..Len(wire) :
           LET fed == Feed(decoder, Chunk(n))
           IN /\ FedWell(decoder, fed, received, Chunk(n))
              /\ Chunk(n) \in Seq(Bytes) /\ received' = received \o Chunk(n)
              /\ received' \in Seq(Bytes) /\ Len(received') \in Nat /\ Len(received') >= 1
              /\ wire' \in Seq(Bytes) /\ received' \o wire' = received \o wire
              /\ pending' = pending /\ place = "reading" /\ decoder.mode = ModeOf(kind)
              /\ decoder' = fed.decoder /\ buffer' = Unconsumed(Chunk(n), fed.consumed)
              /\ \/ /\ FedOk(fed, Chunk(n))
                    /\ place' = "idle" /\ Answered(fed.decoder.payload)
                 \/ /\ ~FedOk(fed, Chunk(n)) /\ (fed.decoder.complete \/ fed.decoder.tooLarge)
                    /\ place' = "down" /\ UNCHANGED answered
                 \/ /\ ~fed.decoder.complete /\ ~fed.decoder.tooLarge
                    /\ UNCHANGED <<place, answered>>
  BY ReceivedIs
<1> DEFINE chunk == Chunk(n)
           fed == Feed(decoder, chunk)
<1>2. /\ FedWell(decoder, fed, received, chunk) /\ chunk \in Seq(Bytes)
      /\ received' = received \o chunk /\ decoder' = fed.decoder
  BY <1>1
<1>3. FedOk(fed, chunk) /\ Answered(fed.decoder.payload)
  BY <1>1
<1> HIDE DEF chunk, fed
<1>4. decoder \in Decoders /\ received \in Seq(Bytes) /\ number \in 0..MaxCommands /\ MaxCommands \in Nat
      /\ kind \in Kinds
  BY Typed
<1>5. /\ FrameEnds(decoder.mode, received \o chunk, Len(received \o chunk))
      /\ fed.decoder.payload = FramePayload(decoder.mode, received \o chunk, Len(received \o chunk))
  BY <1>2, <1>3, <1>4, OkIsAll
<1>6. /\ FrameEnds(ModeOf(kind), received', Len(received'))
      /\ fed.decoder.payload = FramePayload(ModeOf(kind), received', Len(received'))
  BY <1>1, <1>2, <1>5
<1>7. kind # "none" /\ kind \in Kinds \ {"none"} /\ number \in 1..MaxCommands
  BY <1>1, <1>4 DEF Placed
<1>8. Own \/ (kind = "identity" /\ Stale)
  BY <1>1 DEF StreamKnown
<1>9. Stream # <<>> /\ received' \o wire' = Stream
  BY <1>1, StreamRead DEF Stream
<1>10. ~(kind = "identity" /\ Stale)
  <2>1. SUFFICES ASSUME kind = "identity", Stale PROVE FALSE
    OBVIOUS
  <2>2. PICK m \in 1..MaxCommands, v \in Seq(0 .. Base - 1) :
             ~ReadsAsIdentity(v) /\ IsPrefix(Tagged(v, m), Stream)
    BY <1>9, <2>1 DEF Stale
  <2>3. ~ReadsAsIdentity(v) /\ IsPrefix(Tagged(v, m), Stream)
    BY <2>2
  <2> DEFINE p == received'
             q == wire'
  <2>4. /\ p \in Seq(Bytes) /\ q \in Seq(Bytes) /\ Len(p) >= 1
        /\ IsPrefix(Tagged(v, m), p \o q) /\ FrameEnds("ascii", p, Len(p))
    BY <1>1, <1>6, <1>9, <2>1, <2>3 DEF ModeOf
  <2>5. Values(fed.decoder.payload) = IdentityValues
    BY <1>3, <2>1 DEF FedOk, Accepted
  <2>6. fed.decoder.payload = FramePayload("ascii", p, Len(p))
    BY <1>6, <2>1 DEF ModeOf
  <2> HIDE DEF p, q
  <2>7. Values(FramePayload("ascii", p, Len(p))) # IdentityValues
    BY <2>3, <2>4, StaleIsNotIdentity
  <2>8. QED
    BY <2>5, <2>6, <2>7
<1>11. pending = <<>> /\ \E values \in Answers[kind] : Stream = Tagged(values, number)
  BY <1>8, <1>9, <1>10 DEF Own, Silent
<1>12. PICK values \in Answers[kind] : Stream = Tagged(values, number)
  BY <1>11
<1>13. received' = Tagged(values, number) /\ wire' = <<>>
  <2> DEFINE p == received'
             q == wire'
  <2>1. /\ p \in Seq(Bytes) /\ q \in Seq(Bytes) /\ Len(p) >= 1
        /\ p \o q = Tagged(values, number) /\ FrameEnds(ModeOf(kind), p, Len(p))
    BY <1>1, <1>6, <1>9, <1>12
  <2> HIDE DEF p, q
  <2>2. p = Tagged(values, number) /\ q = <<>>
    BY <1>7, <2>1, AnswerIsWhole
  <2>3. QED
    BY <2>2 DEF p, q
<1>14. answered' = [number |-> number, kind |-> kind, received |-> received',
                    payload |-> decoder'.payload]
  BY <1>2, <1>3 DEF Answered
<1>15. QED
  BY <1>1, <1>7, <1>11, <1>13, <1>14

LEMMA StreamPreserved ==
  ASSUME EndpointTypeOK, Placed, PendingKnown, StreamKnown, Decodes,
         EndpointNext \/ UNCHANGED endpointVars
  PROVE  StreamKnown'
<1> SUFFICES ASSUME ~imposter' PROVE StreamKnown'
  BY DEF StreamKnown
<1>0. DrainQuiet \/ ~imposter
  BY DEF EndpointNext, Emit, Reopen, DrainTransfer, DrainFails, BeginExchange, ProbeQuiet, ProbeFails,
         Write, WriteFails, SilenceObserved, Receive, ReadFails, CommandsDone, endpointVars
<1>01. place # "draining" => ~imposter
  BY <1>0 DEF DrainQuiet
<1>1. CASE Emit
  <2>1. UNCHANGED <<place, kind, idleProbe>> /\ pending # <<>> /\ ~imposter
    BY <1>1 DEF Emit, session
  <2>2. place = "writing" => kind = "identity" /\ Stale
    BY <2>1 DEF StreamKnown, Silent
  <2>3. place = "writing" => Stale'
    BY <1>1, <2>2, StaleByEmit
  <2>4. place = "reading" => Own' \/ (kind = "identity" /\ Stale')
    <3>1. HAVE place = "reading"
    <3>2. (Own \/ (kind = "identity" /\ Stale)) /\ kind # "none"
      BY <2>1, <3>1 DEF StreamKnown, Placed
    <3>3. QED
      BY <1>1, <3>2, StaleByEmit, OwnByEmit
  <2>5. ~(place = "idle" /\ ~idleProbe)
    BY <2>1 DEF StreamKnown
  <2>6. QED
    BY <2>1, <2>2, <2>3, <2>4, <2>5 DEF StreamKnown
<1>2. CASE Reopen \/ DrainTransfer \/ DrainFails \/ ProbeFails \/ WriteFails \/ ReadFails
  <2>1. place' \in {"down", "draining"}
    BY <1>2 DEF Reopen, DrainTransfer, DrainFails, ProbeFails, WriteFails, ReadFails, SessionFails
  <2>2. QED
    BY <2>1 DEF StreamKnown
<1>3. CASE DrainQuiet
  <2>1. /\ place = "draining" /\ place' = "writing" /\ kind' = "identity"
        /\ wire' = wire /\ pending' = pending /\ received' = received
        /\ wire = <<>> /\ ~OutlivesDrain
    BY <1>3 DEF DrainQuiet, QuietAfterDrain, instrument
  <2>2. received = <<>>
    BY <2>1 DEF Placed
  <2>3. Stream = <<>>
    BY <2>1, <2>2, StreamTyped
  <2>4. Stream' = <<>>
    BY <2>1, <2>3 DEF Stream
  <2>5. pending # <<>> => ~ReadsAsIdentity(Values(Head(pending).bytes))
    BY <2>1 DEF OutlivesDrain
  <2>6. Silent' \/ Stale'
    BY <2>1, <2>4, <2>5 DEF Silent, Stale
  <2>7. QED
    BY <2>1, <2>6 DEF StreamKnown
<1>4. ASSUME NEW k \in Kinds \ {"identity"}, BeginExchange(k) PROVE StreamKnown'
  <2>1. /\ place = "idle" /\ received' = <<>> /\ wire' = wire /\ pending' = pending
        /\ idleProbe' = idleProbe
    BY <1>4 DEF BeginExchange, instrument, session
  <2>2. /\ place' \in {"down", "probing", "writing"}
        /\ place' = "writing" => ~idleProbe
    <3>1. deferredEOF \in BOOLEAN /\ idleProbe \in BOOLEAN
      BY DEF EndpointTypeOK
    <3>2. QED
      BY <1>4, <3>1 DEF BeginExchange
  <2>3. place' = "writing" => wire = <<>> /\ pending = <<>>
    BY <1>01, <2>1, <2>2 DEF StreamKnown
  <2>4. <<>> \o <<>> = <<>>
    BY ConcatEmptySeq, EmptySeq
  <2>5. place' = "writing" => Silent'
    BY <2>1, <2>3, <2>4 DEF Silent, Stream
  <2>6. QED
    BY <2>2, <2>5 DEF StreamKnown
<1>5. CASE ProbeQuiet
  <2>1. /\ place = "probing" /\ place' = "writing" /\ wire = <<>> /\ pending = <<>>
        /\ wire' = wire /\ pending' = pending /\ received' = received
    BY <1>5 DEF ProbeQuiet, QuietBeforeCommand, instrument
  <2>2. received = <<>>
    BY <2>1 DEF Placed
  <2>3. Stream = <<>>
    BY <2>1, <2>2, StreamTyped
  <2>4. Silent'
    BY <2>1, <2>3 DEF Silent, Stream
  <2>5. QED
    BY <2>1, <2>4 DEF StreamKnown
<1>6. CASE Write
  <2>1. /\ place = "writing" /\ place' \in {"silence", "reading"}
        /\ UNCHANGED <<wire, number, kind, received>> /\ TakesCommand
    BY <1>6 DEF Write
  <2>2. Stream' = Stream
    BY <2>1 DEF Stream
  <2>3. pending \in Seq(Pendings) /\ Len(pending) \in Nat
    BY Typed
  <2>4. \/ pending' = pending
        \/ \E values \in Outputs(kind) :
             LET taken == [number |-> number, kind |-> kind, bytes |-> Tagged(values, number)]
             IN /\ pending' \in Seq(Pendings) /\ Len(pending') = Len(pending) + 1
                /\ \A i \in 1..Len(pending) : pending'[i] = pending[i]
                /\ pending'[Len(pending) + 1] = taken
    BY <2>1, Taken
  <2>8. Silent \/ (kind = "identity" /\ Stale)
    BY <1>01, <2>1 DEF StreamKnown
  <2>5. CASE Silent
    <3>1. Stream = <<>> /\ pending = <<>> /\ Len(pending) = 0
      BY <2>5, EmptySeq DEF Silent
    <3>2. CASE pending' = pending
      BY <2>1, <2>2, <3>1, <3>2 DEF Own, Silent, StreamKnown
    <3>3. CASE pending' # pending
      <4>1. /\ pending' \in Seq(Pendings) /\ Len(pending') = 1
            /\ pending'[1].number = number /\ pending'[1].kind = kind
        <5>1. PICK values \in Outputs(kind) :
                /\ pending' \in Seq(Pendings) /\ Len(pending') = Len(pending) + 1
                /\ pending'[Len(pending) + 1] = [number |-> number, kind |-> kind,
                                                bytes |-> Tagged(values, number)]
          BY <2>4, <3>3
        <5>2. Len(pending) + 1 = 1
          BY <3>1
        <5>3. pending'[1] = [number |-> number, kind |-> kind, bytes |-> Tagged(values, number)]
          BY <5>1, <5>2
        <5>4. QED
          BY <5>1, <5>2, <5>3
      <4>2. Head(pending') = pending'[1]
        BY <4>1, EmptySeq
      <4>3. Own'
        BY <2>1, <2>2, <3>1, <4>1, <4>2 DEF Own
      <4>4. QED
        BY <2>1, <4>3 DEF StreamKnown
    <3>4. QED
      BY <3>2, <3>3
  <2>6. CASE kind = "identity" /\ Stale
    <3>1. pending # <<>> => pending' # <<>> /\ Head(pending') = Head(pending)
      <4>1. HAVE pending # <<>>
      <4>2. Len(pending) \in Nat \ {0} /\ Head(pending) = pending[1]
        BY <2>3, <4>1, EmptySeq
      <4>3. CASE pending' = pending
        BY <4>1, <4>3
      <4>4. CASE pending' # pending
        <5>1. /\ pending' \in Seq(Pendings) /\ Len(pending') = Len(pending) + 1
              /\ \A i \in 1..Len(pending) : pending'[i] = pending[i]
          BY <2>4, <4>4
        <5>2. Len(pending') # 0 /\ 1 \in 1..Len(pending)
          BY <4>2, <5>1
        <5>3. pending' # <<>> /\ Head(pending') = pending'[1]
          BY <5>1, <5>2, EmptySeq
        <5>4. QED
          BY <4>2, <5>1, <5>2, <5>3
      <4>5. QED
        BY <4>3, <4>4
    <3>2. Stale'
      BY <2>2, <2>6, <3>1 DEF Stale
    <3>3. QED
      BY <2>1, <2>6, <3>2 DEF StreamKnown
  <2>7. QED
    BY <2>5, <2>6, <2>8
<1>7. CASE SilenceObserved
  <2>1. place' = "idle" /\ idleProbe' = TRUE
    BY <1>7 DEF SilenceObserved, NeedsIdleProbe
  <2>2. QED
    BY <2>1 DEF StreamKnown
<1>8. CASE Receive
  <2>1. /\ Stream' = Stream /\ Stream # <<>> /\ pending' = pending
        /\ number' = number /\ kind' = kind /\ place = "reading"
    BY <1>8, StreamRead
  <2>2. place' \in {"idle", "down", "reading"}
    BY <1>8, ReceivedTyped
  <2>3. CASE place' = "idle"
    <3>1. pending' = <<>> /\ wire' = <<>>
      BY <1>8, <1>01, <2>1, <2>3, OkIsOwn
    <3>2. QED
      BY <2>3, <3>1 DEF StreamKnown
  <2>4. CASE place' = "reading"
    <3>1. Own \/ (kind = "identity" /\ Stale)
      BY <1>01, <2>1 DEF StreamKnown
    <3>2. Own => Own'
      BY <2>1 DEF Own, Silent
    <3>3. Stale => Stale'
      BY <2>1 DEF Stale
    <3>4. QED
      BY <2>1, <2>4, <3>1, <3>2, <3>3 DEF StreamKnown
  <2>5. CASE place' = "down"
    BY <2>5 DEF StreamKnown
  <2>6. QED
    BY <2>2, <2>3, <2>4, <2>5
<1>9. CASE CommandsDone \/ UNCHANGED endpointVars
  BY <1>9 DEF CommandsDone, endpointVars, instrument, session, StreamKnown, Own, Stale, Silent, Stream
<1>10. QED
  BY <1>1, <1>2, <1>3, <1>4, <1>5, <1>6, <1>7, <1>8, <1>9 DEF EndpointNext

-----------------------------------------------------------------------------
(* The properties                                                            *)

LEMMA DecodesPreserved ==
  ASSUME EndpointTypeOK, Placed, Decodes, EndpointNext \/ UNCHANGED endpointVars
  PROVE  Decodes'
<1>1. CASE Write
  <2>1. /\ decoder' = NewFrameDecoder(ModeOf(kind)) /\ received' = received /\ kind' = kind
        /\ received = <<>>
    BY <1>1 DEF Write, Placed
  <2>2. ModeOf(kind) \in FrameModes
    BY DEF ModeOf, FrameModes
  <2>3. NewFrameDecoder(ModeOf(kind)).mode = ModeOf(kind) /\ Decoding(NewFrameDecoder(ModeOf(kind)), <<>>)
    BY <2>2, NewDecodes
  <2>4. QED
    BY <2>1, <2>3 DEF Decodes
<1>2. CASE Receive
  <2>1. SUFFICES ASSUME place' = "reading"
                 PROVE  decoder'.mode = ModeOf(kind') /\ Decoding(decoder', received')
    BY DEF Decodes
  <2>2. PICK n \in 1..Len(wire) :
           LET fed == Feed(decoder, Chunk(n))
           IN /\ FedWell(decoder, fed, received, Chunk(n))
              /\ received' = received \o Chunk(n)
              /\ decoder.mode = ModeOf(kind) /\ decoder' = fed.decoder
              /\ ~fed.decoder.complete /\ ~fed.decoder.tooLarge
    BY <1>2, <2>1, ReceivedIs
  <2>3. /\ FedWell(decoder, Feed(decoder, Chunk(n)), received, Chunk(n))
        /\ ~Feed(decoder, Chunk(n)).decoder.complete /\ ~Feed(decoder, Chunk(n)).decoder.tooLarge
    BY <2>2
  <2>4. Feed(decoder, Chunk(n)).decoder.mode = decoder.mode
        /\ Decoding(Feed(decoder, Chunk(n)).decoder, received \o Chunk(n))
    BY <2>3 DEF FedWell
  <2>5. kind' = kind
    BY <1>2 DEF Receive
  <2>6. QED
    BY <2>2, <2>4, <2>5
<1>3. CASE Emit \/ CommandsDone \/ UNCHANGED endpointVars
  BY <1>3 DEF Emit, CommandsDone, endpointVars, session, Decodes
<1>4. CASE Reopen \/ DrainTransfer \/ DrainQuiet \/ DrainFails \/ ProbeQuiet \/ ProbeFails
           \/ WriteFails \/ SilenceObserved \/ ReadFails
  <2>1. place' # "reading"
    BY <1>4 DEF Reopen, DrainTransfer, DrainQuiet, DrainFails, ProbeQuiet, ProbeFails, WriteFails,
                SilenceObserved, ReadFails, SessionFails
  <2>2. QED
    BY <2>1 DEF Decodes
<1>5. ASSUME NEW k \in Kinds \ {"identity"}, BeginExchange(k) PROVE Decodes'
  <2>1. deferredEOF \in BOOLEAN /\ idleProbe \in BOOLEAN
    BY DEF EndpointTypeOK
  <2>2. place' # "reading"
    BY <1>5, <2>1 DEF BeginExchange
  <2>3. QED
    BY <2>2 DEF Decodes
<1>6. QED
  BY <1>1, <1>2, <1>3, <1>4, <1>5 DEF EndpointNext

LEMMA AnswersPreserved ==
  ASSUME EndpointTypeOK, Placed, StreamKnown, Decodes, AnswersBelong,
         EndpointNext \/ UNCHANGED endpointVars
  PROVE  AnswersBelong'
<1> SUFFICES ASSUME ~imposter' PROVE AnswersBelong'
  BY DEF AnswersBelong
<1>1. CASE Receive /\ place' = "idle"
  <2>1. /\ kind # "none"
        /\ \E values \in Answers[kind] : received' = Tagged(values, number)
        /\ answered' = [number |-> number, kind |-> kind, received |-> received',
                        payload |-> decoder'.payload]
    <3>1. ~imposter
      BY <1>1 DEF Receive
    <3>2. QED
      BY <1>1, <3>1, OkIsOwn
  <2>2. PICK values \in Answers[kind] : received' = Tagged(values, number)
    BY <2>1
  <2>3. kind \in Kinds /\ number \in Nat /\ values \in Outputs(kind)
    <3>1. kind \in Kinds /\ number \in 0..MaxCommands /\ MaxCommands \in Nat
      BY Typed
    <3>2. QED
      BY <2>1, <2>2, <3>1 DEF Outputs
  <2>4. values \in Seq(0 .. Base - 1)
    BY <2>3, OutputsTyped
  <2> DEFINE bytes == Tagged(values, number)
  <2>5. /\ bytes \in Seq(Bytes) /\ Len(bytes) = Len(values)
        /\ \A i \in 1..Len(values) : bytes[i].of = number
    BY <2>3, <2>4, TaggedBytes
  <2>6. Values(bytes) = values
    BY <2>3, <2>4, ValuesOfTagged
  <2> HIDE DEF bytes
  <2>7. DOMAIN bytes = 1..Len(values)
    BY <2>5, LenProperties
  <2>8. /\ answered'.received = bytes /\ answered'.number = number /\ answered'.kind = kind
    BY <2>1, <2>2 DEF bytes
  <2>9. QED
    BY <2>1, <2>2, <2>5, <2>6, <2>7, <2>8 DEF AnswersBelong
<1>2. CASE SilenceObserved
  <2>1. kind = "none" /\ received = <<>>
    BY <1>2 DEF SilenceObserved, Placed
  <2>2. answered'.number = number /\ answered'.kind = "none" /\ answered'.received = <<>>
    BY <1>2, <2>1 DEF SilenceObserved, Answered
  <2>3. DOMAIN <<>> = {}
    BY EmptySeq
  <2>4. QED
    BY <2>2, <2>3 DEF AnswersBelong
<1>3. CASE Reopen \/ DrainQuiet
  <2>1. place = "draining" => answered = NoAnswer
    BY DEF Placed
  <2>2. answered' = NoAnswer
    BY <1>3, <2>1 DEF Reopen, DrainQuiet
  <2>3. QED
    BY <2>2 DEF AnswersBelong
<1>4. CASE ~(Receive /\ place' = "idle") /\ ~SilenceObserved /\ ~Reopen /\ ~DrainQuiet
  <2>1. Receive => answered' = answered
    BY <1>4, ReceivedTyped
  <2>2. answered' = answered /\ imposter' = imposter
    BY <1>4, <2>1
    DEF EndpointNext, Emit, DrainTransfer, DrainFails, Receive, BeginExchange, ProbeQuiet,
        ProbeFails, Write, WriteFails, ReadFails, CommandsDone, endpointVars
  <2>3. QED
    BY <2>2 DEF AnswersBelong
<1>5. QED
  BY <1>1, <1>2, <1>3, <1>4

LEMMA ReferencePreserved ==
  ASSUME EndpointTypeOK, EndpointTypeOK', Placed, Decodes, Decodes', DecodesReference,
         EndpointNext \/ UNCHANGED endpointVars
  PROVE  DecodesReference'
<1>1. CASE Write
  <2>1. place' \in {"silence", "reading"}
    BY <1>1 DEF Write
  <2>2. place' = "reading" => DecodedAs(decoder', received')
    <3> DEFINE d == decoder'
               q == received'
    <3>1. HAVE place' = "reading"
    <3>2. d \in Decoders /\ q \in Seq(Bytes)
      BY DEF EndpointTypeOK
    <3>3. Decoding(d, q)
      BY <3>1 DEF Decodes
    <3> HIDE DEF d, q
    <3>4. DecodedAs(d, q)
      BY <3>2, <3>3, DecodingReference
    <3>5. QED
      BY <3>4 DEF d, q
  <2>3. QED
    BY <2>1, <2>2 DEF DecodesReference
<1>2. CASE Receive
  <2>1. PICK n \in 1..Len(wire) :
           LET fed == Feed(decoder, Chunk(n))
           IN /\ FedWell(decoder, fed, received, Chunk(n))
              /\ DecodedAs(fed.decoder, received \o Chunk(n))
              /\ \A m \in DOMAIN received' : FrameEnds(decoder.mode, received', m) =>
                   Unconsumed(Chunk(n), fed.consumed) = SubSeq(received', m + 1, Len(received'))
              /\ received' = received \o Chunk(n)
              /\ decoder' = fed.decoder /\ buffer' = Unconsumed(Chunk(n), fed.consumed)
    BY <1>2, ReceivedIs
  <2>2. DecodedAs(decoder', received')
    BY <2>1
  <2>3. FedWell(decoder, Feed(decoder, Chunk(n)), received, Chunk(n))
    BY <2>1
  <2>4. decoder'.mode = decoder.mode
    BY <2>1, <2>3 DEF FedWell
  <2>5. \A m \in DOMAIN received' : FrameEnds(decoder'.mode, received', m) =>
          buffer' = SubSeq(received', m + 1, Len(received'))
    BY <2>1, <2>4
  <2>6. QED
    BY <2>2, <2>5 DEF DecodesReference
<1>3. CASE Emit \/ CommandsDone \/ UNCHANGED endpointVars
  BY <1>3 DEF Emit, CommandsDone, endpointVars, session, DecodesReference
<1>4. CASE SilenceObserved
  <2>1. place' = "idle" /\ answered'.kind = "none"
    BY <1>4 DEF SilenceObserved, Answered, Placed
  <2>2. QED
    BY <2>1 DEF DecodesReference
<1>5. CASE DrainTransfer \/ DrainFails \/ ProbeFails \/ WriteFails
  <2>1. received' = <<>> /\ place' \in {"draining", "down"}
    BY <1>5 DEF DrainTransfer, DrainFails, ProbeFails, WriteFails, SessionFails, Placed
  <2>2. DOMAIN received' = {}
    BY <2>1, EmptySeq
  <2>3. QED
    BY <2>1, <2>2 DEF DecodesReference
<1>6. CASE Reopen \/ DrainQuiet \/ ProbeQuiet
  <2>1. place' \in {"draining", "writing"}
    BY <1>6 DEF Reopen, DrainQuiet, ProbeQuiet
  <2>2. QED
    BY <2>1 DEF DecodesReference
<1>7. ASSUME NEW k \in Kinds \ {"identity"}, BeginExchange(k) PROVE DecodesReference'
  <2>1. deferredEOF \in BOOLEAN /\ idleProbe \in BOOLEAN
    BY DEF EndpointTypeOK
  <2>2. place' \in {"down", "probing", "writing"} /\ received' = <<>>
    BY <1>7, <2>1 DEF BeginExchange
  <2>3. DOMAIN received' = {}
    BY <2>2, EmptySeq
  <2>4. QED
    BY <2>2, <2>3 DEF DecodesReference
<1>8. CASE ReadFails
  <2>1. place = "reading" /\ place' = "down" /\ decoder' = decoder
    BY <1>8 DEF ReadFails, SessionFails, session
  <2>2. ~decoder'.complete
    BY <2>1 DEF Decodes, Decoding
  <2>3. QED
    BY <2>1, <2>2 DEF DecodesReference
<1>9. QED
  BY <1>1, <1>2, <1>3, <1>4, <1>5, <1>6, <1>7, <1>8 DEF EndpointNext

LEMMA ExcessPreserved ==
  ASSUME EndpointTypeOK, Counted, OverflowMeansExcess, EndpointNext \/ UNCHANGED endpointVars
  PROVE  OverflowMeansExcess'
<1>1. CASE DrainTransfer
  BY <1>1, OverflowByDrain
<1>2. CASE Reopen
  <2>1. drained' = <<>>
    BY <1>2 DEF Reopen
  <2>2. WithinDrainLimit(<<>>)
    BY EmptySeq, EmptyRuns
  <2>3. WithinDrainLimit(drained')
    BY <2>1, <2>2
  <2>4. QED
    BY <2>3 DEF OverflowMeansExcess, WithinDrainLimit
<1>3. CASE ~DrainTransfer /\ ~Reopen
  <2>1. drained' = drained
    BY <1>3
    DEF EndpointNext, Emit, DrainQuiet, DrainFails, BeginExchange, ProbeQuiet, ProbeFails, Write,
        WriteFails, SilenceObserved, Receive, ReadFails, CommandsDone, endpointVars
  <2>2. QED
    BY <2>1 DEF OverflowMeansExcess, WithinDrainLimit
<1>4. QED
  BY <1>1, <1>2, <1>3

LEMMA CountedPreserved ==
  ASSUME EndpointTypeOK, EndpointTypeOK', Placed, PendingKnown, Counted,
         EndpointNext \/ UNCHANGED endpointVars
  PROVE  Counted'
<1>1. CASE Emit
  BY <1>1, CountedByEmit
<1>2. CASE ~Emit
  BY <1>2, CountedByOthers
<1>3. QED
  BY <1>1, <1>2

LEMMA EndpointStarts ==
  ASSUME EndpointInit
  PROVE  EndpointIInv
<1>1. /\ pending = <<>> /\ wire = <<>> /\ number = 0 /\ kind = "identity" /\ place = "down"
      /\ buffer = <<>> /\ deferredEOF = FALSE /\ idleProbe = FALSE
      /\ decoder = NewFrameDecoder("ascii") /\ received = <<>> /\ drained = <<>>
      /\ imposter = FALSE /\ answered = NoAnswer
  BY DEF EndpointInit
<1>2. Len(<<>>) = 0 /\ DOMAIN <<>> = {} /\ \A S : <<>> \in Seq(S)
  BY EmptySeq
<1>3. decoder \in Decoders /\ decoder.complete = FALSE
  BY <1>1, NewDecodes DEF NewFrameDecoder, FrameModes
<1>4. EndpointTypeOK
  <2>1. 0 <= DrainLimit + TransferBytes /\ 0 \in 0 .. MaxCommands
    BY PrefixFact, EndpointAssumption DEF DrainLimit
  <2>2. NoAnswer \in [number : 0 .. MaxCommands, kind : Kinds, received : Seq(Bytes),
                      payload : Seq(Bytes)]
    BY <1>2, <2>1 DEF NoAnswer, Kinds
  <2>3. pending \in Seq([number : 1 .. MaxCommands, kind : Kinds, bytes : Seq(Bytes)])
    BY <1>1, <1>2
  <2>4. kind \in Kinds /\ place \in Places
    BY <1>1 DEF Kinds, Places
  <2>5. QED
    BY <1>1, <1>2, <1>3, <2>1, <2>2, <2>3, <2>4 DEF EndpointTypeOK
<1>5. Placed /\ PendingKnown /\ StreamKnown /\ Decodes
  BY <1>1, <1>2 DEF Placed, PendingKnown, StreamKnown, Decodes, NoAnswer
<1>6. Runs(wire) /\ Absent(wire) /\ WithinDrainLimit(drained)
  BY <1>1, <1>2, EmptyRuns
<1>7. Counted
  BY <1>1, <1>2, <1>6 DEF Counted, Before
<1>8. AnswersBelong /\ DecodesReference /\ OverflowMeansExcess
  BY <1>1, <1>3, <1>6 DEF AnswersBelong, DecodesReference, OverflowMeansExcess
<1>9. QED
  BY <1>4, <1>5, <1>7, <1>8 DEF EndpointIInv

LEMMA EndpointStepPreserves ==
  ASSUME EndpointIInv, [EndpointNext]_endpointVars
  PROVE  EndpointIInv'
<1>1. /\ EndpointTypeOK /\ Placed /\ PendingKnown /\ StreamKnown /\ Counted /\ Decodes
      /\ AnswersBelong /\ DecodesReference /\ OverflowMeansExcess
  BY DEF EndpointIInv
<1>2. EndpointNext \/ UNCHANGED endpointVars
  OBVIOUS
<1>3. EndpointTypeOK' /\ Placed'
  BY <1>1, <1>2, TypePreserved
<1>4. PendingKnown' /\ StreamKnown'
  BY <1>1, <1>2, PendingPreserved, StreamPreserved
<1>5. Counted' /\ Decodes'
  BY <1>1, <1>2, <1>3, CountedPreserved, DecodesPreserved
<1>6. AnswersBelong' /\ DecodesReference' /\ OverflowMeansExcess'
  BY <1>1, <1>2, <1>3, <1>5, AnswersPreserved, ReferencePreserved, ExcessPreserved
<1>7. QED
  BY <1>3, <1>4, <1>5, <1>6 DEF EndpointIInv

\* Every session on the endpoints keeps the invariant, however the instrument is
\* slow, falls silent or answers a command that was given up.
THEOREM EndpointInvariance == EndpointSpec => []EndpointIInv
<1>1. EndpointInit => EndpointIInv
  BY EndpointStarts
<1>2. EndpointIInv /\ [EndpointNext]_endpointVars => EndpointIInv'
  BY EndpointStepPreserves
<1>3. QED
  BY <1>1, <1>2, PTL DEF EndpointSpec

\* No buffer exceeds its bounds, and only the output of more than one command can
\* make the drain of a candidate overflow (endpoint_session.go:134-135, 164-172).
THEOREM EndpointStaysWithinBounds == EndpointSpec => []WithinBounds
<1>1. EndpointIInv => WithinBounds
  BY DEF EndpointIInv, WithinBounds
<1>2. QED
  BY <1>1, EndpointInvariance, PTL

\* Whatever came late, came in pieces or was given up before, identity queries
\* included, an exchange that succeeds has the whole answer of its own command, in
\* every candidate but one whose drain was outlived by something that reads as the
\* identity (endpoint_session.go:223-289, docs/usb-protocol.md:152-160).
THEOREM EndpointAnswersBelong == EndpointSpec => []AnswersBelong
<1>1. EndpointIInv => AnswersBelong
  BY DEF EndpointIInv
<1>2. QED
  BY <1>1, EndpointInvariance, PTL

\* The decoder finds the frame that the bytes read so far begin with, however they
\* were cut into transfers, and refuses exactly what cannot fit
\* (frame_decoder.go:61-169).
THEOREM EndpointDecodesReference == EndpointSpec => []DecodesReference
<1>1. EndpointIInv => DecodesReference
  BY DEF EndpointIInv
<1>2. QED
  BY <1>1, EndpointInvariance, PTL

=============================================================================
