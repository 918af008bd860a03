---------------------------- MODULE SerialDevice ----------------------------
(***************************************************************************)
(* What pkg/owonsession promises about the instrument, without saying how: *)
(* one client at a time holds the device and runs at most one native call; *)
(* a command is sent only to a device that is known to be valid; after an  *)
(* ambiguous failure the device is suspect until it is reopened and        *)
(* validated; a closed device stays closed.                                *)
(***************************************************************************)

CONSTANTS Clients, None

VARIABLES
  holder,  \* the client that holds the device, or None
  health,  \* "valid", "suspect" or "closed"
  call     \* the native call in progress, or "none"

deviceVars == <<holder, health, call>>

Init == holder = None /\ health = "valid" /\ call = "none"

Acquire ==
  /\ holder = None
  /\ holder' \in Clients
  /\ UNCHANGED <<health, call>>

Release ==
  /\ holder # None
  /\ call = "none"
  /\ holder' = None
  /\ UNCHANGED <<health, call>>

StartExchange ==
  /\ holder # None /\ call = "none" /\ health = "valid"
  /\ call' = "exchange"
  /\ UNCHANGED <<holder, health>>

StartReopen ==
  /\ holder # None /\ call = "none" /\ health = "suspect"
  /\ call' = "reopen"
  /\ UNCHANGED <<holder, health>>

\* The closing client acquires the device and closes it at once.
StartClose ==
  /\ holder = None /\ call = "none" /\ health # "closed"
  /\ holder' \in Clients
  /\ call' = "close"
  /\ UNCHANGED health

\* After an ambiguous failure the client keeps the device to record it.
EndExchange ==
  /\ call = "exchange"
  /\ call' = "none"
  /\ health' \in {"valid", "suspect"}
  /\ UNCHANGED holder

\* A client whose recovery or close failed gives the device up.
EndReopen ==
  /\ call = "reopen"
  /\ call' = "none"
  /\ \/ health' = "valid" /\ UNCHANGED holder
     \/ health' = "suspect" /\ holder' = None

EndClose ==
  /\ call = "close"
  /\ call' = "none"
  /\ health' \in {"suspect", "closed"}
  /\ holder' = None

Next ==
  \/ Acquire \/ Release
  \/ StartExchange \/ EndExchange
  \/ StartReopen \/ EndReopen
  \/ StartClose \/ EndClose

Spec == Init /\ [][Next]_deviceVars

=============================================================================
