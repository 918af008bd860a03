----------------------------- MODULE MCUsbBackend -----------------------------
(* What an enumeration may find: nothing, one instrument, the other one, both, *)
(* the same serial twice, or a peer that cannot be read.                       *)
EXTENDS UsbBackend

CONSTANTS A, B

BothSerials == {A, B}
AnyOrA == {NoSerial, A}
AllBuses == {<<>>, <<A>>, <<B>>, <<A, B>>, <<B, A, B>>, <<A, A>>, <<Unreadable>>,
             <<A, Unreadable>>}
=============================================================================
