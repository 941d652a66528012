--------------------------- MODULE MCQuicTransfer ---------------------------
(* The instance of QuicTransfer that TLC checks.                           *)
EXTENDS QuicTransfer

InstanceSize == <<2, 1>>
=============================================================================
