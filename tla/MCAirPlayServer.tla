--------------------------- MODULE MCAirPlayServer ---------------------------
(***************************************************************************)
(* Instances of AirPlayServer.                                             *)
(***************************************************************************)
EXTENDS AirPlayServer

TwoSockets == 1 .. 2
=============================================================================
