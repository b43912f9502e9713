------------------------------ MODULE MCRaopRtp ------------------------------
(***************************************************************************)
(* Instances of RaopRtp.                                                   *)
(***************************************************************************)
EXTENDS RaopRtp

AllModes == {"udp", "udp_noresend", "tcp"}
MCPackets == 0 .. MaxPackets - 1
OddFlushes == {7, 15, NO_FLUSH}
=============================================================================
