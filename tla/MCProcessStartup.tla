-------------------------- MODULE MCProcessStartup --------------------------
(* The sector of the writes in the run of ProcessStartup. *)
EXTENDS ProcessStartup

CONSTANT s1

OneSector == [w \in Write |-> s1]
=============================================================================
