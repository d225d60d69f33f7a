------------------------------ MODULE MCDevice ------------------------------
(***************************************************************************)
(* The device with three measurements an upload, up to two name queries    *)
(* under way and a reconnect count that wraps at 8, past the 5 the code    *)
(* looks for.  Which value a measurement has is a matter of SamplingCycle: *)
(* there is one here.                                                      *)
(***************************************************************************)
EXTENDS Device
=============================================================================
