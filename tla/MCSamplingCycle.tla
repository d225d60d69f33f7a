-------------------------- MODULE MCSamplingCycle --------------------------
(***************************************************************************)
(* The duty cycle with three measurements an upload instead of twenty, two *)
(* values a measurement can have, and random counts up to one past N.      *)
(***************************************************************************)
EXTENDS SamplingCycle
=============================================================================
