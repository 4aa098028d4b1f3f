----------------------------- MODULE MCRegistry -----------------------------
(***************************************************************************)
(* The instance TLC checks of Registry: one node that either of two        *)
(* providers may register, and bounds small enough that u32 saturation and *)
(* u64 overflow happen.                                                    *)
(***************************************************************************)
EXTENDS Registry

MCFeeRates == {0, 10, 11}
MCWindows == {0, 1}
MCCapacities == {0, 1, 2}
=============================================================================
