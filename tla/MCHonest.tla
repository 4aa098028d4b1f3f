------------------------------ MODULE MCHonest -------------------------------
(***************************************************************************)
(* Instances of HonestChannel: chains of up to three states, whose second  *)
(* owes more or less, under a deposit of 3.                                *)
(***************************************************************************)
EXTENDS HonestChannel, MCEscrow

Chains == UNION {{Update(s, 1, 1, 2), Update(s, 2, 2, 4), Update(s, 2, 3, 4),
                  Update(s, 3, 3, 4)} : s \in Sessions}
=============================================================================
