---------------------------- MODULE MCRefinement ----------------------------
(***************************************************************************)
(* The instances on which TLC checks that the program implements the       *)
(* payment channel, beside its books: two consumers whose sessions are     *)
(* paid in kind, and one whose session, in SOL or in one of two tokens,    *)
(* may be paid in anything.                                                *)
(***************************************************************************)
EXTENDS EscrowRefinement, MCEscrow
=============================================================================
