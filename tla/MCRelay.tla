------------------------------- MODULE MCRelay -------------------------------
(***************************************************************************)
(* Instances of the relay: sockets are interchangeable, so are sessions.   *)
(***************************************************************************)
EXTENDS RelayClients, TLC

Symmetry == Permutations(Sockets) \cup Permutations(SessionIds)
=============================================================================
