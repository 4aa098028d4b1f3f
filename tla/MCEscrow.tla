------------------------------ MODULE MCEscrow ------------------------------
(***************************************************************************)
(* The instances TLC checks of the settlement program.  A run chooses how  *)
(* many consumers (hence sessions) there are and which updates the parties *)
(* may come to sign.                                                       *)
(***************************************************************************)
EXTENDS EscrowAccounting

Update(s, nonce, owed, units) ==
    [session |-> s, nonce |-> nonce, owed_to_provider |-> owed, units_consumed |-> units]

\* The honest sequence, an overtaking state that owes less, and one that owes
\* more than the deposit of 3.
Negotiated == UNION {{Update(s, 1, 1, 2), Update(s, 2, 3, 4), Update(s, 3, 2, 1),
                      Update(s, 3, 4, 4)} : s \in Sessions}

\* Two states per session.
Short == UNION {{Update(s, 1, 1, 2), Update(s, 2, 2, 4)} : s \in Sessions}

\* One session of two states beside sessions of one.
Longer == CHOOSE c \in Consumers : TRUE
Uneven == {u \in Short : u.session.consumer = Longer \/ u.nonce = 1}

\* What the outsiders have to give away.  Worthless is a mint of their own.
Worthless == IF Mints = {} THEN None ELSE CHOOSE mint \in Mints : TRUE
NothingOutside == [a \in Assets |-> 0]
LamportAndToken == [a \in Assets |-> IF a \in {SOL, Worthless} THEN 1 ELSE 0]
ADepositOutside == [a \in Assets |-> IF a \in {SOL, Worthless} THEN 3 ELSE 0]
=============================================================================
