---------------------------- MODULE MCCosigning -----------------------------
(***************************************************************************)
(* A small instance of Cosigning: bytes of 8 values, integers of 2 bytes,  *)
(* keys of 1; one provider with two sessions.                              *)
(***************************************************************************)
EXTENDS Cosigning, TLC

MCDomain == <<5>>
provider == <<1>>
alice == <<2>>
bob == <<3>>
MCKeys == {provider, alice, bob}

sessionA == <<6>>
sessionB == <<7>>
MCProviderOf == (sessionA :> provider) @@ (sessionB :> provider)
MCConsumerOf == (sessionA :> alice) @@ (sessionB :> bob)

MCSigOf(key, msg) == <<(key[1] + msg[3] + msg[9]) % 8>>

Update(session, nonce, owed, units, timestamp) ==
    [session |-> session, nonce |-> nonce, owedToProvider |-> owed,
     unitsConsumed |-> units, timestamp |-> timestamp]

\* Two states that differ in the sign of the advisory timestamp only, and one
\* of the other session with every integer at an end of its type.
first == Update(sessionA, 1, 8, 2, 1)
backdated == Update(sessionA, 1, 8, 2, -1)
extreme == Update(sessionB, 63, 63, 0, -32)
MCUpdates == {first, backdated, extreme}

\* A compute-budget instruction, an Ed25519 instruction without entries, and one
\* that carries Alice's key and message but points to instruction 0 for them.
MCInstructions ==
    LET msg == SerializeState(first)
    IN  {[program |-> "other", data |-> <<>>],
         [program |-> Ed25519Program, data |-> <<0, 0>>],
         CreateInstruction(alice, msg, MCSigOf(alice, msg), 0)}
=============================================================================
