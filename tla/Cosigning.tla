----------------------------- MODULE Cosigning ------------------------------
(***************************************************************************)
(* From two signatures to a settled state.  The parties sign states; a     *)
(* client assembles a transaction of Ed25519 instructions and others; the  *)
(* program's instruction is put somewhere among them and the transaction   *)
(* is executed.  What Escrow takes as given, that the updates it acts on   *)
(* are the ones both parties signed, is shown here down to the bytes.      *)
(***************************************************************************)
EXTENDS Ed25519Binding

CONSTANTS
    Keys,
    ProviderOf, ConsumerOf,   \* the keys each Session account stores
    Updates,          \* the states the parties may come to sign
    Instructions,     \* other instructions a transaction may carry
    SolMeshProgram,
    MAX_INSTRUCTIONS  \* bound on the instructions beside the program's own

Sessions == DOMAIN ProviderOf

ASSUME CosigningAssumption ==
    /\ Keys \subseteq Pubkey
    /\ Sessions \subseteq Pubkey
    /\ ProviderOf \in [Sessions -> Keys] /\ ConsumerOf \in [Sessions -> Keys]
    /\ Updates \subseteq ClientState
    /\ \A key \in Keys, s \in Updates :
          SigOf(key, SerializeState(s)) \in [1..SIG_SIZE -> Bytes]
    /\ Instructions \subseteq [program: {Ed25519Program, SolMeshProgram, "other"},
                               data: Seq(Bytes)]
    /\ \A ix \in Instructions : ix.program = Ed25519Program => Len(ix.data) >= HEADER
    /\ SolMeshProgram # Ed25519Program
    /\ MAX_INSTRUCTIONS \in Nat

VARIABLES
    agreed,    \* <<key, state>>: the holder of key has signed state
    tx,        \* the instructions a client has assembled so far
    accepted   \* <<session account, state>>: what the program has accepted

vars == <<agreed, tx, accepted>>

Init == agreed = {} /\ tx = <<>> /\ accepted = {}

\* The pairs of key and bytes for which a signature exists.
Signed == {<<a[1], SerializeState(a[2])>> : a \in agreed}

\* signState: each party fills in the session it takes part in.
Sign(key, s) ==
    /\ s.session \in Sessions
    /\ key \in {ProviderOf[s.session], ConsumerOf[s.session]}
    /\ agreed' = agreed \cup {<<key, s>>}
    /\ UNCHANGED <<tx, accepted>>

\* One of the instructions of cosignIxs, for a signature that was made.
AddSignature(key, s) ==
    LET msg == SerializeState(s)
    IN  /\ Len(tx) < MAX_INSTRUCTIONS
        /\ <<key, s>> \in agreed
        /\ tx' = Append(tx, Ed25519VerifyIx(key, msg, SigOf(key, msg)))
        /\ UNCHANGED <<agreed, accepted>>

AddInstruction(ix) ==
    /\ Len(tx) < MAX_INSTRUCTIONS
    /\ tx' = Append(tx, ix)
    /\ UNCHANGED <<agreed, accepted>>

\* verify_cosigned_state, but for the amounts, which are Escrow's.
VerifyCosignedState(session, state, whole, current) ==
    /\ HasValidDomain(state)
    /\ state.session = session
    /\ VerifyEd25519Signature(whole, current, ProviderOf[session], ToMessageBytes(state))
    /\ VerifyEd25519Signature(whole, current, ConsumerOf[session], ToMessageBytes(state))

\* The whole transaction: the program's instruction, whose argument is s, comes
\* after the first current others.
Whole(s, current) ==
    SubSeq(tx, 1, current)
        \o <<[program |-> SolMeshProgram, data |-> EncodeArg(ToAnchorArg(s))]>>
        \o SubSeq(tx, current + 1, Len(tx))

Accepts(session, s, current) ==
    /\ PrecompilePasses(Whole(s, current), Signed)
    /\ VerifyCosignedState(session, FromMessageBytes(EncodeArg(ToAnchorArg(s))),
                           Whole(s, current), current)

\* The transaction of settle, cosignedClose or settleSpl is executed for a
\* Session account; it leaves no trace when the runtime or the program rejects it.
Execute(session, s, current) ==
    /\ Accepts(session, s, current)
    /\ accepted' = accepted \cup {<<session, FromMessageBytes(EncodeArg(ToAnchorArg(s)))>>}
    /\ tx' = <<>>
    /\ UNCHANGED agreed

\* A transaction that was rejected, or never sent, is forgotten.
Discard ==
    /\ tx # <<>>
    /\ tx' = <<>>
    /\ UNCHANGED <<agreed, accepted>>

Next ==
    \/ \E key \in Keys, s \in Updates : Sign(key, s) \/ AddSignature(key, s)
    \/ \E ix \in Instructions : AddInstruction(ix)
    \/ \E session \in Sessions, s \in Updates, current \in 0..Len(tx) :
          Execute(session, s, current)
    \/ Discard

Spec == Init /\ [][Next]_vars

-----------------------------------------------------------------------------
\* Whatever the program accepts for a session, both its parties have signed the
\* very bytes it stands for: no mix of instructions, offsets and indices passes
\* the introspection of ed25519.rs without the two signatures.
AcceptedWasSigned ==
    \A a \in accepted : \A key \in {ProviderOf[a[1]], ConsumerOf[a[1]]} :
        <<key, ToMessageBytes(a[2])>> \in Signed

\* And they agreed to that state, field by field, for that session: what the
\* TypeScript client showed and signed is what the program acts on.
AcceptedWasAgreed ==
    \A a \in accepted : \E s \in Updates :
        /\ s.session = a[1]
        /\ ToAnchorArg(s) = a[2]
        /\ {ProviderOf[a[1]], ConsumerOf[a[1]]} \X {s} \subseteq agreed

\* A state both parties signed is never refused: with the two instructions of
\* cosignIxs before the program's, in either order and with any instructions
\* the precompile passes before, between or after them, the program accepts.
CosignedIsAccepted ==
    \A s \in Updates, current \in 0..Len(tx) :
        LET msg == SerializeState(s)
            Present(key) == \E i \in 1..current :
                                tx[i] = Ed25519VerifyIx(key, msg, SigOf(key, msg))
        IN  (/\ s.session \in Sessions
             /\ Present(ProviderOf[s.session]) /\ Present(ConsumerOf[s.session])
             /\ PrecompilePasses(Whole(s, current), Signed))
            => Accepts(s.session, s, current)
=============================================================================
