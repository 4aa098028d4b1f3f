--------------------------- MODULE Ed25519Binding ---------------------------
(***************************************************************************)
(* How the program knows that a message was signed.  It cannot verify a    *)
(* signature itself: the runtime's Ed25519 precompile verifies every entry *)
(* of every Ed25519 instruction of the transaction, or aborts it, and the  *)
(* program then looks among the instructions before its own for one whose  *)
(* data names the expected key and message.  The precompile follows the    *)
(* offsets and instruction indices of an entry wherever they point; the    *)
(* program must read the very bytes the precompile has verified.           *)
(***************************************************************************)
EXTENDS StateMessage

CONSTANTS
    SIG_SIZE,        \* 64
    SigOf(_, _),     \* the signature a key makes of a message
    Ed25519Program   \* the precompile's program id

HEADER == 2          \* num_signatures and padding
OFFSETS_SIZE == 14   \* one Ed25519SignatureOffsets
SENTINEL == BYTE * BYTE - 1   \* u16::MAX: "this instruction"

ASSUME BindingAssumption ==
    /\ SIG_SIZE \in Nat
    /\ HEADER + OFFSETS_SIZE + PUBKEY_SIZE + SIG_SIZE + MESSAGE_LEN < SENTINEL

U16le(v) == <<v % BYTE, v \div BYTE>>
ReadU16(data, at) == data[at + 1] + BYTE * data[at + 2]

\* The n-th entry of an Ed25519 instruction, counted from 0.
Entry(data, n) ==
    LET o == HEADER + n * OFFSETS_SIZE
    IN  [sig_offset |-> ReadU16(data, o), sig_ix_idx |-> ReadU16(data, o + 2),
         pk_offset |-> ReadU16(data, o + 4), pk_ix_idx |-> ReadU16(data, o + 6),
         msg_offset |-> ReadU16(data, o + 8), msg_size |-> ReadU16(data, o + 10),
         msg_ix_idx |-> ReadU16(data, o + 12)]

-----------------------------------------------------------------------------
(***************************************************************************)
(* The client's side, and the runtime's.                                   *)
(***************************************************************************)

\* Ed25519Program.createInstructionWithPublicKey: one entry, then the key, the
\* signature and the message it points to.  instructionIndex says in which
\* instruction they are; left out, it is SENTINEL.
CreateInstruction(pk, msg, sig, instructionIndex) ==
    LET pk_offset == HEADER + OFFSETS_SIZE
        sig_offset == pk_offset + PUBKEY_SIZE
        msg_offset == sig_offset + SIG_SIZE
        index == U16le(instructionIndex)
    IN  [program |-> Ed25519Program,
         data |-> <<1, 0>> \o U16le(sig_offset) \o index \o U16le(pk_offset) \o index
                    \o U16le(msg_offset) \o U16le(Len(msg)) \o index
                    \o pk \o sig \o msg]

\* ed25519VerifyIx
Ed25519VerifyIx(pk, msg, sig) == CreateInstruction(pk, msg, sig, SENTINEL)

\* Where the precompile reads, for an entry of the i-th instruction of tx: an
\* index counts instructions from 0.
Source(tx, i, ix_idx) == IF ix_idx = SENTINEL THEN tx[i].data ELSE tx[ix_idx + 1].data

InTransaction(tx, ix_idx) == ix_idx = SENTINEL \/ ix_idx < Len(tx)

\* The precompile verifies one entry.  signed holds the <<key, message>> pairs
\* whose holder has signed: nobody else can make a signature that verifies.
EntryVerified(tx, i, e, signed) ==
    /\ InTransaction(tx, e.sig_ix_idx)
    /\ InTransaction(tx, e.pk_ix_idx)
    /\ InTransaction(tx, e.msg_ix_idx)
    /\ e.sig_offset + SIG_SIZE <= Len(Source(tx, i, e.sig_ix_idx))
    /\ e.pk_offset + PUBKEY_SIZE <= Len(Source(tx, i, e.pk_ix_idx))
    /\ e.msg_offset + e.msg_size <= Len(Source(tx, i, e.msg_ix_idx))
    /\ LET pk == Slice(Source(tx, i, e.pk_ix_idx), e.pk_offset, PUBKEY_SIZE)
           msg == Slice(Source(tx, i, e.msg_ix_idx), e.msg_offset, e.msg_size)
       IN  /\ <<pk, msg>> \in signed
           /\ Slice(Source(tx, i, e.sig_ix_idx), e.sig_offset, SIG_SIZE) = SigOf(pk, msg)

\* All instructions of a transaction pass the precompile, or none executes.
PrecompilePasses(tx, signed) ==
    \A i \in 1..Len(tx) : tx[i].program = Ed25519Program =>
        /\ Len(tx[i].data) >= HEADER + tx[i].data[1] * OFFSETS_SIZE
        /\ \A n \in 0..(tx[i].data[1] - 1) : EntryVerified(tx, i, Entry(tx[i].data, n), signed)

-----------------------------------------------------------------------------
(***************************************************************************)
(* The program's side.                                                     *)
(***************************************************************************)

\* The indices are not looked at.
CheckEd25519Data_WrongIndex(data, pk, msg) ==
    /\ Len(data) >= HEADER + OFFSETS_SIZE
    /\ data[1] >= 1
    /\ LET e == Entry(data, 0)
       IN  /\ e.pk_offset + PUBKEY_SIZE <= Len(data)
           /\ e.sig_offset + SIG_SIZE <= Len(data)
           /\ e.msg_offset + e.msg_size <= Len(data)
           /\ Slice(data, e.pk_offset, PUBKEY_SIZE) = pk
           /\ e.msg_size = Len(msg)
           /\ Slice(data, e.msg_offset, e.msg_size) = msg

\* check_ed25519_data: the first entry is in this instruction and binds pk to
\* msg.
CheckEd25519Data(data, pk, msg) ==
    /\ Len(data) >= HEADER + OFFSETS_SIZE
    /\ data[1] >= 1
    /\ LET e == Entry(data, 0)
       IN  /\ e.sig_ix_idx = SENTINEL /\ e.pk_ix_idx = SENTINEL /\ e.msg_ix_idx = SENTINEL
           /\ e.pk_offset + PUBKEY_SIZE <= Len(data)
           /\ e.sig_offset + SIG_SIZE <= Len(data)
           /\ e.msg_offset + e.msg_size <= Len(data)
           /\ Slice(data, e.pk_offset, PUBKEY_SIZE) = pk
           /\ e.msg_size = Len(msg)
           /\ Slice(data, e.msg_offset, e.msg_size) = msg

\* Only the instruction just before the program's own is looked at.
VerifyEd25519Signature_WrongScan(tx, current, pk, msg) ==
    /\ current > 0
    /\ tx[current].program = Ed25519Program
    /\ CheckEd25519Data(tx[current].data, pk, msg)

\* verify_ed25519_signature: some Ed25519 instruction among the first current
\* ones, those before the program's own, binds pk to msg.
VerifyEd25519Signature(tx, current, pk, msg) ==
    \E i \in 1..current :
        /\ tx[i].program = Ed25519Program
        /\ CheckEd25519Data(tx[i].data, pk, msg)
=============================================================================
