---------------------------- MODULE StateMessage ----------------------------
(***************************************************************************)
(* The message of a state channel as bytes.  Three pieces of code each lay *)
(* the same record out by hand: serializeState of the TypeScript client    *)
(* (what the parties sign), the IDL type of the solmesh-state crate (how   *)
(* Anchor's client encodes the instruction argument) and the crate's Borsh *)
(* struct (what the program reads and re-encodes to compare with the       *)
(* signed bytes).  A co-signed state can be settled only if the three      *)
(* agree on every field, its place and its sign.                           *)
(*                                                                         *)
(* The radix and the widths are CONSTANTS, so that TLC can count with      *)
(* small bytes; the code has bytes of 256 values, 8-byte integers and      *)
(* 32-byte keys.                                                           *)
(***************************************************************************)
EXTENDS Integers, Sequences

CONSTANTS
    BYTE,          \* values of a byte: 256
    WIDTH,         \* bytes of a u64 or an i64: 8
    PUBKEY_SIZE,   \* 32
    STATE_DOMAIN   \* b"SOLMESH1"

Bytes == 0..(BYTE - 1)
WORD == BYTE^WIDTH
U64 == 0..(WORD - 1)
I64 == -(WORD \div 2)..(WORD \div 2 - 1)
Pubkey == [1..PUBKEY_SIZE -> Bytes]

\* data[at .. at + size] of Rust.
Slice(data, at, size) == SubSeq(data, at + 1, at + size)

-----------------------------------------------------------------------------
\* Little-endian, and two's complement for the signed: writeBigUInt64LE,
\* writeBigInt64LE, and Borsh's integers.
U64le(v) == [i \in 1..WIDTH |-> (v \div BYTE^(i - 1)) % BYTE]
I64le(v) == U64le(v % WORD)

\* The number that bytes stand for.
LEValue(bytes) ==
    LET value[i \in 0..WIDTH] ==
            IF i = 0 THEN 0 ELSE value[i - 1] + bytes[i] * BYTE^(i - 1)
    IN  value[WIDTH]

ReadU64(data, at) == LEValue(Slice(data, at, WIDTH))
ReadI64(data, at) == LET v == ReadU64(data, at) IN IF v \in I64 THEN v ELSE v - WORD

ASSUME MessageAssumption ==
    /\ BYTE \in Nat \ {0, 1} /\ WIDTH \in Nat \ {0} /\ WORD \in Nat \ {0}
    /\ PUBKEY_SIZE \in Nat
    /\ STATE_DOMAIN \in Seq(Bytes)

\* An integer is read back from its bytes: a fact about positional notation,
\* by induction on WIDTH.
ASSUME EncodingAssumption ==
    /\ \A v \in U64 : LEValue(U64le(v)) = v
    /\ \A v \in I64 :
          LET w == LEValue(I64le(v)) IN v = IF w \in I64 THEN w ELSE w - WORD

-----------------------------------------------------------------------------
\* The client's record.
ClientState == [session: Pubkey, nonce: U64, owedToProvider: U64,
                unitsConsumed: U64, timestamp: I64]

\* The sign of the timestamp is lost.
SerializeState_WrongSign(s) ==
    STATE_DOMAIN \o s.session \o U64le(s.nonce) \o U64le(s.owedToProvider)
        \o U64le(s.unitsConsumed)
        \o U64le(IF s.timestamp < 0 THEN -s.timestamp ELSE s.timestamp)

\* serializeState: the bytes both parties sign.
SerializeState(s) ==
    STATE_DOMAIN \o s.session \o U64le(s.nonce) \o U64le(s.owedToProvider)
        \o U64le(s.unitsConsumed) \o I64le(s.timestamp)

\* toAnchorArg: the instruction's argument.
ToAnchorArg(s) ==
    [domain |-> STATE_DOMAIN, session |-> s.session, nonce |-> s.nonce,
     owed_to_provider |-> s.owedToProvider, units_consumed |-> s.unitsConsumed,
     timestamp |-> s.timestamp]

\* What Anchor's client makes of the argument, from IdlBuild's create_type: the
\* instruction's data, but for the discriminator before it.
EncodeArg(arg) ==
    arg.domain \o arg.session \o U64le(arg.nonce) \o U64le(arg.owed_to_provider)
        \o U64le(arg.units_consumed) \o I64le(arg.timestamp)

-----------------------------------------------------------------------------
MESSAGE_LEN == Len(STATE_DOMAIN) + PUBKEY_SIZE + 4 * WIDTH

\* The struct's Borsh encoding: its fields in the order of their declaration.
ToMessageBytes(state) ==
    state.domain \o state.session \o U64le(state.nonce)
        \o U64le(state.owed_to_provider) \o U64le(state.units_consumed)
        \o I64le(state.timestamp)

\* Its Borsh decoding, of at least MESSAGE_LEN bytes.
FromMessageBytes(data) ==
    LET d == Len(STATE_DOMAIN)
        p == d + PUBKEY_SIZE
    IN  [domain |-> Slice(data, 0, d),
         session |-> Slice(data, d, PUBKEY_SIZE),
         nonce |-> ReadU64(data, p),
         owed_to_provider |-> ReadU64(data, p + WIDTH),
         units_consumed |-> ReadU64(data, p + 2 * WIDTH),
         timestamp |-> ReadI64(data, p + 3 * WIDTH)]

HasValidDomain(state) == state.domain = STATE_DOMAIN
=============================================================================
