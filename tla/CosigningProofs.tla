-------------------------- MODULE CosigningProofs ---------------------------
(***************************************************************************)
(* What the program accepts was signed and agreed, and what both parties   *)
(* signed is accepted: for every choice of keys, sessions, states and      *)
(* instructions, for transactions of every length and for the code's       *)
(* widths.  Nothing but the assumptions of the modules is used of the      *)
(* constants; MAX_INSTRUCTIONS, which bounds TLC's runs, plays no part.    *)
(***************************************************************************)
EXTENDS Cosigning, SequenceTheorems, TLAPS

-----------------------------------------------------------------------------
(***************************************************************************)
(* Sequences.  What a byte of an encoded integer is does not matter here,  *)
(* so all sequences are over one set that contains them.                   *)
(***************************************************************************)
Cell == Int \cup {(v \div BYTE^(i - 1)) % BYTE : v \in Int, i \in 1..WIDTH}

\* A part of a concatenation that lies in its first half is a part of it.
LEMMA SliceOfPrefix ==
    ASSUME NEW S, NEW x \in Seq(S), NEW y \in Seq(S), NEW at \in Nat, NEW size \in Nat,
           at + size <= Len(x)
    PROVE  Slice(x \o y, at, size) = Slice(x, at, size)
<1>1. /\ x \o y \in Seq(S) /\ Len(x \o y) = Len(x) + Len(y)
      /\ \A i \in 1..(Len(x) + Len(y)) :
            (x \o y)[i] = IF i <= Len(x) THEN x[i] ELSE y[i - Len(x)]
    BY ConcatProperties
<1>2. \A i \in (at + 1)..(at + size) : (x \o y)[i] = x[i] /\ x[i] \in S
    BY <1>1, LenProperties, ElementOfSeq
<1>3. /\ SubSeq(x \o y, at + 1, at + size) \in Seq(S)
      /\ Len(SubSeq(x \o y, at + 1, at + size)) = size
      /\ \A i \in 1..size : SubSeq(x \o y, at + 1, at + size)[i] = (x \o y)[at + i]
    BY <1>2, SubSeqProperties
<1>4. /\ SubSeq(x, at + 1, at + size) \in Seq(S)
      /\ Len(SubSeq(x, at + 1, at + size)) = size
      /\ \A i \in 1..size : SubSeq(x, at + 1, at + size)[i] = x[at + i]
    BY <1>2, SubSeqProperties
<1> QED
    BY <1>2, <1>3, <1>4, SeqEqual DEF Slice

\* The second half of a concatenation is the part that begins at its place.
LEMMA SliceOfSuffix ==
    ASSUME NEW S, NEW x \in Seq(S), NEW y \in Seq(S)
    PROVE  Slice(x \o y, Len(x), Len(y)) = y
<1>1. /\ x \o y \in Seq(S) /\ Len(x \o y) = Len(x) + Len(y)
      /\ \A i \in 1..(Len(x) + Len(y)) :
            (x \o y)[i] = IF i <= Len(x) THEN x[i] ELSE y[i - Len(x)]
    BY ConcatProperties
<1>2. Len(x) \in Nat /\ Len(y) \in Nat
    BY LenProperties
<1>3. \A i \in (Len(x) + 1)..(Len(x) + Len(y)) : (x \o y)[i] \in S
    BY <1>1, <1>2, ElementOfSeq
<1>4. /\ SubSeq(x \o y, Len(x) + 1, Len(x) + Len(y)) \in Seq(S)
      /\ Len(SubSeq(x \o y, Len(x) + 1, Len(x) + Len(y))) = Len(y)
      /\ \A i \in 1..Len(y) :
            SubSeq(x \o y, Len(x) + 1, Len(x) + Len(y))[i] = (x \o y)[Len(x) + i]
    BY <1>2, <1>3, SubSeqProperties
<1>5. \A i \in 1..Len(y) : (x \o y)[Len(x) + i] = y[i]
    BY <1>1, <1>2
<1> QED
    BY <1>4, <1>5, SeqEqual DEF Slice

LEMMA WordIsSeq ==
    ASSUME NEW v \in Int
    PROVE  /\ U64le(v) \in Seq(Cell) /\ Len(U64le(v)) = WIDTH
           /\ I64le(v) \in Seq(Cell) /\ Len(I64le(v)) = WIDTH
<1>1. \A w \in Int : U64le(w) \in [1..WIDTH -> Cell]
    BY DEF U64le, Cell
<1>2. \A w \in Int : U64le(w) \in Seq(Cell) /\ Len(U64le(w)) = WIDTH
    BY <1>1, MessageAssumption
<1>3. v % WORD \in Int
    BY MessageAssumption
<1> QED
    BY <1>2, <1>3 DEF I64le

-----------------------------------------------------------------------------
(***************************************************************************)
(* The encodings.                                                          *)
(***************************************************************************)

Layout(d, s, n, o, u, t) == d \o s \o n \o o \o u \o t

\* Every field of a layout is found at its place.
InPlace(d, s, n, o, u, t) ==
    LET all == Layout(d, s, n, o, u, t)
        p == Len(d) + Len(s)
    IN  /\ all \in Seq(Cell) /\ Len(all) = p + 4 * WIDTH
        /\ Slice(all, 0, Len(d)) = d
        /\ Slice(all, Len(d), Len(s)) = s
        /\ Slice(all, p, WIDTH) = n
        /\ Slice(all, p + WIDTH, WIDTH) = o
        /\ Slice(all, p + 2 * WIDTH, WIDTH) = u
        /\ Slice(all, p + 3 * WIDTH, WIDTH) = t

LEMMA SixFields ==
    ASSUME NEW d \in Seq(Cell), NEW s \in Seq(Cell), NEW n \in Seq(Cell),
           NEW o \in Seq(Cell), NEW u \in Seq(Cell), NEW t \in Seq(Cell),
           Len(n) = WIDTH, Len(o) = WIDTH, Len(u) = WIDTH, Len(t) = WIDTH
    PROVE  InPlace(d, s, n, o, u, t)
<1> DEFINE x1 == d \o s
           x2 == x1 \o n
           x3 == x2 \o o
           x4 == x3 \o u
           x5 == x4 \o t
           p == Len(d) + Len(s)
<1>1. Len(d) \in Nat /\ Len(s) \in Nat /\ WIDTH \in Nat
    BY LenProperties, MessageAssumption
<1>2. x1 \in Seq(Cell) /\ Len(x1) = p
    BY ConcatProperties
<1>3. x2 \in Seq(Cell) /\ Len(x2) = p + WIDTH
    BY <1>2, ConcatProperties
<1>4. x3 \in Seq(Cell) /\ Len(x3) = p + 2 * WIDTH
    <2>1. x3 \in Seq(Cell) /\ Len(x3) = Len(x2) + Len(o)
        BY <1>3, ConcatProperties
    <2> QED
        BY <2>1, <1>3, <1>1
<1>5. x4 \in Seq(Cell) /\ Len(x4) = p + 3 * WIDTH
    <2>1. x4 \in Seq(Cell) /\ Len(x4) = Len(x3) + Len(u)
        BY <1>4, ConcatProperties
    <2> QED
        BY <2>1, <1>4, <1>1
<1>6. x5 \in Seq(Cell) /\ Len(x5) = p + 4 * WIDTH
    <2>1. x5 \in Seq(Cell) /\ Len(x5) = Len(x4) + Len(t)
        BY <1>5, ConcatProperties
    <2> QED
        BY <2>1, <1>5, <1>1
<1>7. /\ Slice(x1, 0, Len(d)) = d
      /\ Slice(x1, Len(d), Len(s)) = s
    <2>1. Slice(d, 0, Len(d)) = d
        BY SubSeqFull, <1>1 DEF Slice
    <2>2. Slice(x1, 0, Len(d)) = Slice(d, 0, Len(d))
        BY <1>1, SliceOfPrefix
    <2> QED
        BY <2>1, <2>2, SliceOfSuffix
<1>8. Slice(x2, p, WIDTH) = n
    BY <1>2, SliceOfSuffix
<1>9. Slice(x3, p + WIDTH, WIDTH) = o
    BY <1>3, SliceOfSuffix
<1>10. Slice(x4, p + 2 * WIDTH, WIDTH) = u
    <2>1. Slice(x4, Len(x3), Len(u)) = u
        BY <1>4, SliceOfSuffix
    <2> HIDE DEF x3, x4, p
    <2> QED
        BY <2>1, <1>4
<1>11. Slice(x5, p + 3 * WIDTH, WIDTH) = t
    <2>1. Slice(x5, Len(x4), Len(t)) = t
        BY <1>5, SliceOfSuffix
    <2> HIDE DEF x4, x5, p
    <2> QED
        BY <2>1, <1>5
<1> HIDE DEF x1, x2, x3, x4, x5
<1> USE <1>1, <1>2, <1>3, <1>4, <1>5
<1>12. \A place, size \in Nat : place + size <= p => Slice(x2, place, size) = Slice(x1, place, size)
    BY SliceOfPrefix DEF x2
<1>13. \A place, size \in Nat : place + size <= p + WIDTH => Slice(x3, place, size) = Slice(x2, place, size)
    BY SliceOfPrefix DEF x3
<1>14. \A place, size \in Nat :
          place + size <= p + 2 * WIDTH => Slice(x4, place, size) = Slice(x3, place, size)
    BY SliceOfPrefix DEF x4
<1>15. \A place, size \in Nat :
          place + size <= p + 3 * WIDTH => Slice(x5, place, size) = Slice(x4, place, size)
    BY SliceOfPrefix DEF x5
<1> HIDE DEF p
<1>16. p = Len(d) + Len(s) /\ p \in Nat
    BY DEF p
<1>17. \A place, size \in Nat : place + size <= p => Slice(x5, place, size) = Slice(x1, place, size)
    <2> SUFFICES ASSUME NEW place \in Nat, NEW size \in Nat,
                        place + size <= p
                 PROVE  Slice(x5, place, size) = Slice(x1, place, size)
        OBVIOUS
    <2>1. /\ place + size <= p + WIDTH /\ place + size <= p + 2 * WIDTH
          /\ place + size <= p + 3 * WIDTH
        BY <1>16
    <2> QED
        BY <2>1, <1>12, <1>13, <1>14, <1>15
<1>18. Slice(x5, 0, Len(d)) = d /\ Slice(x5, Len(d), Len(s)) = s
    BY <1>7, <1>16, <1>17
<1>19. Slice(x5, p, WIDTH) = n
    <2>1. Slice(x3, p, WIDTH) = Slice(x2, p, WIDTH)
        BY <1>13, <1>16
    <2>2. p + WIDTH <= p + 2 * WIDTH /\ p + WIDTH <= p + 3 * WIDTH
        BY <1>16
    <2> QED
        BY <1>8, <2>1, <2>2, <1>14, <1>15, <1>16
<1>20. Slice(x5, p + WIDTH, WIDTH) = o
    <2>1. p + WIDTH \in Nat /\ p + WIDTH + WIDTH <= p + 2 * WIDTH
          /\ p + WIDTH + WIDTH <= p + 3 * WIDTH
        BY <1>16
    <2> QED
        BY <1>9, <2>1, <1>14, <1>15
<1>21. Slice(x5, p + 2 * WIDTH, WIDTH) = u
    <2>1. p + 2 * WIDTH \in Nat /\ p + 2 * WIDTH + WIDTH <= p + 3 * WIDTH
        BY <1>16
    <2> QED
        BY <1>10, <2>1, <1>15
<1>22. Layout(d, s, n, o, u, t) = x5
    BY DEF Layout, x1, x2, x3, x4, x5
<1> QED
    BY <1>6, <1>11, <1>18, <1>19, <1>20, <1>21, <1>22 DEF InPlace, p

\* Reading a state's bytes gives the state back: no field is dropped, cut or
\* read from another's place.
LEMMA RoundTrip ==
    ASSUME NEW s \in ClientState
    PROVE  /\ SerializeState(s) = EncodeArg(ToAnchorArg(s))
           /\ EncodeArg(ToAnchorArg(s)) = ToMessageBytes(ToAnchorArg(s))
           /\ EncodeArg(ToAnchorArg(s)) \in Seq(Cell)
           /\ Len(EncodeArg(ToAnchorArg(s))) = MESSAGE_LEN
           /\ FromMessageBytes(EncodeArg(ToAnchorArg(s))) = ToAnchorArg(s)
<1> DEFINE d == STATE_DOMAIN
           k == s.session
           n == U64le(s.nonce)
           o == U64le(s.owedToProvider)
           u == U64le(s.unitsConsumed)
           t == I64le(s.timestamp)
           all == Layout(d, k, n, o, u, t)
           p == Len(d) + Len(k)
<1>1. /\ s.session \in Pubkey /\ s.nonce \in U64 /\ s.owedToProvider \in U64
      /\ s.unitsConsumed \in U64 /\ s.timestamp \in I64
    BY DEF ClientState
<1>2. Bytes \subseteq Cell /\ U64 \subseteq Int /\ I64 \subseteq Int
    BY MessageAssumption DEF Bytes, Cell, U64, I64
<1>3. d \in Seq(Cell)
    BY <1>2, MessageAssumption, SeqMonotonic
<1>4. k \in Seq(Cell) /\ Len(k) = PUBKEY_SIZE
    BY <1>1, <1>2, MessageAssumption DEF Pubkey
<1>5. /\ n \in Seq(Cell) /\ Len(n) = WIDTH /\ o \in Seq(Cell) /\ Len(o) = WIDTH
      /\ u \in Seq(Cell) /\ Len(u) = WIDTH /\ t \in Seq(Cell) /\ Len(t) = WIDTH
    BY <1>1, <1>2, WordIsSeq
<1>6. SerializeState(s) = all /\ EncodeArg(ToAnchorArg(s)) = all
      /\ ToMessageBytes(ToAnchorArg(s)) = all
    BY DEF SerializeState, EncodeArg, ToMessageBytes, ToAnchorArg, Layout
<1>7. /\ LEValue(n) = s.nonce /\ LEValue(o) = s.owedToProvider
      /\ LEValue(u) = s.unitsConsumed
      /\ s.timestamp = IF LEValue(t) \in I64 THEN LEValue(t) ELSE LEValue(t) - WORD
    BY <1>1, EncodingAssumption
<1> HIDE DEF d, k, n, o, u, t
<1>8. /\ all \in Seq(Cell) /\ Len(all) = p + 4 * WIDTH
      /\ Slice(all, 0, Len(d)) = d
      /\ Slice(all, Len(d), Len(k)) = k
      /\ Slice(all, p, WIDTH) = n
      /\ Slice(all, p + WIDTH, WIDTH) = o
      /\ Slice(all, p + 2 * WIDTH, WIDTH) = u
      /\ Slice(all, p + 3 * WIDTH, WIDTH) = t
    <2>1. InPlace(d, k, n, o, u, t)
        BY <1>3, <1>4, <1>5, SixFields
    <2> QED
        BY <2>1 DEF InPlace
<1> HIDE DEF all, p
<1>9. Len(d) = Len(STATE_DOMAIN) /\ p = Len(STATE_DOMAIN) + PUBKEY_SIZE
    BY <1>4 DEF d, p
<1>10. FromMessageBytes(all) =
          [domain |-> d, session |-> k, nonce |-> s.nonce,
           owed_to_provider |-> s.owedToProvider, units_consumed |-> s.unitsConsumed,
           timestamp |-> s.timestamp]
    BY <1>4, <1>7, <1>8, <1>9 DEF FromMessageBytes, ReadU64, ReadI64
<1>11. FromMessageBytes(all) = ToAnchorArg(s)
    BY <1>10 DEF ToAnchorArg, d, k
<1>12. Len(all) = MESSAGE_LEN
    BY <1>8, <1>9 DEF MESSAGE_LEN
<1> QED
    BY <1>6, <1>8, <1>11, <1>12

\* Two states with the same bytes are the same state.
LEMMA SerializeInjective ==
    ASSUME NEW r \in ClientState, NEW s \in ClientState,
           SerializeState(r) = SerializeState(s)
    PROVE  r = s
<1>1. ToAnchorArg(r) = ToAnchorArg(s)
    BY RoundTrip
<1>2. /\ r.session = s.session /\ r.nonce = s.nonce /\ r.owedToProvider = s.owedToProvider
      /\ r.unitsConsumed = s.unitsConsumed /\ r.timestamp = s.timestamp
    <2> DEFINE ar == ToAnchorArg(r)
               as == ToAnchorArg(s)
    <2>1. /\ ar.session = r.session /\ ar.nonce = r.nonce
          /\ ar.owed_to_provider = r.owedToProvider
          /\ ar.units_consumed = r.unitsConsumed /\ ar.timestamp = r.timestamp
        BY DEF ToAnchorArg
    <2>2. /\ as.session = s.session /\ as.nonce = s.nonce
          /\ as.owed_to_provider = s.owedToProvider
          /\ as.units_consumed = s.unitsConsumed /\ as.timestamp = s.timestamp
        BY DEF ToAnchorArg
    <2> QED
        BY <1>1, <2>1, <2>2
<1> QED
    BY <1>2 DEF ClientState

-----------------------------------------------------------------------------
(***************************************************************************)
(* The transaction.                                                        *)
(***************************************************************************)

\* The instructions a client puts beside the program's own.
Beside == Instructions \cup
    {Ed25519VerifyIx(key, SerializeState(s), SigOf(key, SerializeState(s))) :
        key \in Keys, s \in Updates}

\* Both kinds of instruction begin with the number of their signatures.
LEMMA CountIsNat ==
    ASSUME NEW ix \in Beside, ix.program = Ed25519Program
    PROVE  ix.data[1] \in Nat
<1>1. CASE ix \in Instructions
    <2>1. ix.data \in Seq(Bytes) /\ Len(ix.data) >= HEADER
        BY <1>1, CosigningAssumption
    <2>2. 1 \in 1..Len(ix.data)
        BY <2>1, LenProperties DEF HEADER
    <2>3. ix.data[1] \in Bytes
        BY <2>1, <2>2, ElementOfSeq
    <2> QED
        BY <2>3, MessageAssumption DEF Bytes
<1>2. ASSUME NEW key \in Keys, NEW s \in Updates,
             ix = Ed25519VerifyIx(key, SerializeState(s), SigOf(key, SerializeState(s)))
      PROVE  ix.data[1] \in Nat
    <2> DEFINE m == SerializeState(s)
               sig == SigOf(key, m)
               head == <<1, 0>>
               a == U16le(HEADER + OFFSETS_SIZE + PUBKEY_SIZE)
               i == U16le(SENTINEL)
               b == U16le(HEADER + OFFSETS_SIZE)
               c == U16le(HEADER + OFFSETS_SIZE + PUBKEY_SIZE + SIG_SIZE)
               l == U16le(Len(m))
    <2>1. ix.data = head \o a \o i \o b \o i \o c \o l \o i \o key \o sig \o m
        <3>1. ix = CreateInstruction(key, m, sig, SENTINEL)
            BY <1>2 DEF Ed25519VerifyIx
        <3>2. CreateInstruction(key, m, sig, SENTINEL).data
                 = head \o a \o i \o b \o i \o c \o l \o i \o key \o sig \o m
            BY DEF CreateInstruction
        <3> QED
            BY <3>1, <3>2
    <2>2. m \in Seq(Cell) /\ Len(m) \in Nat
        BY CosigningAssumption, RoundTrip, LenProperties
    <2>3. key \in Seq(Cell)
        BY CosigningAssumption, MessageAssumption DEF Pubkey, Bytes, Cell
    <2>4. sig \in Seq(Cell)
        BY CosigningAssumption, BindingAssumption, MessageAssumption DEF Bytes, Cell
    <2>5. \A v \in Int : U16le(v) \in Seq(Cell)
        BY MessageAssumption DEF U16le, Cell
    <2>6. SENTINEL \in Int /\ HEADER \in Int /\ OFFSETS_SIZE \in Int
          /\ PUBKEY_SIZE \in Int /\ SIG_SIZE \in Int
        BY MessageAssumption, BindingAssumption DEF SENTINEL, HEADER, OFFSETS_SIZE
    <2>7. a \in Seq(Cell) /\ i \in Seq(Cell) /\ b \in Seq(Cell) /\ c \in Seq(Cell)
          /\ l \in Seq(Cell)
        <3>1. /\ HEADER + OFFSETS_SIZE \in Int
              /\ HEADER + OFFSETS_SIZE + PUBKEY_SIZE \in Int
              /\ HEADER + OFFSETS_SIZE + PUBKEY_SIZE + SIG_SIZE \in Int
              /\ Len(m) \in Int /\ SENTINEL \in Int
            BY <2>2, <2>6
        <3> HIDE DEF m
        <3> QED
            BY <3>1, <2>5
    <2>8. head \in Seq(Cell) /\ head[1] = 1 /\ Len(head) = 2
        BY DEF Cell
    <2> HIDE DEF m, sig, head, a, i, b, c, l
    <2>9. \A x, y \in Seq(Cell) :
             Len(x) >= 2 /\ x[1] = 1
             => x \o y \in Seq(Cell) /\ Len(x \o y) >= 2 /\ (x \o y)[1] = 1
        <3> SUFFICES ASSUME NEW x \in Seq(Cell), NEW y \in Seq(Cell), Len(x) >= 2, x[1] = 1
                     PROVE  x \o y \in Seq(Cell) /\ Len(x \o y) >= 2 /\ (x \o y)[1] = 1
            OBVIOUS
        <3> QED
            BY ConcatProperties, LenProperties
    <2> DEFINE Good(x) == x \in Seq(Cell) /\ Len(x) >= 2 /\ x[1] = 1
    <2>10. \A x, y : Good(x) /\ y \in Seq(Cell) => Good(x \o y)
        BY <2>9
    <2>11. Good(head)
        BY <2>8
    <2> HIDE DEF Good
    <2>12. Good(head \o a \o i \o b)
        BY <2>7, <2>10, <2>11
    <2>13. Good(head \o a \o i \o b \o i \o c \o l)
        BY <2>7, <2>10, <2>12
    <2>14. Good(head \o a \o i \o b \o i \o c \o l \o i \o key \o sig \o m)
        BY <2>2, <2>3, <2>4, <2>7, <2>10, <2>13
    <2> QED
        BY <2>1, <2>14 DEF Good
<1> QED
    BY <1>1, <1>2 DEF Beside

LEMMA ConcatPrefix ==
    ASSUME NEW S, NEW x \in Seq(S), NEW y \in Seq(S), NEW i \in 1..Len(x)
    PROVE  /\ x \o y \in Seq(S)
           /\ Len(x \o y) = Len(x) + Len(y)
           /\ (x \o y)[i] = x[i]
<1>1. Len(x) \in Nat /\ Len(y) \in Nat
    BY LenProperties
<1>2. i \in 1..(Len(x) + Len(y)) /\ i <= Len(x)
    BY <1>1
<1> QED
    BY <1>2, ConcatProperties

\* The instructions the program searches are the client's first ones.
LEMMA SearchedAreBeside ==
    ASSUME tx \in Seq(Beside), NEW s, NEW current \in 0..Len(tx), NEW i \in 1..current
    PROVE  /\ i \in 1..Len(Whole(s, current))
           /\ Whole(s, current)[i] = tx[i] /\ Whole(s, current)[i] \in Beside
<1> DEFINE own == [program |-> SolMeshProgram, data |-> EncodeArg(ToAnchorArg(s))]
           S == Beside \cup {own}
           before == SubSeq(tx, 1, current)
           after == SubSeq(tx, current + 1, Len(tx))
<1>1. tx \in Seq(S) /\ Len(tx) \in Nat
    BY SeqMonotonic, LenProperties
<1>2. \A j \in 1..Len(tx) : tx[j] \in S /\ tx[j] \in Beside
    BY <1>1, ElementOfSeq
<1>3. /\ before \in Seq(S) /\ Len(before) = current
      /\ \A j \in 1..current : before[j] = tx[j]
    <2>1. 1 \in Int /\ current \in Int /\ \A j \in 1..current : tx[j] \in S
        BY <1>1, <1>2
    <2> HIDE DEF S
    <2>2. /\ before \in Seq(S)
          /\ Len(before) = IF 1 <= current THEN current - 1 + 1 ELSE 0
          /\ \A j \in 1..current - 1 + 1 : before[j] = tx[1 + j - 1]
        BY <2>1, SubSeqProperties
    <2> QED
        BY <2>2, <1>1
<1>4. after \in Seq(S)
    <2>1. /\ current + 1 \in Int /\ Len(tx) \in Int
          /\ \A j \in (current + 1)..Len(tx) : tx[j] \in S
        BY <1>1, <1>2
    <2> HIDE DEF S
    <2> QED
        BY <2>1, SubSeqProperties
<1>5. <<own>> \in Seq(S) /\ Len(<<own>>) = 1
    BY DEF S
<1> HIDE DEF before, after, own, S
<1>6. /\ before \o <<own>> \in Seq(S) /\ Len(before \o <<own>>) = current + 1
      /\ (before \o <<own>>)[i] = tx[i]
    <2> DEFINE middle == <<own>>
    <2>1. middle \in Seq(S) /\ Len(middle) = 1
        BY <1>5
    <2>2. i \in 1..Len(before)
        BY <1>3
    <2> HIDE DEF middle
    <2>3. /\ before \o middle \in Seq(S)
          /\ Len(before \o middle) = Len(before) + Len(middle)
          /\ (before \o middle)[i] = before[i]
        BY <2>1, <2>2, <1>3, ConcatPrefix
    <2>4. /\ Len(before \o middle) = current + 1
          /\ (before \o middle)[i] = tx[i]
        BY <2>1, <2>3, <1>3
    <2> QED
        BY <2>3, <2>4 DEF middle
<1>7. /\ Len((before \o <<own>>) \o after) = current + 1 + Len(after)
      /\ ((before \o <<own>>) \o after)[i] = tx[i]
    <2> DEFINE front == before \o <<own>>
    <2>1. front \in Seq(S) /\ Len(front) = current + 1 /\ front[i] = tx[i]
        BY <1>6
    <2>2. Len(after) \in Nat
        BY <1>4, LenProperties
    <2> HIDE DEF front
    <2>3. Len(front \o after) = current + 1 + Len(after) /\ (front \o after)[i] = tx[i]
        <3>1. i \in 1..Len(front)
            BY <2>1
        <3>2. /\ Len(front \o after) = Len(front) + Len(after)
              /\ (front \o after)[i] = front[i]
            BY <2>1, <3>1, <1>4, ConcatPrefix
        <3> QED
            BY <2>1, <3>2
    <2> QED
        BY <2>3 DEF front
<1>8. Whole(s, current) = (before \o <<own>>) \o after
    BY DEF Whole, before, after, own
<1>9. Len(after) \in Nat
    BY <1>4, LenProperties
<1> QED
    BY <1>1, <1>2, <1>7, <1>8, <1>9

\* The heart of it: an entry the program accepts is one the precompile has
\* verified over the same bytes, because all its indices name its own
\* instruction.
LEMMA BindingIsSignature ==
    ASSUME tx \in Seq(Beside), NEW s, NEW current \in 0..Len(tx), NEW pk, NEW msg,
           PrecompilePasses(Whole(s, current), Signed),
           VerifyEd25519Signature(Whole(s, current), current, pk, msg)
    PROVE  <<pk, msg>> \in Signed
<1> DEFINE whole == Whole(s, current)
<1>1. PICK i \in 1..current :
          whole[i].program = Ed25519Program /\ CheckEd25519Data(whole[i].data, pk, msg)
    BY DEF VerifyEd25519Signature
<1>2. i \in 1..Len(whole) /\ whole[i] \in Beside
    BY SearchedAreBeside
<1>3. whole[i].data[1] \in Nat
    BY <1>1, <1>2, CountIsNat
<1> DEFINE data == whole[i].data
           e == Entry(data, 0)
<1>4. data[1] >= 1
    BY <1>1 DEF CheckEd25519Data
<1>5. 0 \in 0..(data[1] - 1)
    BY <1>3, <1>4
<1> HIDE DEF whole
<1>6. EntryVerified(whole, i, e, Signed)
    BY <1>1, <1>2, <1>5 DEF PrecompilePasses, whole
<1> HIDE DEF e
<1>7. /\ e.pk_ix_idx = SENTINEL /\ e.msg_ix_idx = SENTINEL
      /\ Slice(data, e.pk_offset, PUBKEY_SIZE) = pk
      /\ e.msg_size = Len(msg)
      /\ Slice(data, e.msg_offset, e.msg_size) = msg
    BY <1>1 DEF CheckEd25519Data, e
<1>8. Source(whole, i, e.pk_ix_idx) = data /\ Source(whole, i, e.msg_ix_idx) = data
    BY <1>7 DEF Source
<1> QED
    BY <1>6, <1>7, <1>8 DEF EntryVerified

-----------------------------------------------------------------------------
(***************************************************************************)
(* The inductive invariant: only listed instructions are assembled, only   *)
(* listed keys sign listed states, and every accepted state is the image   *)
(* of one listed state that its two parties have signed.                   *)
(***************************************************************************)
CosigningInv ==
    /\ tx \in Seq(Beside)
    /\ agreed \subseteq Keys \X Updates
    /\ \A a \in accepted : \E s \in Updates :
          /\ s.session \in Sessions
          /\ a = <<s.session, ToAnchorArg(s)>>
          /\ <<ProviderOf[s.session], s>> \in agreed
          /\ <<ConsumerOf[s.session], s>> \in agreed

\* A key that signed the bytes of a state agreed to that very state.
LEMMA SignedIsAgreed ==
    ASSUME CosigningInv, NEW key, NEW s \in Updates,
           <<key, ToMessageBytes(ToAnchorArg(s))>> \in Signed
    PROVE  <<key, s>> \in agreed
<1>1. PICK a \in agreed : <<key, ToMessageBytes(ToAnchorArg(s))>> = <<a[1], SerializeState(a[2])>>
    BY DEF Signed
<1>2. a \in Keys \X Updates
    BY <1>1 DEF CosigningInv
<1>3. a[2] \in ClientState /\ s \in ClientState /\ a[2] \in Updates
    BY <1>2, CosigningAssumption
<1>4. SerializeState(a[2]) = SerializeState(s)
    BY <1>1, <1>3, RoundTrip
<1>5. a[2] = s
    BY <1>3, <1>4, SerializeInjective
<1> QED
    BY <1>1, <1>2, <1>5

LEMMA CosigningInvStep == CosigningInv /\ [Next]_vars => CosigningInv'
<1> SUFFICES ASSUME CosigningInv, [Next]_vars PROVE CosigningInv'
    OBVIOUS
<1> USE DEF CosigningInv
<1>1. ASSUME NEW key \in Keys, NEW s \in Updates, Sign(key, s) PROVE CosigningInv'
    <2>1. agreed' = agreed \cup {<<key, s>>} /\ tx' = tx /\ accepted' = accepted
        BY <1>1 DEF Sign
    <2>2. agreed' \subseteq Keys \X Updates /\ agreed \subseteq agreed'
        BY <2>1
    <2> QED
        BY <2>1, <2>2
<1>2. ASSUME NEW key \in Keys, NEW s \in Updates, AddSignature(key, s) PROVE CosigningInv'
    <2> DEFINE ix == Ed25519VerifyIx(key, SerializeState(s), SigOf(key, SerializeState(s)))
    <2>1. ix \in Beside
        BY DEF Beside
    <2>2. tx' = Append(tx, ix) /\ UNCHANGED <<agreed, accepted>>
        BY <1>2 DEF AddSignature
    <2> HIDE DEF ix
    <2>3. tx' \in Seq(Beside)
        BY <2>1, <2>2, AppendProperties
    <2> QED
        BY <2>2, <2>3
<1>3. ASSUME NEW ix \in Instructions, AddInstruction(ix) PROVE CosigningInv'
    <2>1. ix \in Beside
        BY DEF Beside
    <2>2. tx' \in Seq(Beside)
        BY <1>3, <2>1, AppendProperties DEF AddInstruction
    <2> QED
        BY <1>3, <2>2 DEF AddInstruction
<1>4. ASSUME NEW session \in Sessions, NEW s \in Updates, NEW current \in 0..Len(tx),
             Execute(session, s, current)
      PROVE  CosigningInv'
    <2> DEFINE state == FromMessageBytes(EncodeArg(ToAnchorArg(s)))
    <2>1. /\ accepted' = accepted \cup {<<session, state>>}
          /\ tx' = <<>> /\ agreed' = agreed
          /\ PrecompilePasses(Whole(s, current), Signed)
          /\ VerifyCosignedState(session, state, Whole(s, current), current)
        BY <1>4 DEF Execute, Accepts
    <2>2. state = ToAnchorArg(s)
        BY CosigningAssumption, RoundTrip
    <2> HIDE DEF state
    <2>3. state.session = s.session
        BY <2>2 DEF ToAnchorArg
    <2>4. /\ state.session = session
          /\ VerifyEd25519Signature(Whole(s, current), current,
                                    ProviderOf[session], ToMessageBytes(state))
          /\ VerifyEd25519Signature(Whole(s, current), current,
                                    ConsumerOf[session], ToMessageBytes(state))
        BY <2>1 DEF VerifyCosignedState
    <2>5. /\ <<ProviderOf[session], ToMessageBytes(state)>> \in Signed
          /\ <<ConsumerOf[session], ToMessageBytes(state)>> \in Signed
        BY <2>1, <2>4, BindingIsSignature
    <2>6. <<ProviderOf[session], s>> \in agreed /\ <<ConsumerOf[session], s>> \in agreed
        BY <2>2, <2>5, SignedIsAgreed
    <2>7. <<>> \in Seq(Beside)
        BY EmptySeq
    <2> QED
        BY <2>1, <2>2, <2>3, <2>4, <2>6, <2>7
<1>5. CASE Discard
    BY <1>5, EmptySeq DEF Discard
<1>6. CASE UNCHANGED vars
    BY <1>6 DEF vars
<1> QED
    BY <1>1, <1>2, <1>3, <1>4, <1>5, <1>6 DEF Next

LEMMA CosigningInvariant == Spec => []CosigningInv
<1>1. Init => CosigningInv
    BY EmptySeq DEF Init, CosigningInv
<1> QED
    BY <1>1, CosigningInvStep, PTL DEF Spec

\* Every state the program accepts for a session was signed, byte for byte, by
\* both its parties: ed25519.rs's introspection is sound, for transactions of
\* any length and whatever instructions they carry.
THEOREM IntrospectionSound == Spec => []AcceptedWasSigned
<1>1. CosigningInv => AcceptedWasSigned
    <2> SUFFICES ASSUME CosigningInv, NEW a \in accepted,
                        NEW key \in {ProviderOf[a[1]], ConsumerOf[a[1]]}
                 PROVE  <<key, ToMessageBytes(a[2])>> \in Signed
        BY DEF AcceptedWasSigned
    <2>1. PICK s \in Updates :
              /\ a = <<s.session, ToAnchorArg(s)>>
              /\ <<ProviderOf[s.session], s>> \in agreed
              /\ <<ConsumerOf[s.session], s>> \in agreed
        BY DEF CosigningInv
    <2>2. <<key, s>> \in agreed
        BY <2>1
    <2>3. SerializeState(s) = ToMessageBytes(a[2])
        BY <2>1, CosigningAssumption, RoundTrip
    <2>4. <<key, SerializeState(s)>> \in Signed
        BY <2>2 DEF Signed
    <2> QED
        BY <2>3, <2>4
<1> QED
    BY <1>1, CosigningInvariant, PTL

\* And it is, field by field, a state both parties agreed to for that session.
THEOREM AcceptedIsAgreed == Spec => []AcceptedWasAgreed
<1>1. CosigningInv => AcceptedWasAgreed
    <2> SUFFICES ASSUME CosigningInv, NEW a \in accepted
                 PROVE  \E s \in Updates :
                           /\ s.session = a[1]
                           /\ ToAnchorArg(s) = a[2]
                           /\ {ProviderOf[a[1]], ConsumerOf[a[1]]} \X {s} \subseteq agreed
        BY DEF AcceptedWasAgreed
    <2>1. PICK s \in Updates :
              /\ a = <<s.session, ToAnchorArg(s)>>
              /\ <<ProviderOf[s.session], s>> \in agreed
              /\ <<ConsumerOf[s.session], s>> \in agreed
        BY DEF CosigningInv
    <2>2. {ProviderOf[a[1]], ConsumerOf[a[1]]} \X {s} \subseteq agreed
        BY <2>1
    <2> QED
        BY <2>1, <2>2
<1> QED
    BY <1>1, CosigningInvariant, PTL

-----------------------------------------------------------------------------
(***************************************************************************)
(* Completeness: the instruction the client builds is one the program      *)
(* recognises, at the offsets the client wrote into it.                    *)
(***************************************************************************)

LEMMA U16RoundTrip ==
    ASSUME NEW v \in 0..SENTINEL
    PROVE  /\ U16le(v) \in Seq(Cell) /\ Len(U16le(v)) = 2
           /\ U16le(v)[1] + BYTE * U16le(v)[2] = v
<1>1. v \in Int /\ BYTE \in Nat \ {0}
    BY MessageAssumption DEF SENTINEL
<1>2. (v % BYTE) + BYTE * (v \div BYTE) = v
    BY <1>1
<1>3. v % BYTE \in Cell /\ v \div BYTE \in Cell
    BY <1>1 DEF Cell
<1> QED
    BY <1>2, <1>3 DEF U16le

\* y begins with x: its first byte and all numbers in x are where they were.
Extends(y, x) ==
    /\ x \in Seq(Cell) /\ y \in Seq(Cell) /\ Len(x) <= Len(y)
    /\ Len(x) >= 1 /\ y[1] = x[1]
    /\ \A at \in Nat : at + 2 <= Len(x) => ReadU16(y, at) = ReadU16(x, at)

LEMMA ConcatExtends ==
    ASSUME NEW x \in Seq(Cell), NEW y \in Seq(Cell), Len(x) >= 1
    PROVE  Extends(x \o y, x) /\ Len(x \o y) = Len(x) + Len(y)
<1>1. /\ x \o y \in Seq(Cell) /\ Len(x \o y) = Len(x) + Len(y)
      /\ Len(x) \in Nat /\ Len(y) \in Nat
    BY ConcatProperties, LenProperties
<1>2. \A i \in 1..Len(x) : (x \o y)[i] = x[i]
    BY ConcatPrefix
<1> QED
    BY <1>1, <1>2 DEF Extends, ReadU16

LEMMA ExtendsTransitive ==
    ASSUME NEW x, NEW y, NEW z, Extends(y, x), Extends(z, y)
    PROVE  Extends(z, x)
<1>1. Len(x) \in Nat /\ Len(y) \in Nat /\ Len(z) \in Nat
    BY LenProperties DEF Extends
<1> QED
    BY <1>1 DEF Extends

\* A number appended to x is read at the end of x.
LEMMA NumberAppended ==
    ASSUME NEW n \in Nat \ {0}, NEW x \in Seq(Cell), Len(x) = n, NEW v \in 0..SENTINEL
    PROVE  /\ x \o U16le(v) \in Seq(Cell) /\ Len(x \o U16le(v)) = n + 2
           /\ Extends(x \o U16le(v), x) /\ ReadU16(x \o U16le(v), n) = v
<1> DEFINE y == U16le(v)
<1>1. y \in Seq(Cell) /\ Len(y) = 2 /\ y[1] + BYTE * y[2] = v
    BY U16RoundTrip
<1> HIDE DEF y
<1>2. x \o y \in Seq(Cell) /\ Len(x \o y) = n + 2 /\ Extends(x \o y, x)
    <2>1. Len(x) >= 1
        OBVIOUS
    <2>2. Extends(x \o y, x) /\ Len(x \o y) = Len(x) + Len(y)
        BY <1>1, <2>1, ConcatExtends, Zenon
    <2>3. x \o y \in Seq(Cell)
        BY <1>1, ConcatProperties
    <2> QED
        BY <1>1, <2>2, <2>3
<1>3. (x \o y)[n + 1] = y[1] /\ (x \o y)[n + 2] = y[2]
    BY <1>1, <1>2, ConcatProperties
<1>4. ReadU16(x \o y, n) = v
    BY <1>1, <1>3, Zenon DEF ReadU16
<1> QED
    BY <1>2, <1>4 DEF y

Header(a, b, c, l, i) ==
    <<1, 0>> \o U16le(a) \o U16le(i) \o U16le(b) \o U16le(i) \o U16le(c) \o U16le(l) \o U16le(i)

\* The seven numbers of an entry are read where they are written.
LEMMA HeaderRead ==
    ASSUME NEW a, NEW b, NEW c, NEW l, NEW i, NEW h, h = Header(a, b, c, l, i),
           {a, b, c, l, i} \subseteq 0..SENTINEL
    PROVE  /\ h \in Seq(Cell) /\ Len(h) = 16 /\ h[1] = 1
           /\ ReadU16(h, 2) = a /\ ReadU16(h, 4) = i /\ ReadU16(h, 6) = b
           /\ ReadU16(h, 8) = i /\ ReadU16(h, 10) = c /\ ReadU16(h, 12) = l
           /\ ReadU16(h, 14) = i
<1> DEFINE h0 == <<1, 0>>
           h1 == h0 \o U16le(a)
           h2 == h1 \o U16le(i)
           h3 == h2 \o U16le(b)
           h4 == h3 \o U16le(i)
           h5 == h4 \o U16le(c)
           h6 == h5 \o U16le(l)
           h7 == h6 \o U16le(i)
<1>0. /\ h0 \in Seq(Cell) /\ Len(h0) = 2 /\ h0[1] = 1
      /\ a \in 0..SENTINEL /\ b \in 0..SENTINEL /\ c \in 0..SENTINEL
      /\ l \in 0..SENTINEL /\ i \in 0..SENTINEL
    BY DEF Cell
<1> HIDE DEF h0
<1>1. h1 \in Seq(Cell) /\ Len(h1) = 4 /\ Extends(h1, h0) /\ ReadU16(h1, 2) = a
    <2>1. 2 \in Nat \ {0}
        OBVIOUS
    <2>2. h1 \in Seq(Cell) /\ Len(h1) = 2 + 2 /\ Extends(h1, h0) /\ ReadU16(h1, 2) = a
        BY <1>0, <2>1, NumberAppended, Zenon
    <2> QED
        BY <2>2
<1> HIDE DEF h1
<1>2. h2 \in Seq(Cell) /\ Len(h2) = 6 /\ Extends(h2, h1) /\ ReadU16(h2, 4) = i
    <2>1. 4 \in Nat \ {0}
        OBVIOUS
    <2>2. h2 \in Seq(Cell) /\ Len(h2) = 4 + 2 /\ Extends(h2, h1) /\ ReadU16(h2, 4) = i
        BY <1>0, <1>1, <2>1, NumberAppended, Zenon
    <2> QED
        BY <2>2
<1> HIDE DEF h2
<1>3. h3 \in Seq(Cell) /\ Len(h3) = 8 /\ Extends(h3, h2) /\ ReadU16(h3, 6) = b
    <2>1. 6 \in Nat \ {0}
        OBVIOUS
    <2>2. h3 \in Seq(Cell) /\ Len(h3) = 6 + 2 /\ Extends(h3, h2) /\ ReadU16(h3, 6) = b
        BY <1>0, <1>2, <2>1, NumberAppended, Zenon
    <2> QED
        BY <2>2
<1> HIDE DEF h3
<1>4. h4 \in Seq(Cell) /\ Len(h4) = 10 /\ Extends(h4, h3) /\ ReadU16(h4, 8) = i
    <2>1. 8 \in Nat \ {0}
        OBVIOUS
    <2>2. h4 \in Seq(Cell) /\ Len(h4) = 8 + 2 /\ Extends(h4, h3) /\ ReadU16(h4, 8) = i
        BY <1>0, <1>3, <2>1, NumberAppended, Zenon
    <2> QED
        BY <2>2
<1> HIDE DEF h4
<1>5. h5 \in Seq(Cell) /\ Len(h5) = 12 /\ Extends(h5, h4) /\ ReadU16(h5, 10) = c
    <2>1. 10 \in Nat \ {0}
        OBVIOUS
    <2>2. h5 \in Seq(Cell) /\ Len(h5) = 10 + 2 /\ Extends(h5, h4) /\ ReadU16(h5, 10) = c
        BY <1>0, <1>4, <2>1, NumberAppended, Zenon
    <2> QED
        BY <2>2
<1> HIDE DEF h5
<1>6. h6 \in Seq(Cell) /\ Len(h6) = 14 /\ Extends(h6, h5) /\ ReadU16(h6, 12) = l
    <2>1. 12 \in Nat \ {0}
        OBVIOUS
    <2>2. h6 \in Seq(Cell) /\ Len(h6) = 12 + 2 /\ Extends(h6, h5) /\ ReadU16(h6, 12) = l
        BY <1>0, <1>5, <2>1, NumberAppended, Zenon
    <2> QED
        BY <2>2
<1> HIDE DEF h6
<1>7. h7 \in Seq(Cell) /\ Len(h7) = 16 /\ Extends(h7, h6) /\ ReadU16(h7, 14) = i
    <2>1. 14 \in Nat \ {0}
        OBVIOUS
    <2>2. h7 \in Seq(Cell) /\ Len(h7) = 14 + 2 /\ Extends(h7, h6) /\ ReadU16(h7, 14) = i
        BY <1>0, <1>6, <2>1, NumberAppended, Zenon
    <2> QED
        BY <2>2
<1>8. Header(a, b, c, l, i) = h7
    BY DEF Header, h0, h1, h2, h3, h4, h5, h6
<1> HIDE DEF h7
<1>9. Extends(h7, h5) /\ Extends(h7, h4) /\ Extends(h7, h3) /\ Extends(h7, h2)
      /\ Extends(h7, h1) /\ Extends(h7, h0)
    <2>1. Extends(h7, h5)
        BY <1>6, <1>7, ExtendsTransitive
    <2>2. Extends(h7, h4)
        BY <1>5, <2>1, ExtendsTransitive
    <2>3. Extends(h7, h3)
        BY <1>4, <2>2, ExtendsTransitive
    <2>4. Extends(h7, h2)
        BY <1>3, <2>3, ExtendsTransitive
    <2>5. Extends(h7, h1)
        BY <1>2, <2>4, ExtendsTransitive
    <2>6. Extends(h7, h0)
        BY <1>1, <2>5, ExtendsTransitive
    <2> QED
        BY <2>1, <2>2, <2>3, <2>4, <2>5, <2>6
<1>10. h7[1] = 1
    BY <1>0, <1>9 DEF Extends
<1>11. /\ ReadU16(h7, 2) = a /\ ReadU16(h7, 4) = i /\ ReadU16(h7, 6) = b
       /\ ReadU16(h7, 8) = i /\ ReadU16(h7, 10) = c /\ ReadU16(h7, 12) = l
    BY <1>1, <1>2, <1>3, <1>4, <1>5, <1>6, <1>7, <1>9 DEF Extends
<1> QED
    BY <1>7, <1>8, <1>10, <1>11

\* What cosignIxs builds for a key and a message passes check_ed25519_data for
\* that key and message.
LEMMA BuiltIsRecognised ==
    ASSUME NEW key \in Seq(Cell), Len(key) = PUBKEY_SIZE,
           NEW sig \in Seq(Cell), Len(sig) = SIG_SIZE,
           NEW msg \in Seq(Cell), Len(msg) = MESSAGE_LEN
    PROVE  CheckEd25519Data(Ed25519VerifyIx(key, msg, sig).data, key, msg)
<1> DEFINE b == HEADER + OFFSETS_SIZE
           a == b + PUBKEY_SIZE
           c == a + SIG_SIZE
           h == Header(a, b, c, MESSAGE_LEN, SENTINEL)
           h8 == h \o key
           h9 == h8 \o sig
           data == h9 \o msg
<1>1. /\ PUBKEY_SIZE \in Nat /\ SIG_SIZE \in Nat /\ MESSAGE_LEN \in Nat
      /\ SENTINEL \in Nat /\ b = 16 /\ c + MESSAGE_LEN < SENTINEL
    <2>1. MESSAGE_LEN \in Nat
        BY LenProperties
    <2>2. SENTINEL \in Int
        BY MessageAssumption DEF SENTINEL
    <2>3. b = 16
        BY DEF HEADER, OFFSETS_SIZE
    <2> HIDE DEF b
    <2>4. c + MESSAGE_LEN < SENTINEL
        BY <2>1, <2>2, <2>3, BindingAssumption, MessageAssumption DEF b
    <2> QED
        BY <2>1, <2>2, <2>3, <2>4, BindingAssumption, MessageAssumption
<1>2. /\ a \in 0..SENTINEL /\ b \in 0..SENTINEL /\ c \in 0..SENTINEL
      /\ MESSAGE_LEN \in 0..SENTINEL /\ SENTINEL \in 0..SENTINEL
    BY <1>1
<1>3. Ed25519VerifyIx(key, msg, sig).data = data
    BY DEF Ed25519VerifyIx, CreateInstruction, Header
<1>4. a = 16 + PUBKEY_SIZE /\ c = 16 + PUBKEY_SIZE + SIG_SIZE
    BY <1>1
<1> HIDE DEF a, b, c
<1>5. /\ h \in Seq(Cell) /\ Len(h) = 16 /\ h[1] = 1
      /\ ReadU16(h, 2) = a /\ ReadU16(h, 4) = SENTINEL /\ ReadU16(h, 6) = b
      /\ ReadU16(h, 8) = SENTINEL /\ ReadU16(h, 10) = c /\ ReadU16(h, 12) = MESSAGE_LEN
      /\ ReadU16(h, 14) = SENTINEL
    <2>1. h = Header(a, b, c, MESSAGE_LEN, SENTINEL)
        OBVIOUS
    <2>2. {a, b, c, MESSAGE_LEN, SENTINEL} \subseteq 0..SENTINEL
        BY <1>2
    <2> HIDE DEF h
    <2> QED
        BY <2>1, <2>2, HeaderRead
<1> HIDE DEF h
<1>6. h8 \in Seq(Cell) /\ Len(h8) = a /\ Extends(h8, h)
    <2>0. Len(h) >= 1
        BY <1>5
    <2>1. Extends(h8, h) /\ Len(h8) = Len(h) + Len(key)
        BY <1>5, <2>0, ConcatExtends, Zenon
    <2> QED
        BY <1>4, <1>5, <2>1 DEF Extends
<1>7. h9 \in Seq(Cell) /\ Len(h9) = c /\ Extends(h9, h8)
    <2>0. Len(h8) >= 1
        BY <1>1, <1>4, <1>6
    <2>1. Extends(h9, h8) /\ Len(h9) = Len(h8) + Len(sig)
        BY <1>6, <2>0, ConcatExtends, Zenon
    <2> QED
        BY <1>4, <1>6, <2>1 DEF Extends
<1>8. data \in Seq(Cell) /\ Len(data) = c + MESSAGE_LEN /\ Extends(data, h9)
    <2>0. Len(h9) >= 1
        BY <1>1, <1>4, <1>7
    <2>1. Extends(data, h9) /\ Len(data) = Len(h9) + Len(msg)
        BY <1>7, <2>0, ConcatExtends, Zenon
    <2> QED
        BY <1>7, <2>1 DEF Extends
<1>9. Slice(data, b, PUBKEY_SIZE) = key
    <2>1. Slice(h8, Len(h), Len(key)) = key
        BY <1>5, SliceOfSuffix
    <2>2. /\ b \in Nat /\ PUBKEY_SIZE \in Nat
          /\ b + PUBKEY_SIZE <= Len(h8) /\ b + PUBKEY_SIZE <= Len(h9)
        BY <1>1, <1>4, <1>6, <1>7
    <2>3. Slice(h9, b, PUBKEY_SIZE) = Slice(h8, b, PUBKEY_SIZE)
        BY <1>6, <2>2, SliceOfPrefix, Zenon
    <2>4. Slice(data, b, PUBKEY_SIZE) = Slice(h9, b, PUBKEY_SIZE)
        BY <1>7, <2>2, SliceOfPrefix, Zenon
    <2> QED
        BY <1>1, <1>5, <2>1, <2>3, <2>4
<1>10. Slice(data, c, MESSAGE_LEN) = msg
    <2>1. Slice(data, Len(h9), Len(msg)) = msg
        BY <1>7, SliceOfSuffix
    <2> QED
        BY <1>7, <2>1
<1> HIDE DEF h8, h9, data
<1>11. Extends(data, h)
    BY <1>6, <1>7, <1>8, ExtendsTransitive
<1>12. /\ data[1] = 1
       /\ ReadU16(data, 2) = a /\ ReadU16(data, 4) = SENTINEL /\ ReadU16(data, 6) = b
       /\ ReadU16(data, 8) = SENTINEL /\ ReadU16(data, 10) = c
       /\ ReadU16(data, 12) = MESSAGE_LEN /\ ReadU16(data, 14) = SENTINEL
    BY <1>5, <1>11 DEF Extends
<1>13. Entry(data, 0) = [sig_offset |-> a, sig_ix_idx |-> SENTINEL, pk_offset |-> b,
                         pk_ix_idx |-> SENTINEL, msg_offset |-> c,
                         msg_size |-> MESSAGE_LEN, msg_ix_idx |-> SENTINEL]
    BY <1>12 DEF Entry, HEADER, OFFSETS_SIZE
<1> DEFINE e == Entry(data, 0)
<1>14. /\ e.sig_offset = a /\ e.pk_offset = b /\ e.msg_offset = c /\ e.msg_size = MESSAGE_LEN
       /\ e.sig_ix_idx = SENTINEL /\ e.pk_ix_idx = SENTINEL /\ e.msg_ix_idx = SENTINEL
    BY <1>13
<1>15. /\ Len(data) >= HEADER + OFFSETS_SIZE
       /\ b + PUBKEY_SIZE <= Len(data) /\ a + SIG_SIZE <= Len(data)
       /\ c + MESSAGE_LEN <= Len(data)
    BY <1>1, <1>4, <1>8 DEF b
<1> HIDE DEF e
<1>16. CheckEd25519Data(data, key, msg)
    BY <1>9, <1>10, <1>12, <1>14, <1>15 DEF CheckEd25519Data, e
<1> QED
    BY <1>3, <1>16

\* A state both parties signed is never refused: with their two instructions
\* anywhere before the program's, whatever else the transaction carries, the
\* program accepts it once the precompile has passed.
THEOREM NoCosignedStateRefused == Spec => []CosignedIsAccepted
<1>1. CosigningInv => CosignedIsAccepted
    <2> SUFFICES ASSUME CosigningInv, NEW s \in Updates, NEW current \in 0..Len(tx),
                        s.session \in Sessions,
                        PrecompilePasses(Whole(s, current), Signed),
                        \A key \in {ProviderOf[s.session], ConsumerOf[s.session]} :
                            \E i \in 1..current :
                                tx[i] = Ed25519VerifyIx(key, SerializeState(s),
                                                        SigOf(key, SerializeState(s)))
                 PROVE  Accepts(s.session, s, current)
        BY DEF CosignedIsAccepted
    <2> DEFINE msg == SerializeState(s)
               state == FromMessageBytes(EncodeArg(ToAnchorArg(s)))
    <2>1. /\ msg \in Seq(Cell) /\ Len(msg) = MESSAGE_LEN
          /\ state = ToAnchorArg(s) /\ ToMessageBytes(state) = msg
        BY CosigningAssumption, RoundTrip
    <2> HIDE DEF msg, state
    <2>2. HasValidDomain(state) /\ state.session = s.session
        BY <2>1 DEF HasValidDomain, ToAnchorArg
    <2>3. ASSUME NEW key \in {ProviderOf[s.session], ConsumerOf[s.session]}
          PROVE  VerifyEd25519Signature(Whole(s, current), current, key, msg)
        <3>1. PICK i \in 1..current : tx[i] = Ed25519VerifyIx(key, msg, SigOf(key, msg))
            BY DEF msg
        <3>2. Whole(s, current)[i] = tx[i]
            BY SearchedAreBeside DEF CosigningInv
        <3>3. key \in Keys
            BY CosigningAssumption
        <3>4. key \in Seq(Cell) /\ Len(key) = PUBKEY_SIZE
            BY <3>3, CosigningAssumption, MessageAssumption DEF Pubkey, Bytes, Cell
        <3>5. SigOf(key, msg) \in Seq(Cell) /\ Len(SigOf(key, msg)) = SIG_SIZE
            <4>1. SigOf(key, msg) \in [1..SIG_SIZE -> Bytes]
                BY <3>3, CosigningAssumption DEF msg
            <4>2. Bytes \subseteq Cell /\ SIG_SIZE \in Nat
                BY BindingAssumption, MessageAssumption DEF Bytes, Cell
            <4> QED
                BY <4>1, <4>2
        <3>6. CheckEd25519Data(tx[i].data, key, msg)
            BY <2>1, <3>1, <3>4, <3>5, BuiltIsRecognised
        <3>7. tx[i].program = Ed25519Program
            BY <3>1 DEF Ed25519VerifyIx, CreateInstruction
        <3> QED
            BY <3>2, <3>6, <3>7 DEF VerifyEd25519Signature
    <2> QED
        BY <2>1, <2>2, <2>3 DEF Accepts, VerifyCosignedState, state
<1> QED
    BY <1>1, CosigningInvariant, PTL
=============================================================================
