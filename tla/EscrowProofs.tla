---------------------------- MODULE EscrowProofs ----------------------------
(***************************************************************************)
(* The safety of the settlement program, proved for all sets of nodes,     *)
(* consumers, mints and updates, every amount, fee and rent, and any       *)
(* number of sessions.                                                     *)
(*                                                                         *)
(* The invariant IInv adds to the types what a session leans on (the       *)
(* config and the node exist) and what its escrow holds.  One lemma per    *)
(* action shows that the action keeps it; the payouts share the lemma      *)
(* PaidSession, which says that an escrow still covers a session that has  *)
(* paid no more than its obligation fell.                                  *)
(***************************************************************************)
EXTENDS Escrow, RegistryProofs

SessionsAnchored ==
    \A s \in Sessions : Exists(s) => config # Null /\ Registered(s.node)

IInv ==
    /\ TypeOK
    /\ NftNeverAhead
    /\ SessionsAnchored
    /\ EscrowBacked
    /\ PendingWithinDeposit
    /\ LastStateCosigned

Ledgers == [Assets -> [Accounts -> Int]]

-----------------------------------------------------------------------------
(***************************************************************************)
(* Transfers.                                                              *)
(***************************************************************************)

LEMMA AccountSets ==
    /\ Sessions \subseteq Accounts /\ Wallets \subseteq Accounts /\ FeeVault \in Accounts
    /\ Outsider \in Accounts /\ Outsider # FeeVault
    /\ Outsider \notin Sessions /\ Outsider \notin Wallets
    /\ \A s \in Sessions : s.consumer \in Wallets /\ s.node \in Nodes
    /\ Treasury \in Wallets /\ Providers \subseteq Wallets
    /\ SOL \in Assets /\ Mints \subseteq Assets
    /\ FeeVault \notin Sessions /\ \A w \in Wallets : w \notin Sessions
  BY EscrowAssumption DEF Accounts, Wallets, Sessions, Assets

\* The balance of acc after a transfer.
Balance(l, a, from, to, x, b, acc) ==
    l[b][acc] - (IF b = a /\ acc = from THEN x ELSE 0) + (IF b = a /\ acc = to THEN x ELSE 0)

\* A transfer changes two entries of one asset (one, if it goes nowhere).
LEMMA MovedEffect ==
    ASSUME NEW l \in Ledgers, NEW a \in Assets,
           NEW from \in Accounts, NEW to \in Accounts, NEW x \in Int
    PROVE  /\ Moved(l, a, from, to, x) \in Ledgers
           /\ \A b \in Assets, acc \in Accounts :
                 Moved(l, a, from, to, x)[b][acc] = Balance(l, a, from, to, x, b, acc)
  <1> DEFINE row == [l[a] EXCEPT ![from] = @ - x]
             row2 == [row EXCEPT ![to] = @ + x]
             debited == [l EXCEPT ![a][from] = @ - x]
  <1>1. l[a] \in [Accounts -> Int]
    BY DEF Ledgers
  <1>2. row \in [Accounts -> Int] /\ row2 \in [Accounts -> Int]
    BY <1>1
  <1>3. debited = [l EXCEPT ![a] = row]
    BY DEF Ledgers
  <1>4. debited \in Ledgers /\ debited[a] = row
    BY <1>2, <1>3 DEF Ledgers
  <1>5. Moved(l, a, from, to, x) = [debited EXCEPT ![a] = row2]
    <2> HIDE DEF debited, row
    <2> QED
      BY <1>4 DEF Moved, Ledgers, debited
  <1>6. \A acc \in Accounts : row2[acc] = l[a][acc] - (IF acc = from THEN x ELSE 0)
                                                    + (IF acc = to THEN x ELSE 0)
    BY <1>1, <1>2
  <1>7. \A b \in Assets, acc \in Accounts : l[b][acc] \in Int
    BY DEF Ledgers
  <1> HIDE DEF row, row2
  <1> QED
    BY <1>2, <1>3, <1>4, <1>5, <1>6, <1>7 DEF Ledgers, Balance

\* m is l after the escrow of s has paid x of asset a: it falls by x, every
\* other escrow is left alone, and nobody else is taken from.
Paid(l, m, a, s, x) ==
    /\ m \in Ledgers
    /\ m[a][s] = l[a][s] - x
    /\ \A b \in Assets, t \in Accounts : b # a \/ t # s => m[b][t] >= l[b][t]
    /\ \A b \in Assets, t \in Sessions : b # a \/ t # s => m[b][t] = l[b][t]

LEMMA Transfer ==
    ASSUME NEW l \in Ledgers, NEW a \in Assets, NEW s \in Sessions,
           NEW to \in Accounts, to \notin Sessions, NEW x \in Nat
    PROVE  Paid(l, Moved(l, a, s, to, x), a, s, x) /\ Moved(l, a, s, to, x) \in Ledgers
  <1> DEFINE m == Moved(l, a, s, to, x)
  <1>1. s \in Accounts
    BY AccountSets
  <1>2. m \in Ledgers /\ \A b \in Assets, t \in Accounts : m[b][t] = Balance(l, a, s, to, x, b, t)
    BY <1>1, MovedEffect
  <1>3. \A b \in Assets, t \in Accounts : l[b][t] \in Int
    BY DEF Ledgers
  <1> HIDE DEF m
  <1>4. /\ m[a][s] = l[a][s] - x
        /\ \A b \in Assets, t \in Accounts : b # a \/ t # s => m[b][t] >= l[b][t]
    BY <1>1, <1>2, <1>3 DEF Balance
  <1>5. \A b \in Assets, t \in Sessions : b # a \/ t # s => m[b][t] = l[b][t]
    BY <1>1, <1>2, <1>3, AccountSets DEF Balance
  <1> QED
    BY <1>2, <1>4, <1>5 DEF Paid, m

LEMMA PaidInTurn ==
    ASSUME NEW l \in Ledgers, NEW m \in Ledgers, NEW k \in Ledgers,
           NEW a \in Assets, NEW s \in Sessions, NEW x \in Nat, NEW y \in Nat,
           Paid(l, m, a, s, x), Paid(m, k, a, s, y)
    PROVE  Paid(l, k, a, s, x + y)
  <1>1. \A b \in Assets, t \in Accounts :
            l[b][t] \in Int /\ m[b][t] \in Int /\ k[b][t] \in Int
    BY DEF Ledgers
  <1>2. s \in Accounts
    BY AccountSets
  <1>3. k[a][s] = l[a][s] - (x + y)
    BY <1>1, <1>2 DEF Paid
  <1>4. \A b \in Assets, t \in Accounts : b # a \/ t # s => k[b][t] >= l[b][t]
    BY <1>1 DEF Paid
  <1>5. \A b \in Assets, t \in Sessions : b # a \/ t # s => k[b][t] = l[b][t]
    BY DEF Paid
  <1> QED
    BY <1>3, <1>4, <1>5 DEF Paid

\* A payout leaves a ledger of natural numbers, and the runtime's rent rule
\* holds for the session's account.
LEMMA PayOutEffect ==
    ASSUME TypeOK, NEW a \in Assets, NEW s \in Sessions, Exists(s), ProviderOf(s) \in Providers,
           NEW p \in Nat, NEW f \in Nat, NEW r \in Nat, PayOut(a, s, p, f, r)
    PROVE  /\ ledger' \in [Assets -> [Accounts -> Nat]]
           /\ Paid(ledger, ledger', a, s, p + f + r)
           /\ \/ ledger'[SOL][s] \in {0, ledger[SOL][s]}
              \/ ledger'[SOL][s] >= SessionRent
  <1> DEFINE l1 == Moved(ledger, a, s, ProviderOf(s), p)
             l2 == Moved(l1, a, s, FeeVault, f)
             l3 == Moved(l2, a, s, s.consumer, r)
  <1>1. /\ ledger \in Ledgers
        /\ \A b \in Assets, t \in Accounts : ledger[b][t] \in Nat
    BY DEF TypeOK, Ledgers
  <1>2. /\ ProviderOf(s) \in Accounts /\ ProviderOf(s) \notin Sessions
        /\ FeeVault \in Accounts /\ FeeVault \notin Sessions
        /\ s.consumer \in Accounts /\ s.consumer \notin Sessions
        /\ s \in Accounts /\ SOL \in Assets
    BY AccountSets
  <1>3. ledger' = l3 /\ ledger[a][s] >= p + f + r /\ RentKept(ledger')
    BY DEF PayOut, CanPayOut, AfterPayOut
  <1>4. Paid(ledger, l1, a, s, p) /\ l1 \in Ledgers
    BY <1>1, <1>2, Transfer
  <1>5. Paid(l1, l2, a, s, f) /\ l2 \in Ledgers
    <2> HIDE DEF l1
    <2> QED BY <1>2, <1>4, Transfer
  <1>6. Paid(l2, l3, a, s, r) /\ l3 \in Ledgers
    <2> HIDE DEF l2
    <2> QED BY <1>2, <1>5, Transfer
  <1> HIDE DEF l1, l2, l3
  <1>7. Paid(ledger, l2, a, s, p + f)
    BY <1>1, <1>4, <1>5, PaidInTurn
  <1>8. Paid(ledger, l3, a, s, p + f + r)
    BY <1>1, <1>5, <1>6, <1>7, PaidInTurn
  <1>9. l3 \in [Assets -> [Accounts -> Nat]]
    <2>1. \A b \in Assets, t \in Accounts : l3[b][t] \in Nat
      <3>1. \A b \in Assets, t \in Accounts : l3[b][t] \in Int
        BY <1>6 DEF Ledgers
      <3>2. l3[a][s] >= 0
        BY <1>1, <1>2, <1>3, <1>8, <3>1 DEF Paid
      <3> QED
        BY <1>1, <1>8, <3>1, <3>2 DEF Paid
    <2> QED
      BY <1>6, <2>1 DEF Ledgers
  <1>10. ledger'[SOL][s] \in {0, ledger[SOL][s]} \/ ledger'[SOL][s] >= SessionRent
    BY <1>2, <1>3, AccountSets DEF RentKept, RentKeptWith
  <1> QED
    BY <1>3, <1>8, <1>9, <1>10

-----------------------------------------------------------------------------
(***************************************************************************)
(* The escrow of one session.                                              *)
(***************************************************************************)

LedgerTyped == ledger \in [Assets -> [Accounts -> Nat]]

LEMMA SessionFields ==
    ASSUME TypeOK, NEW s \in Sessions, Exists(s)
    PROVE  /\ session[s] \in Session
           /\ session[s].mint \in Mints \cup {None}
           /\ session[s].deposited \in Nat /\ session[s].settled_to_provider \in Nat
           /\ session[s].last_nonce \in Nat
           /\ session[s].pending_payout \in Nat /\ session[s].pending_units \in Nat
           /\ session[s].challenge_deadline \in Nat
  <1>1. session[s] \in Session
    BY DEF TypeOK, Exists
  <1> QED
    BY <1>1, MathAssumption, EscrowAssumption DEF Session, U64, Times

\* Whatever leaves a session alone and takes nothing from its escrow.
LEMMA BackedKept ==
    ASSUME TypeOK, LedgerTyped', NEW t \in Sessions, Exists(t), Backed(t),
           session'[t] = session[t],
           \A b \in Assets : ledger'[b][t] >= ledger[b][t]
    PROVE  Backed(t)'
  <1>1. session[t].mint \in Mints \cup {None}
        /\ session[t].deposited \in Nat /\ session[t].settled_to_provider \in Nat
    BY SessionFields
  <1>2. SOL \in Assets /\ Mints \subseteq Assets /\ t \in Accounts
    BY AccountSets
  <1>3. \A b \in Assets : ledger[b][t] \in Nat /\ ledger'[b][t] \in Nat
    BY <1>2 DEF TypeOK, LedgerTyped
  <1>4. Obligation(t)' = Obligation(t) /\ Unsettled(t)' = Unsettled(t)
    BY DEF Obligation, Unsettled, Live, HasStatus, Exists
  <1>5. Obligation(t) \in Int
    BY <1>1 DEF Obligation, Unsettled
  <1> QED
    BY <1>1, <1>2, <1>3, <1>4, <1>5, EscrowAssumption DEF Backed

\* A live session that pays no more than it still owes, and afterwards owes at
\* most what is left, keeps every escrow backed.  The lamports of an SPL session
\* (asset SOL, a mint) are paid only when the session ends.
LEMMA PaidSession ==
    ASSUME IInv, NEW a \in Assets, NEW s \in Sessions, Live(s),
           NEW p \in Nat, NEW f \in Nat, NEW r \in Nat, PayOut(a, s, p, f, r),
           NEW record \in Session, Store(s, record),
           record.mint = session[s].mint, record.deposited = session[s].deposited,
           record.settled_to_provider
               \in session[s].settled_to_provider..session[s].deposited,
           \/ record.status \notin {"Open", "Closing"}
           \/ /\ p + f + r <= record.settled_to_provider - session[s].settled_to_provider
              /\ a = SOL => session[s].mint = None
    PROVE  /\ LedgerTyped' /\ session' \in [Sessions -> Session \cup {Null}]
           /\ \A t \in Sessions : t # s => session'[t] = session[t]
           /\ session'[s] \in {record, Null}
           /\ EscrowBacked'
  <1>1. TypeOK /\ Exists(s) /\ Backed(s)
    BY DEF IInv, EscrowBacked, Live, HasStatus
  <1>2. ProviderOf(s) \in Providers
    BY <1>1, AccountSets
       DEF IInv, SessionsAnchored, TypeOK, RegistryTypeOK, Registered, Node, ProviderOf
  <1>3. /\ ledger' \in [Assets -> [Accounts -> Nat]]
        /\ Paid(ledger, ledger', a, s, p + f + r)
        /\ ledger'[SOL][s] \in {0, ledger[SOL][s]} \/ ledger'[SOL][s] >= SessionRent
    BY <1>1, <1>2, PayOutEffect
  <1>4. /\ session' \in [Sessions -> Session \cup {Null}]
        /\ \A t \in Sessions : t # s => session'[t] = session[t]
        /\ session'[s] = IF ledger'[SOL][s] = 0 THEN Null ELSE record
    BY <1>1 DEF Store, TypeOK
  <1>5. SOL \in Assets /\ Mints \subseteq Assets /\ \A t \in Sessions : t \in Accounts
    BY AccountSets
  <1>6. \A b \in Assets, t \in Sessions : ledger[b][t] \in Nat /\ ledger'[b][t] \in Nat
    BY <1>1, <1>3, <1>5 DEF TypeOK
  <1>7. ASSUME NEW t \in Sessions, t # s, Exists(t)'
        PROVE  Backed(t)'
    <2>1. Exists(t) /\ session'[t] = session[t]
      BY <1>4, <1>7 DEF Exists
    <2>2. Backed(t)
      BY <2>1 DEF IInv, EscrowBacked
    <2>3. \A b \in Assets : ledger'[b][t] >= ledger[b][t]
      BY <1>3, <1>6, <1>7 DEF Paid
    <2>4. LedgerTyped'
      BY <1>3 DEF LedgerTyped
    <2> QED
      BY <1>1, <2>1, <2>2, <2>3, <2>4, BackedKept
  <1>8. ASSUME Exists(s)'
        PROVE  Backed(s)'
    <2> DEFINE old == session[s]
    <2>1. session'[s] = record /\ ledger'[SOL][s] # 0
      BY <1>4, <1>8 DEF Exists
    <2>2. /\ old.mint \in Mints \cup {None}
          /\ old.deposited \in Nat /\ old.settled_to_provider \in Nat
      BY <1>1, SessionFields
    <2>3. record # Null /\ record.settled_to_provider \in Nat
      BY <2>2, EscrowAssumption
    <2>4. Unsettled(s)' = record.deposited - record.settled_to_provider /\ Unsettled(s)' >= 0
      BY <2>1, <2>2, <2>3 DEF Unsettled
    <2>5. Obligation(s)' = IF record.status \in {"Open", "Closing"} THEN Unsettled(s)' ELSE 0
      BY <2>1, <2>3 DEF Obligation, Live, HasStatus, Exists
    <2>6. Obligation(s) = old.deposited - old.settled_to_provider
      BY DEF Obligation, Unsettled
    <2>7. /\ ledger[SOL][s] >= SessionRent
          /\ old.mint = None => ledger[SOL][s] >= SessionRent + Obligation(s)
          /\ old.mint # None => ledger[old.mint][s] >= Obligation(s)
      BY <1>1 DEF Backed
    <2>8. ledger'[a][s] = ledger[a][s] - (p + f + r)
      BY <1>3 DEF Paid
    <2>9. \A b \in Assets : b # a => ledger'[b][s] = ledger[b][s]
      BY <1>3 DEF Paid
    <2>10. ledger'[SOL][s] >= SessionRent
      BY <1>3, <1>5, <1>6, <2>1, <2>7, EscrowAssumption
    <2>11. CASE record.status \notin {"Open", "Closing"}
      <3>1. Obligation(s)' = 0
        BY <2>5, <2>11
      <3>2. record.mint # None => ledger'[record.mint][s] >= 0
        BY <1>5, <1>6, <2>2
      <3> QED
        BY <2>1, <2>4, <2>10, <3>1, <3>2, EscrowAssumption DEF Backed
    <2>12. CASE /\ record.status \in {"Open", "Closing"}
                /\ p + f + r <= record.settled_to_provider - old.settled_to_provider
                /\ a = SOL => old.mint = None
      <3>1. Obligation(s)' = Obligation(s) - (record.settled_to_provider - old.settled_to_provider)
        BY <2>2, <2>3, <2>4, <2>5, <2>6, <2>12
      <3>2. Obligation(s)' \in Int /\ Obligation(s) \in Int
        BY <2>2, <2>3, <2>4, <2>5, <2>6, <3>1
      <3>3. Obligation(s)' <= Obligation(s) - (p + f + r)
        BY <2>2, <2>3, <2>12, <3>1, <3>2
      <3>4. CASE old.mint = None
        <4>1. ledger'[SOL][s] >= SessionRent + Obligation(s)'
          <5>1. CASE a = SOL
            BY <1>5, <1>6, <2>7, <2>8, <3>2, <3>3, <3>4, <5>1, EscrowAssumption
          <5>2. CASE a # SOL
            BY <1>5, <1>6, <2>7, <2>9, <3>2, <3>3, <3>4, <5>2, EscrowAssumption
          <5> QED BY <5>1, <5>2
        <4> QED
          BY <2>1, <2>4, <2>10, <3>4, <4>1 DEF Backed
      <3>5. CASE old.mint # None
        <4>1. old.mint \in Assets
          BY <1>5, <2>2, <3>5
        <4>2. ledger'[old.mint][s] >= Obligation(s)'
          <5>1. CASE a = old.mint
            BY <1>6, <2>7, <2>8, <3>2, <3>3, <3>5, <4>1, <5>1
          <5>2. CASE a # old.mint
            BY <1>6, <2>7, <2>9, <3>2, <3>3, <3>5, <4>1, <5>2
          <5> QED BY <5>1, <5>2
        <4> QED
          BY <2>1, <2>4, <2>10, <3>5, <4>2 DEF Backed
      <3> QED BY <3>4, <3>5
    <2> QED
      BY <2>11, <2>12
  <1>9. EscrowBacked'
    BY <1>7, <1>8 DEF EscrowBacked
  <1> QED
    BY <1>3, <1>4, <1>9 DEF LedgerTyped

-----------------------------------------------------------------------------
(***************************************************************************)
(* From one session to all of them.                                        *)
(***************************************************************************)

\* What IInv asks of a session besides its escrow.
Sound(s) ==
    /\ config # Null /\ Registered(s.node)
    /\ HasStatus(s, "Closing") =>
          session[s].pending_payout \in session[s].settled_to_provider..session[s].deposited
    /\ FollowsUpdate(s)

LEMMA SoundKept ==
    ASSUME NEW t \in Sessions, Exists(t), Sound(t), session'[t] = session[t],
           NodesKept, ConfigKept, cosigned \subseteq cosigned'
    PROVE  Sound(t)'
  <1>1. t.node \in Nodes
    BY AccountSets
  <1>2. (config # Null /\ Registered(t.node))'
    BY <1>1 DEF Sound, NodesKept, ConfigKept, Registered
  <1>3. HasStatus(t, "Closing")' = HasStatus(t, "Closing")
    BY DEF HasStatus, Exists
  <1>4. FollowsUpdate(t)'
    BY <1>3 DEF Sound, FollowsUpdate
  <1> QED
    BY <1>2, <1>3, <1>4 DEF Sound

LEMMA AllSound == IInv => \A t \in Sessions : Exists(t) => Sound(t)
  BY DEF IInv, SessionsAnchored, PendingWithinDeposit, LastStateCosigned, Sound, HasStatus

\* What the proofs show of a step.
GoodStep ==
    /\ IInv' /\ NodesKept
    /\ \A t \in Sessions : Advances(t) /\ HonoursWindow(t)

LEMMA UntouchedSession ==
    ASSUME TypeOK, NEW t \in Sessions, session'[t] = session[t]
    PROVE  Advances(t) /\ HonoursWindow(t)
  BY SessionFields DEF Advances, HonoursWindow, HasStatus

\* A step that changes the session s only.
LEMMA OneSession ==
    ASSUME IInv, TypeOK', NftNeverAhead', EscrowBacked', NodesKept, ConfigKept,
           cosigned \subseteq cosigned', NEW s \in Sessions,
           \A t \in Sessions : t # s => session'[t] = session[t],
           Exists(s)' => Sound(s)', Advances(s), HonoursWindow(s)
    PROVE  GoodStep
  <1>1. TypeOK
    BY DEF IInv
  <1>2. ASSUME NEW t \in Sessions, Exists(t)'
        PROVE  Sound(t)'
    <2>1. CASE t = s
      BY <1>2, <2>1
    <2>2. CASE t # s
      BY <1>2, <2>2, AllSound, SoundKept DEF Exists
    <2> QED BY <2>1, <2>2
  <1>3. IInv'
    BY <1>2 DEF IInv, SessionsAnchored, PendingWithinDeposit, LastStateCosigned, Sound, HasStatus
  <1>4. ASSUME NEW t \in Sessions
        PROVE  Advances(t) /\ HonoursWindow(t)
    BY <1>1, UntouchedSession
  <1> QED
    BY <1>3, <1>4 DEF GoodStep

\* A step that changes no session and takes nothing from their escrows.
LEMMA NoSession ==
    ASSUME IInv, TypeOK', NftNeverAhead', NodesKept, ConfigKept,
           cosigned \subseteq cosigned', session' = session,
           \A b \in Assets, t \in Sessions : ledger'[b][t] >= ledger[b][t]
    PROVE  GoodStep
  <1>1. TypeOK /\ LedgerTyped'
    BY DEF IInv, TypeOK, LedgerTyped
  <1>2. ASSUME NEW t \in Sessions, Exists(t)'
        PROVE  Sound(t)' /\ Backed(t)'
    <2>1. Exists(t) /\ session'[t] = session[t]
      BY <1>2 DEF Exists
    <2>2. Sound(t) /\ Backed(t)
      BY <2>1, AllSound DEF IInv, EscrowBacked
    <2> QED
      BY <1>1, <2>1, <2>2, SoundKept, BackedKept
  <1>3. EscrowBacked'
    BY <1>2 DEF EscrowBacked
  <1>4. IInv'
    BY <1>2, <1>3 DEF IInv, SessionsAnchored, PendingWithinDeposit, LastStateCosigned, Sound, HasStatus
  <1> QED
    BY <1>1, <1>4, UntouchedSession DEF GoodStep

-----------------------------------------------------------------------------
(***************************************************************************)
(* The payouts.                                                            *)
(***************************************************************************)

\* record is a state of s that follows an update, and not a closing one.
RecordFollows(s, record) ==
    IF record.last_nonce = 0
    THEN record.settled_to_provider = 0
    ELSE \E u \in cosigned :
            /\ u.session = s
            /\ u.nonce = record.last_nonce
            /\ u.units_consumed = record.pending_units
            /\ u.owed_to_provider = record.settled_to_provider

\* What record keeps of the session it replaces.
Replaces(s, record) ==
    LET old == session[s]
    IN  /\ record \in Session
        /\ record.mint = old.mint /\ record.deposited = old.deposited
        /\ record.expiry = old.expiry
        /\ record.settled_to_provider \in old.settled_to_provider..old.deposited
        /\ record.last_nonce >= old.last_nonce
        /\ record.status # "Closing"

LEMMA PaidStep ==
    ASSUME IInv, NEW a \in Assets, NEW s \in Sessions, Live(s),
           NEW p \in Nat, NEW f \in Nat, NEW r \in Nat, PayOut(a, s, p, f, r),
           NEW record, Replaces(s, record), RecordFollows(s, record), Store(s, record),
           \/ record.status # "Open"
           \/ /\ p + f + r <= record.settled_to_provider - session[s].settled_to_provider
              /\ a = SOL => session[s].mint = None,
           session[s].status = "Closing" =>
               /\ now > session[s].challenge_deadline
               /\ record = [session[s] EXCEPT !.status = "Settled",
                                !.settled_to_provider = session[s].pending_payout],
           RegistryInv', NodesKept, ConfigKept, UNCHANGED <<vaults, cosigned, now>>
    PROVE  GoodStep
  <1>1. TypeOK /\ Exists(s) /\ Sound(s)
    BY AllSound DEF IInv, Live, HasStatus
  <1>2. record \in Session /\ record # Null
    BY EscrowAssumption DEF Replaces
  <1>3. /\ LedgerTyped' /\ session' \in [Sessions -> Session \cup {Null}]
        /\ \A t \in Sessions : t # s => session'[t] = session[t]
        /\ session'[s] \in {record, Null}
        /\ EscrowBacked'
    BY <1>2, PaidSession DEF Replaces
  <1>4. TypeOK' /\ NftNeverAhead'
    BY <1>1, <1>3 DEF TypeOK, LedgerTyped, RegistryInv
  <1>5. ASSUME Exists(s)'
        PROVE  Sound(s)'
    <2>1. session'[s] = record
      BY <1>3, <1>5 DEF Exists
    <2>2. ~HasStatus(s, "Closing")'
      BY <2>1 DEF HasStatus, Replaces
    <2>3. (config # Null /\ Registered(s.node))'
      BY <1>1, AccountSets DEF Sound, NodesKept, ConfigKept, Registered
    <2>4. FollowsUpdate(s)'
      BY <2>1, <2>2 DEF FollowsUpdate, RecordFollows
    <2> QED
      BY <2>2, <2>3, <2>4 DEF Sound
  <1>6. Advances(s)
    <2>1. session[s].settled_to_provider \in Nat /\ session[s].deposited \in Nat
      BY <1>1, SessionFields
    <2>2. session[s].status = "Closing" => record.status = "Settled"
      BY <1>1, SessionFields DEF Session
    <2> QED
      BY <1>3, <2>1, <2>2 DEF Advances, Replaces
  <1>7. HonoursWindow(s)
    <2>1. session[s].challenge_deadline \in Nat /\ now \in Nat
      BY <1>1, SessionFields, EscrowAssumption DEF TypeOK
    <2> QED
      BY <1>3, <2>1 DEF HonoursWindow, HasStatus
  <1> QED
    BY <1>3, <1>4, <1>5, <1>6, <1>7, OneSession

\* The fee split of an amount owed.
LEMMA FeeSplit ==
    ASSUME IInv, NEW s \in Sessions, Exists(s), NEW delta \in Nat
    PROVE  /\ FeeFor(delta, config.fee_bps) \in Nat
           /\ delta - FeeFor(delta, config.fee_bps) \in Nat
  <1>1. config.fee_bps \in 0..MAX_FEE_BPS
    BY DEF IInv, SessionsAnchored, TypeOK, RegistryTypeOK, Config
  <1> QED
    BY <1>1, FeeBounded

LEMMA ApplyStateStep ==
    ASSUME IInv, NEW a \in Assets, NEW s \in Sessions, NEW u \in cosigned,
           NEW final \in BOOLEAN, ApplyState(a, s, u, final)
    PROVE  GoodStep
  <1> DEFINE old == session[s]
             delta == u.owed_to_provider - old.settled_to_provider
             fee == FeeFor(delta, config.fee_bps)
             remainder == IF final THEN old.deposited - u.owed_to_provider ELSE 0
             newUnits == SaturatingSub(u.units_consumed, old.pending_units)
             record == [old EXCEPT !.settled_to_provider = u.owed_to_provider,
                                   !.last_nonce = u.nonce,
                                   !.pending_units = u.units_consumed,
                                   !.status = IF final THEN "Settled" ELSE @]
  <1>0. HasStatus(s, "Open") /\ (a = SOL => old.mint = None)
    BY DEF ApplyState, CanApply, NetDue, FeeDue, Remainder, NewUnits
  <1>1. /\ VerifyCosignedState(s, u)
        /\ PayOut(a, s, delta - fee, fee, remainder)
        /\ CreditNode(s.node, newUnits, u.units_consumed, delta - fee)
        /\ Store(s, record) /\ UNCHANGED <<vaults, cosigned, now>>
    BY DEF ApplyState, CanApply, NetDue, FeeDue, Remainder, NewUnits
  <1>2. TypeOK /\ Exists(s) /\ Live(s) /\ old.status = "Open"
    BY <1>0 DEF IInv, Live, HasStatus
  <1>3. /\ old \in Session /\ old.deposited \in Nat /\ old.settled_to_provider \in Nat
        /\ old.last_nonce \in Nat /\ old.pending_units \in Nat
    BY <1>2, SessionFields
  <1>4. /\ u.owed_to_provider \in U64 /\ u.nonce \in U64 /\ u.units_consumed \in U64
        /\ u.owed_to_provider \in Nat /\ u.nonce \in Nat /\ u.units_consumed \in Nat
    BY <1>2, MathAssumption DEF TypeOK, StateUpdate, U64
  <1>5. /\ u.nonce > old.last_nonce /\ u.session = s
        /\ u.owed_to_provider <= old.deposited
        /\ u.owed_to_provider >= old.settled_to_provider
    BY <1>1 DEF VerifyCosignedState
  <1>6. delta \in Nat /\ remainder \in Nat
    BY <1>3, <1>4, <1>5
  <1>7. fee \in Nat /\ delta - fee \in Nat
    <2> HIDE DEF delta
    <2> QED BY <1>2, <1>6, FeeSplit
  <1>8. newUnits \in Nat
    <2>1. SaturatingSub(u.units_consumed, old.pending_units) \in 0..u.units_consumed
      BY <1>3, <1>4, Saturation
    <2> QED BY <1>4, <2>1
  <1>9. RegistryInv' /\ NodesKept /\ ConfigKept
    <2> HIDE DEF delta, fee, newUnits
    <2> QED BY <1>1, <1>4, <1>7, <1>8, CreditNodeStep, AccountSets DEF IInv, TypeOK, RegistryInv
  <1>10. record \in Session
    BY <1>3, <1>4 DEF Session, SessionStatus
  <1>11. /\ record.mint = old.mint /\ record.deposited = old.deposited
         /\ record.expiry = old.expiry /\ record.settled_to_provider = u.owed_to_provider
         /\ record.last_nonce = u.nonce /\ record.pending_units = u.units_consumed
         /\ record.status = IF final THEN "Settled" ELSE "Open"
    BY <1>2, <1>3 DEF Session
  <1> HIDE DEF record, fee
  <1>12. Replaces(s, record)
    BY <1>3, <1>4, <1>5, <1>10, <1>11 DEF Replaces
  <1>13. RecordFollows(s, record)
    BY <1>3, <1>4, <1>5, <1>11 DEF RecordFollows
  <1>14. \/ record.status # "Open"
         \/ /\ (delta - fee) + fee + remainder
                   <= record.settled_to_provider - old.settled_to_provider
            /\ a = SOL => old.mint = None
    <2>1. CASE final
      BY <1>11, <2>1
    <2>2. CASE ~final
      <3>1. remainder = 0 /\ delta = record.settled_to_provider - old.settled_to_provider
        BY <1>11, <2>2
      <3>2. (delta - fee) + fee + 0 = delta
        BY <1>6, <1>7
      <3>3. a = SOL => old.mint = None
        BY <1>0
      <3> HIDE DEF delta, remainder
      <3> QED BY <1>6, <3>1, <3>2, <3>3
    <2> QED BY <2>1, <2>2
  <1> HIDE DEF delta, remainder, old
  <1> QED
    BY <1>1, <1>2, <1>6, <1>7, <1>9, <1>12, <1>13, <1>14, PaidStep DEF old

LEMMA FinalizeStep ==
    ASSUME IInv, NEW a \in Assets, NEW s \in Sessions, Finalize(a, s)
    PROVE  GoodStep
  <1> DEFINE old == session[s]
             owed == old.pending_payout
             units == old.pending_units
             delta == owed - old.settled_to_provider
             fee == FeeFor(delta, config.fee_bps)
             remainder == old.deposited - owed
             record == [old EXCEPT !.settled_to_provider = owed, !.status = "Settled"]
  <1>0. HasStatus(s, "Closing") /\ now > old.challenge_deadline
    BY DEF Finalize, CanFinalize, NetDue, FeeDue
  <1>1. /\ PayOut(a, s, delta - fee, fee, remainder)
        /\ CreditNode(s.node, units, units, delta - fee)
        /\ Store(s, record) /\ UNCHANGED <<vaults, cosigned, now>>
    BY DEF Finalize, CanFinalize, NetDue, FeeDue
  <1>2. TypeOK /\ Exists(s) /\ Live(s) /\ old.status = "Closing" /\ Sound(s)
    BY <1>0, AllSound DEF IInv, Live, HasStatus
  <1>3. /\ old \in Session /\ old.deposited \in Nat /\ old.settled_to_provider \in Nat
        /\ old.last_nonce \in Nat /\ units \in Nat /\ owed \in Nat
    BY <1>2, SessionFields
  <1>4. owed \in old.settled_to_provider..old.deposited /\ FollowsUpdate(s)
    BY <1>0, <1>2 DEF Sound
  <1>5. delta \in Nat /\ remainder \in Nat
    BY <1>3, <1>4
  <1>6. fee \in Nat /\ delta - fee \in Nat
    <2> HIDE DEF delta
    <2> QED BY <1>2, <1>5, FeeSplit
  <1>7. RegistryInv' /\ NodesKept /\ ConfigKept
    <2> HIDE DEF delta, fee, units
    <2> QED BY <1>1, <1>3, <1>6, CreditNodeStep, AccountSets DEF IInv, TypeOK, RegistryInv
  <1>8. record \in Session
    BY <1>3 DEF Session, SessionStatus
  <1>9. /\ record.mint = old.mint /\ record.deposited = old.deposited
        /\ record.expiry = old.expiry /\ record.settled_to_provider = owed
        /\ record.last_nonce = old.last_nonce /\ record.pending_units = units
        /\ record.status = "Settled"
    BY <1>3 DEF Session
  <1>10. /\ old.status = "Closing"
         /\ record = [session[s] EXCEPT !.status = "Settled",
                                        !.settled_to_provider = session[s].pending_payout]
    BY <1>2, <1>3 DEF Session
  <1> HIDE DEF record, fee
  <1>11. Replaces(s, record)
    BY <1>3, <1>4, <1>8, <1>9 DEF Replaces
  <1>12. RecordFollows(s, record)
    BY <1>0, <1>4, <1>9 DEF RecordFollows, FollowsUpdate
  <1> HIDE DEF delta, remainder, old, owed, units
  <1>13. record.status # "Open"
    BY <1>9
  <1>14. now > session[s].challenge_deadline
    BY <1>0 DEF old
  <1> QED
    BY <1>1, <1>2, <1>5, <1>6, <1>7, <1>10, <1>11, <1>12, <1>13, <1>14, PaidStep

\* cancel and expire: the refund of an open session.
LEMMA RefundStep ==
    ASSUME IInv, NEW a \in Assets, NEW s \in Sessions, HasStatus(s, "Open"),
           NEW status \in {"Cancelled", "Expired"}, Refund(a, s, status)
    PROVE  GoodStep
  <1> DEFINE old == session[s]
             rest == old.deposited - old.settled_to_provider
             record == [old EXCEPT !.status = status]
  <1>1. /\ old.settled_to_provider <= old.deposited
        /\ PayOut(a, s, 0, 0, rest)
        /\ Store(s, record) /\ UNCHANGED <<registryVars, vaults, cosigned, now>>
    BY DEF Refund, CanRefund
  <1>2. TypeOK /\ Exists(s) /\ Live(s) /\ old.status = "Open" /\ Sound(s)
    BY AllSound DEF IInv, Live, HasStatus
  <1>3. /\ old \in Session /\ old.deposited \in Nat /\ old.settled_to_provider \in Nat
        /\ old.last_nonce \in Nat
    BY <1>2, SessionFields
  <1>4. rest \in Nat
    BY <1>1, <1>3
  <1>5. RegistryInv' /\ NodesKept /\ ConfigKept
    BY <1>1, RegistryStutter DEF IInv, TypeOK, RegistryInv
  <1>6. record \in Session
    BY <1>3 DEF Session, SessionStatus
  <1>7. /\ record.mint = old.mint /\ record.deposited = old.deposited
        /\ record.expiry = old.expiry
        /\ record.settled_to_provider = old.settled_to_provider
        /\ record.last_nonce = old.last_nonce /\ record.pending_units = old.pending_units
        /\ record.status = status
    BY <1>3 DEF Session
  <1> HIDE DEF record
  <1>8. Replaces(s, record)
    BY <1>1, <1>3, <1>6, <1>7 DEF Replaces
  <1>9. RecordFollows(s, record)
    BY <1>2, <1>7 DEF RecordFollows, FollowsUpdate, Sound, HasStatus
  <1>10. record.status # "Open" /\ old.status # "Closing"
    BY <1>2, <1>7
  <1> HIDE DEF rest
  <1> QED
    BY <1>1, <1>2, <1>4, <1>5, <1>8, <1>9, <1>10, PaidStep

-----------------------------------------------------------------------------
(***************************************************************************)
(* The dispute path: no money moves.                                       *)
(***************************************************************************)

\* The closing state u gives to a session, with the given deadline.
Disputed(s, u, deadline) ==
    [session[s] EXCEPT !.status = "Closing",
                       !.last_nonce = u.nonce,
                       !.pending_payout = u.owed_to_provider,
                       !.pending_units = u.units_consumed,
                       !.challenge_deadline = deadline]

LEMMA DisputeStep ==
    ASSUME IInv, NEW s \in Sessions, NEW u \in cosigned, VerifyCosignedState(s, u),
           NEW deadline \in Times,
           \/ HasStatus(s, "Open")
           \/ /\ HasStatus(s, "Closing") /\ deadline = session[s].challenge_deadline
              /\ now <= session[s].challenge_deadline,
           session' = [session EXCEPT ![s] = Disputed(s, u, deadline)],
           UNCHANGED <<registryVars, ledger, vaults, cosigned, now>>
    PROVE  GoodStep
  <1> DEFINE old == session[s]
             new == Disputed(s, u, deadline)
  <1>1. /\ TypeOK /\ Exists(s) /\ Live(s) /\ Sound(s) /\ Backed(s)
        /\ old.status \in {"Open", "Closing"}
    BY AllSound DEF IInv, EscrowBacked, Live, HasStatus
  <1>2. /\ old \in Session /\ old.deposited \in Nat /\ old.settled_to_provider \in Nat
        /\ old.last_nonce \in Nat
    BY <1>1, SessionFields
  <1>3. /\ u.owed_to_provider \in U64 /\ u.nonce \in U64 /\ u.units_consumed \in U64
        /\ u.owed_to_provider \in Nat /\ u.nonce \in Nat
    BY <1>1, MathAssumption DEF TypeOK, StateUpdate, U64
  <1>4. /\ u.nonce > old.last_nonce /\ u.session = s
        /\ u.owed_to_provider \in old.settled_to_provider..old.deposited
    BY <1>2, <1>3 DEF VerifyCosignedState
  <1>5. new \in Session /\ new # Null
    <2>1. new \in Session
      <3>1. "Closing" \in SessionStatus
        BY DEF SessionStatus
      <3> HIDE DEF old
      <3> QED
        BY <1>2, <1>3, <3>1 DEF Disputed, Session, old
    <2> QED
      BY <2>1, EscrowAssumption
  <1>6. /\ new.mint = old.mint /\ new.deposited = old.deposited /\ new.expiry = old.expiry
        /\ new.settled_to_provider = old.settled_to_provider
        /\ new.status = "Closing" /\ new.last_nonce = u.nonce
        /\ new.pending_payout = u.owed_to_provider /\ new.pending_units = u.units_consumed
        /\ new.challenge_deadline = deadline
    BY <1>2 DEF Disputed, Session
  <1> HIDE DEF new
  <1>7. /\ session' \in [Sessions -> Session \cup {Null}]
        /\ session'[s] = new /\ \A t \in Sessions : t # s => session'[t] = session[t]
    BY <1>1, <1>5 DEF TypeOK, new
  <1>8. RegistryInv' /\ NodesKept /\ ConfigKept
    BY RegistryStutter DEF IInv, TypeOK, RegistryInv
  <1>9. TypeOK' /\ NftNeverAhead'
    BY <1>1, <1>7, <1>8 DEF TypeOK, RegistryInv
  <1>10. Backed(s)'
    <2>1. Unsettled(s)' = Unsettled(s)
      BY <1>6, <1>7 DEF Unsettled
    <2>2. Obligation(s)' = Obligation(s)
      BY <1>1, <1>5, <1>6, <1>7, <2>1 DEF Obligation, Live, HasStatus, Exists
    <2> QED
      BY <1>1, <1>6, <1>7, <2>1, <2>2 DEF Backed
  <1>11. EscrowBacked'
    <2>1. ASSUME NEW t \in Sessions, t # s, Exists(t)'
          PROVE  Backed(t)'
      <3>1. Exists(t) /\ session'[t] = session[t]
        BY <1>7, <2>1 DEF Exists
      <3>2. Backed(t)
        BY <3>1 DEF IInv, EscrowBacked
      <3> QED
        BY <3>1, <3>2 DEF Backed, Unsettled, Obligation, Live, HasStatus, Exists
    <2> QED
      BY <1>10, <2>1 DEF EscrowBacked
  <1>12. Sound(s)'
    <2>1. HasStatus(s, "Closing")'
      BY <1>5, <1>6, <1>7 DEF HasStatus, Exists
    <2>2. FollowsUpdate(s)'
      BY <1>2, <1>3, <1>4, <1>6, <1>7, <2>1 DEF FollowsUpdate
    <2>3. (config # Null /\ Registered(s.node))'
      BY <1>1, <1>8, AccountSets DEF Sound, NodesKept, ConfigKept, Registered
    <2> QED
      BY <1>4, <1>6, <1>7, <2>1, <2>2, <2>3 DEF Sound
  <1>13. Advances(s)
    BY <1>1, <1>2, <1>3, <1>4, <1>6, <1>7 DEF Advances
  <1>14. HonoursWindow(s)
    <2>1. HasStatus(s, "Closing") => now <= old.challenge_deadline /\ deadline = old.challenge_deadline
      BY DEF HasStatus
    <2> QED
      BY <1>4, <1>6, <1>7, <2>1 DEF HonoursWindow
  <1> QED
    BY <1>7, <1>8, <1>9, <1>11, <1>12, <1>13, <1>14, OneSession

LEMMA InitiateStep ==
    ASSUME IInv, NEW s \in Sessions, NEW u \in cosigned, NEW caller \in Wallets,
           InitiateUnilateralClose(s, caller, u)
    PROVE  GoodStep
  <1> DEFINE deadline == now + config.challenge_window_secs
  <1>1. /\ HasStatus(s, "Open") /\ VerifyCosignedState(s, u) /\ deadline <= HORIZON
        /\ UNCHANGED <<registryVars, ledger, vaults, cosigned, now>>
    BY DEF InitiateUnilateralClose
  <1>2. TypeOK /\ Exists(s) /\ session[s] \in Session
    BY <1>1, SessionFields DEF IInv, HasStatus
  <1>3. deadline \in Times
    <2>1. config.challenge_window_secs \in Nat
      BY <1>2 DEF IInv, SessionsAnchored, TypeOK, RegistryTypeOK, Config
    <2>2. now \in Nat /\ HORIZON \in Nat
      BY <1>2, EscrowAssumption DEF TypeOK
    <2> QED
      BY <1>1, <2>1, <2>2 DEF Times
  <1>4. session' = [session EXCEPT ![s] = Disputed(s, u, deadline)]
    BY <1>2 DEF InitiateUnilateralClose, Disputed, TypeOK, Session
  <1> QED
    BY <1>1, <1>3, <1>4, DisputeStep

LEMMA ChallengeStep ==
    ASSUME IInv, NEW s \in Sessions, NEW u \in cosigned, Challenge(s, u)
    PROVE  GoodStep
  <1> DEFINE deadline == session[s].challenge_deadline
  <1>1. /\ HasStatus(s, "Closing") /\ now <= deadline /\ VerifyCosignedState(s, u)
        /\ UNCHANGED <<registryVars, ledger, vaults, cosigned, now>>
    BY DEF Challenge, CanChallenge
  <1>2. TypeOK /\ session[s] \in Session /\ session[s].status = "Closing"
    BY <1>1, SessionFields DEF IInv, HasStatus
  <1>3. deadline \in Times
    BY <1>2 DEF Session
  <1>4. session' = [session EXCEPT ![s] = Disputed(s, u, deadline)]
    BY <1>2 DEF Challenge, Disputed, TypeOK, Session, CanChallenge
  <1> QED
    BY <1>1, <1>3, <1>4, DisputeStep

-----------------------------------------------------------------------------
(***************************************************************************)
(* Deposits, withdrawals and the steps that touch no session.              *)
(***************************************************************************)

\* A deposit: the session gains x of asset a from a wallet, nobody else changes.
LEMMA Deposit ==
    ASSUME NEW l \in Ledgers, NEW a \in Assets, NEW s \in Sessions,
           NEW w \in Wallets, NEW x \in Nat, NEW m, m = Moved(l, a, w, s, x)
    PROVE  /\ m \in Ledgers /\ m[a][s] = l[a][s] + x
           /\ \A b \in Assets, t \in Accounts : b # a \/ t \notin {w, s} => m[b][t] = l[b][t]
  <1>1. s \in Accounts /\ w \in Accounts /\ s # w
    BY AccountSets
  <1>2. m \in Ledgers /\ \A b \in Assets, t \in Accounts : m[b][t] = Balance(l, a, w, s, x, b, t)
    BY <1>1, MovedEffect
  <1>3. \A b \in Assets, t \in Accounts : l[b][t] \in Int
    BY DEF Ledgers
  <1> QED
    BY <1>1, <1>2, <1>3 DEF Balance

LEMMA OpenStep ==
    ASSUME IInv, NEW s \in Sessions, NEW mint \in Mints \cup {None},
           NEW amount \in Amounts, NEW duration \in Durations,
           Open(s, mint, amount, duration)
    PROVE  GoodStep
  <1> DEFINE a == IF mint = None THEN SOL ELSE mint
             c == s.consumer
             rented == Moved(ledger, SOL, c, s, RentDue(s))
             record == [status |-> "Open", mint |-> mint, deposited |-> amount,
                        settled_to_provider |-> 0, last_nonce |-> 0,
                        expiry |-> now + duration, challenge_deadline |-> 0,
                        pending_payout |-> 0, pending_units |-> 0]
  <1>1. /\ config # Null /\ Registered(s.node) /\ ~Exists(s)
        /\ duration \in MIN_DURATION_SECS..MAX_DURATION_SECS
        /\ now + duration <= HORIZON
    BY DEF Open
  <1>2. /\ ledger' = Moved(rented, a, c, s, amount)
        /\ ledger'[SOL][c] >= 0 /\ ledger'[a][c] >= 0
    BY DEF Open
  <1>3. /\ session' = [session EXCEPT ![s] = record]
        /\ vaults' = IF mint = None THEN vaults ELSE vaults \cup {<<s, mint>>}
        /\ UNCHANGED <<registryVars, cosigned, now>>
    BY DEF Open
  <1>4. TypeOK /\ ledger \in Ledgers /\ \A b \in Assets, t \in Accounts : ledger[b][t] \in Nat
    BY DEF IInv, TypeOK, Ledgers
  <1>5. /\ SOL \in Assets /\ a \in Assets /\ c \in Wallets /\ c \in Accounts
        /\ s \in Accounts /\ \A t \in Sessions : t \in Accounts /\ t # c
    BY AccountSets
  <1>6. amount \in U64 /\ amount \in Nat /\ SessionRent \in Nat
    BY EscrowAssumption, MathAssumption DEF U64
  <1>7. record \in Session /\ record # Null
    <2>1. now + duration \in Times /\ 0 \in Times
      BY <1>1, <1>4, EscrowAssumption DEF TypeOK, Times
    <2>2. 0 \in U64
      BY MathAssumption DEF U64
    <2> QED
      BY <1>6, <2>1, <2>2, EscrowAssumption DEF Session, SessionStatus
  <1>8. /\ session' \in [Sessions -> Session \cup {Null}]
        /\ session'[s] = record /\ \A t \in Sessions : t # s => session'[t] = session[t]
    BY <1>3, <1>4, <1>7 DEF TypeOK
  <1> HIDE DEF a
  <1>9a. /\ RentDue(s) \in Nat
         /\ ledger[SOL][s] + RentDue(s) >= SessionRent
    BY <1>4, <1>5, <1>6 DEF RentDue, SaturatingSub
  <1>9. /\ rented \in Ledgers /\ rented[SOL][s] = ledger[SOL][s] + RentDue(s)
        /\ \A b \in Assets, t \in Accounts :
              b # SOL \/ t \notin {c, s} => rented[b][t] = ledger[b][t]
    BY <1>4, <1>5, <1>9a, Deposit
  <1> HIDE DEF rented, c
  <1>10. /\ ledger' \in Ledgers /\ ledger'[a][s] = rented[a][s] + amount
         /\ \A b \in Assets, t \in Accounts :
               b # a \/ t \notin {c, s} => ledger'[b][t] = rented[b][t]
    BY <1>2, <1>5, <1>6, <1>9, Deposit
  <1>11. \A b \in Assets, t \in Accounts :
            ledger'[b][t] \in Int /\ rented[b][t] \in Int /\ ledger[b][t] \in Nat
    BY <1>4, <1>9, <1>10 DEF Ledgers
  <1>12. \A b \in Assets, t \in Accounts : t # c => ledger'[b][t] >= ledger[b][t]
    <2>1. \A b \in Assets, t \in Accounts : t # c => rented[b][t] >= ledger[b][t]
      BY <1>5, <1>9a, <1>9, <1>11
    <2>2. \A b \in Assets, t \in Accounts : t # c => ledger'[b][t] >= rented[b][t]
      BY <1>5, <1>6, <1>10, <1>11
    <2> QED
      BY <1>11, <2>1, <2>2
  <1>13. \A b \in Assets : ledger'[b][c] >= 0
    BY <1>2, <1>5, <1>9, <1>10, <1>11
  <1>14. LedgerTyped'
    <2>1. \A b \in Assets, t \in Accounts : ledger'[b][t] \in Nat
      BY <1>11, <1>12, <1>13
    <2> QED
      BY <1>10, <2>1 DEF Ledgers, LedgerTyped
  <1>15. RegistryInv' /\ NodesKept /\ ConfigKept
    BY <1>3, RegistryStutter DEF IInv, TypeOK, RegistryInv
  <1>16. TypeOK' /\ NftNeverAhead'
    BY <1>3, <1>4, <1>8, <1>14, <1>15 DEF TypeOK, RegistryInv, LedgerTyped
  <1>17. Backed(s)'
    <2>1. Unsettled(s)' = amount /\ Obligation(s)' = amount
      BY <1>6, <1>7, <1>8 DEF Unsettled, Obligation, Live, HasStatus, Exists
    <2>2. ledger'[SOL][s] >= SessionRent
      BY <1>5, <1>6, <1>9a, <1>9, <1>10, <1>11
    <2>3. ledger'[a][s] >= amount /\ (a = SOL => ledger'[SOL][s] >= SessionRent + amount)
      BY <1>5, <1>6, <1>9a, <1>9, <1>10, <1>11
    <2>4. session'[s].mint = mint
      BY <1>8
    <2> QED
      BY <1>6, <2>1, <2>2, <2>3, <2>4, EscrowAssumption DEF Backed, a
  <1>18. EscrowBacked'
    <2>1. ASSUME NEW t \in Sessions, t # s, Exists(t)'
          PROVE  Backed(t)'
      <3>1. Exists(t) /\ session'[t] = session[t]
        BY <1>8, <2>1 DEF Exists
      <3>2. Backed(t)
        BY <3>1 DEF IInv, EscrowBacked
      <3>3. \A b \in Assets : ledger'[b][t] >= ledger[b][t]
        BY <1>5, <1>12
      <3> QED
        BY <1>4, <1>14, <3>1, <3>2, <3>3, BackedKept
    <2> QED
      BY <1>17, <2>1 DEF EscrowBacked
  <1>19. Sound(s)'
    <2>1. ~HasStatus(s, "Closing")'
      BY <1>8 DEF HasStatus
    <2>2. FollowsUpdate(s)'
      BY <1>8, <2>1 DEF FollowsUpdate
    <2>3. (config # Null /\ Registered(s.node))'
      BY <1>1, <1>15, AccountSets DEF NodesKept, ConfigKept, Registered
    <2> QED
      BY <2>1, <2>2, <2>3 DEF Sound
  <1>20. Advances(s) /\ HonoursWindow(s)
    BY <1>1 DEF Advances, HonoursWindow, HasStatus
  <1>21. cosigned \subseteq cosigned'
    BY <1>3 DEF escrowVars
  <1> QED
    BY <1>8, <1>15, <1>16, <1>18, <1>19, <1>20, <1>21, OneSession

LEMMA WithdrawFeesStep ==
    ASSUME IInv, NEW signer \in Authorities, NEW amount \in 1..ledger[SOL][FeeVault],
           WithdrawFees(signer, amount)
    PROVE  GoodStep
  <1>1. /\ ledger' = Moved(ledger, SOL, FeeVault, Treasury, amount)
        /\ UNCHANGED <<registryVars, session, vaults, cosigned, now>>
    BY DEF WithdrawFees
  <1>2. TypeOK /\ ledger \in Ledgers /\ \A b \in Assets, t \in Accounts : ledger[b][t] \in Nat
    BY DEF IInv, TypeOK, Ledgers
  <1>3. /\ SOL \in Assets /\ FeeVault \in Accounts /\ Treasury \in Accounts
        /\ \A t \in Sessions : t \in Accounts /\ t # FeeVault /\ t # Treasury
    BY AccountSets
  <1>4. amount \in Nat /\ amount <= ledger[SOL][FeeVault]
    BY <1>2, <1>3
  <1>5. /\ ledger' \in Ledgers
        /\ \A b \in Assets, t \in Accounts :
              ledger'[b][t] = Balance(ledger, SOL, FeeVault, Treasury, amount, b, t)
    BY <1>1, <1>2, <1>3, <1>4, MovedEffect
  <1>6. \A b \in Assets, t \in Accounts : ledger'[b][t] \in Nat
    BY <1>2, <1>3, <1>4, <1>5 DEF Balance
  <1>7. \A b \in Assets, t \in Sessions : ledger'[b][t] >= ledger[b][t]
    BY <1>2, <1>3, <1>4, <1>5 DEF Balance
  <1>8. RegistryInv' /\ NodesKept /\ ConfigKept
    BY <1>1, RegistryStutter DEF IInv, TypeOK, RegistryInv
  <1>9. TypeOK' /\ NftNeverAhead'
    BY <1>1, <1>2, <1>5, <1>6, <1>8 DEF TypeOK, RegistryInv, Ledgers
  <1> QED
    BY <1>1, <1>7, <1>8, <1>9, NoSession

\* A transfer that takes from no session and adds to one.
LEMMA GiveStep ==
    ASSUME IInv, NEW a \in Assets, NEW s \in Sessions, NEW amount \in 1..ledger[a][Outsider],
           Give(a, s, amount)
    PROVE  GoodStep
  <1>1. /\ ledger' = Moved(ledger, a, Outsider, s, amount)
        /\ UNCHANGED <<registryVars, session, vaults, cosigned, now>>
    BY DEF Give
  <1>2. TypeOK /\ ledger \in Ledgers /\ \A b \in Assets, t \in Accounts : ledger[b][t] \in Nat
    BY DEF IInv, TypeOK, Ledgers
  <1>3. /\ Outsider \in Accounts /\ s \in Accounts /\ s # Outsider
        /\ \A t \in Sessions : t \in Accounts /\ t # Outsider
    BY AccountSets
  <1>4. amount \in Nat /\ amount <= ledger[a][Outsider]
    BY <1>2, <1>3
  <1>5. /\ ledger' \in Ledgers
        /\ \A b \in Assets, t \in Accounts :
              ledger'[b][t] = Balance(ledger, a, Outsider, s, amount, b, t)
    BY <1>1, <1>2, <1>3, <1>4, MovedEffect
  <1>6. \A b \in Assets, t \in Accounts : ledger'[b][t] \in Nat
    BY <1>2, <1>3, <1>4, <1>5 DEF Balance
  <1>7. \A b \in Assets, t \in Sessions : ledger'[b][t] >= ledger[b][t]
    BY <1>2, <1>3, <1>4, <1>5 DEF Balance
  <1>8. RegistryInv' /\ NodesKept /\ ConfigKept
    BY <1>1, RegistryStutter DEF IInv, TypeOK, RegistryInv
  <1>9. TypeOK' /\ NftNeverAhead'
    BY <1>1, <1>2, <1>5, <1>6, <1>8 DEF TypeOK, RegistryInv, Ledgers
  <1> QED
    BY <1>1, <1>7, <1>8, <1>9, NoSession

\* A registry handler, a signature, a new vault ATA, a tick of the clock or
\* nothing at all.
LEMMA OtherStep ==
    ASSUME IInv,
           \/ RegistryHandler /\ UNCHANGED escrowVars
           \/ \E u \in StateUpdates : CoSign(u)
           \/ \E s \in Sessions, mint \in Mints : CreateVault(s, mint)
           \/ Tick
           \/ UNCHANGED vars
    PROVE  GoodStep
  <1>1. TypeOK /\ RegistryInv
    BY DEF IInv, TypeOK, RegistryInv
  <1>2. RegistryInv' /\ NodesKept /\ ConfigKept
    <2>1. RegistryHandler \/ UNCHANGED registryVars
      BY DEF CoSign, CreateVault, Tick, vars
    <2> QED
      BY <1>1, <2>1, RegistryHandlerStep, RegistryStutter
  <1>3. UNCHANGED <<session, ledger>>
    BY DEF CoSign, CreateVault, Tick, vars, escrowVars
  <1>3a. vaults' \in SUBSET (Sessions \X Mints)
    <2>1. CASE \E s \in Sessions, mint \in Mints : CreateVault(s, mint)
      <3>1. PICK s \in Sessions, mint \in Mints : vaults' = vaults \cup {<<s, mint>>}
        BY <2>1 DEF CreateVault
      <3> QED BY <1>1, <3>1 DEF TypeOK
    <2>2. CASE UNCHANGED vaults
      BY <1>1, <2>2 DEF TypeOK
    <2> QED
      BY <2>1, <2>2 DEF CoSign, Tick, vars, escrowVars
  <1>4. cosigned \subseteq cosigned' /\ cosigned' \in SUBSET StateUpdate
    BY <1>1, EscrowAssumption DEF CoSign, CreateVault, Tick, vars, escrowVars, TypeOK
  <1>5. now' \in 0..(HORIZON + 1)
    <2>1. CASE Tick
      BY <1>1, <2>1, EscrowAssumption DEF Tick, TypeOK
    <2>2. CASE UNCHANGED now
      BY <1>1, <2>2 DEF TypeOK
    <2> QED
      BY <2>1, <2>2 DEF CoSign, CreateVault, vars, escrowVars
  <1>6. TypeOK' /\ NftNeverAhead'
    BY <1>1, <1>2, <1>3, <1>3a, <1>4, <1>5 DEF TypeOK, RegistryInv
  <1>7. \A b \in Assets, t \in Sessions : ledger'[b][t] >= ledger[b][t]
    <2>1. \A b \in Assets, t \in Sessions : ledger[b][t] \in Nat
      BY <1>1, AccountSets DEF TypeOK
    <2> QED BY <1>3, <2>1
  <1> QED
    BY <1>2, <1>3, <1>4, <1>6, <1>7, NoSession

-----------------------------------------------------------------------------
\* A session's handlers by what they share.
LEMMA HandlersByKind ==
    ASSUME SessionHandler
    PROVE  \E s \in Sessions :
            \/ \E mint \in Mints \cup {None}, amount \in Amounts, duration \in Durations :
                  Open(s, mint, amount, duration)
            \/ \E a \in Assets, u \in cosigned, final \in BOOLEAN : ApplyState(a, s, u, final)
            \/ \E u \in cosigned :
                  \/ \E caller \in Wallets : InitiateUnilateralClose(s, caller, u)
                  \/ Challenge(s, u)
            \/ \E a \in Assets :
                  \/ Finalize(a, s)
                  \/ \E signer \in Wallets : Cancel(a, s, signer)
                  \/ Expire(a, s)
  <1>1. SOL \in Assets /\ Mints \subseteq Assets
    BY AccountSets
  <1> QED
    BY <1>1
       DEF SessionHandler, OpenSession, OpenSessionSpl, SettleSession, CheckpointSettle,
           SettleSpl, CheckpointSpl, FinalizeClose, FinalizeCloseSpl, CancelSession,
           CancelSessionSpl, ExpireSession, ExpireSessionSpl

LEMMA NextStep ==
    ASSUME IInv, [Next]_vars
    PROVE  GoodStep
  <1>1. CASE SessionHandler
    <2>1. PICK s \in Sessions :
            \/ \E mint \in Mints \cup {None}, amount \in Amounts, duration \in Durations :
                  Open(s, mint, amount, duration)
            \/ \E a \in Assets, u \in cosigned, final \in BOOLEAN : ApplyState(a, s, u, final)
            \/ \E u \in cosigned :
                  \/ \E caller \in Wallets : InitiateUnilateralClose(s, caller, u)
                  \/ Challenge(s, u)
            \/ \E a \in Assets :
                  \/ Finalize(a, s)
                  \/ \E signer \in Wallets : Cancel(a, s, signer)
                  \/ Expire(a, s)
      BY <1>1, HandlersByKind
    <2>2. CASE \E mint \in Mints \cup {None}, amount \in Amounts, duration \in Durations :
                  Open(s, mint, amount, duration)
      BY <2>2, OpenStep
    <2>3. CASE \E a \in Assets, u \in cosigned, final \in BOOLEAN : ApplyState(a, s, u, final)
      BY <2>3, ApplyStateStep
    <2>4. CASE \E u \in cosigned :
                  \/ \E caller \in Wallets : InitiateUnilateralClose(s, caller, u)
                  \/ Challenge(s, u)
      BY <2>4, InitiateStep, ChallengeStep
    <2>5. CASE \E a \in Assets :
                  \/ Finalize(a, s)
                  \/ \E signer \in Wallets : Cancel(a, s, signer)
                  \/ Expire(a, s)
      BY <2>5, FinalizeStep, RefundStep DEF Cancel, Expire, CanExpire
    <2> QED
      BY <2>1, <2>2, <2>3, <2>4, <2>5
  <1>2. CASE \E signer \in Authorities, amount \in 1..ledger[SOL][FeeVault] :
                WithdrawFees(signer, amount)
    BY <1>2, WithdrawFeesStep
  <1>3. CASE \/ RegistryHandler /\ UNCHANGED escrowVars
             \/ \E u \in StateUpdates : CoSign(u)
             \/ \E s \in Sessions, mint \in Mints : CreateVault(s, mint)
             \/ Tick
             \/ UNCHANGED vars
    BY <1>3, OtherStep
  <1>4. CASE \E s \in Sessions, a \in Assets : \E amount \in 1..ledger[a][Outsider] :
                Give(a, s, amount)
    BY <1>4, GiveStep
  <1> QED
    BY <1>1, <1>2, <1>3, <1>4 DEF Next, OutsideStep

LEMMA InitInv == Init => IInv
  <1> SUFFICES ASSUME Init PROVE IInv
    OBVIOUS
  <1>1. RegistryInv
    BY RegistryInitInv DEF Init
  <1>2. TypeOK
    BY <1>1, EscrowAssumption DEF Init, RegistryInv, TypeOK
  <1>3. \A s \in Sessions : ~Exists(s)
    BY DEF Init, Exists
  <1> QED
    BY <1>1, <1>2, <1>3
       DEF IInv, RegistryInv, SessionsAnchored, EscrowBacked, PendingWithinDeposit,
           LastStateCosigned, HasStatus

-----------------------------------------------------------------------------
(***************************************************************************)
(* The theorems.                                                           *)
(***************************************************************************)

LEMMA Inductive == Spec => []IInv
  <1>1. IInv /\ [Next]_vars => IInv'
    BY NextStep DEF GoodStep
  <1> QED
    BY InitInv, <1>1, PTL DEF Spec

\* Every account stays in its type, every balance a natural number and every
\* u64 field in range, for all handlers and all interleavings.
THEOREM TypeCorrect == Spec => []TypeOK
  BY Inductive, PTL DEF IInv

\* Every session can always pay what it still owes: no order of settlements,
\* checkpoints, closes, refunds and SOL/SPL mix-ups spends its escrow twice.
THEOREM EscrowSolvent == Spec => []EscrowBacked
  BY Inductive, PTL DEF IInv

\* The amount a pending close will pay is always payable.
THEOREM PendingPayable == Spec => []PendingWithinDeposit
  BY Inductive, PTL DEF IInv

\* Every session's amounts, units and nonce come from one update that both
\* parties signed for that very session.
THEOREM MoneyFollowsSignatures == Spec => []LastStateCosigned
  BY Inductive, PTL DEF IInv

\* With the settlement handlers running too, the NFT's attributes still never
\* claim more than the Node account has earned.
THEOREM AttributesNeverAhead == Spec => []NftNeverAhead
  BY Inductive, PTL DEF IInv

\* No instruction of the program lowers a node's track record.
THEOREM TrackRecordsSurvive == Spec => TrackRecordKept
  <1>1. IInv /\ [Next]_vars => [NodesKept]_registryVars
    BY NextStep DEF GoodStep
  <1> QED
    BY Inductive, <1>1, PTL DEF Spec, TrackRecordKept, NodesKept

AllAdvance == \A s \in Sessions : Advances(s)
AllHonour == \A s \in Sessions : HonoursWindow(s)

\* Sessions only move forward: terms fixed, settled amount and nonce never
\* fall, ended sessions never change.
THEOREM SessionsOnlyAdvance == Spec => SessionAdvances
  <1>1. IInv /\ [Next]_vars => [AllAdvance]_vars
    BY NextStep DEF GoodStep, AllAdvance
  <1> QED
    BY Inductive, <1>1, PTL DEF Spec, SessionAdvances, AllAdvance

\* A close is decided by the highest nonce posted before its deadline, and
\* pays the pending amount.
THEOREM WindowIsHonoured == Spec => WindowHonoured
  <1>1. IInv /\ [Next]_vars => [AllHonour]_vars
    BY NextStep DEF GoodStep, AllHonour
  <1> QED
    BY Inductive, <1>1, PTL DEF Spec, WindowHonoured, AllHonour

-----------------------------------------------------------------------------
(***************************************************************************)
(* The exits.  A payout of what a session still owes, in its own asset,    *)
(* passes every check that the program, the token program and the runtime  *)
(* make of it.                                                             *)
(***************************************************************************)

\* What a payout of p, f and r adds to the account t.
Share(s, p, f, r, t) ==
    (IF t = ProviderOf(s) THEN p ELSE 0) + (IF t = FeeVault THEN f ELSE 0)
    + (IF t = s.consumer THEN r ELSE 0) - (IF t = s THEN p + f + r ELSE 0)

LEMMA AfterPayOutShares ==
    ASSUME TypeOK, NEW a \in Assets, NEW s \in Sessions, ProviderOf(s) \in Providers,
           NEW p \in Nat, NEW f \in Nat, NEW r \in Nat
    PROVE  \A b \in Assets, t \in Accounts :
              AfterPayOut(a, s, p, f, r)[b][t] =
                  ledger[b][t] + (IF b = a THEN Share(s, p, f, r, t) ELSE 0)
  <1> DEFINE pr == ProviderOf(s)
             c == s.consumer
             l1 == Moved(ledger, a, s, pr, p)
             l2 == Moved(l1, a, s, FeeVault, f)
             l3 == Moved(l2, a, s, c, r)
  <1>1. ledger \in Ledgers /\ \A b \in Assets, t \in Accounts : ledger[b][t] \in Int
    BY DEF TypeOK, Ledgers
  <1>2. /\ pr \in Accounts /\ FeeVault \in Accounts /\ c \in Accounts /\ s \in Accounts
        /\ p \in Int /\ f \in Int /\ r \in Int
    BY AccountSets
  <1>3. AfterPayOut(a, s, p, f, r) = l3
    BY DEF AfterPayOut
  <1> HIDE DEF pr, c
  <1>4. l1 \in Ledgers /\ \A b \in Assets, t \in Accounts : l1[b][t] = Balance(ledger, a, s, pr, p, b, t)
    <2>1. ASSUME NEW l \in Ledgers, NEW to \in Accounts
          PROVE  /\ Moved(l, a, s, to, p) \in Ledgers
                 /\ \A b \in Assets, t \in Accounts :
                       Moved(l, a, s, to, p)[b][t] = Balance(l, a, s, to, p, b, t)
      BY <1>2, MovedEffect
    <2> QED
      BY <1>1, <1>2, <2>1
  <1> HIDE DEF l1
  <1>5. l2 \in Ledgers /\ \A b \in Assets, t \in Accounts : l2[b][t] = Balance(l1, a, s, FeeVault, f, b, t)
    BY <1>2, <1>4, MovedEffect
  <1> HIDE DEF l2
  <1>6. \A b \in Assets, t \in Accounts : l3[b][t] = Balance(l2, a, s, c, r, b, t)
    BY <1>2, <1>5, MovedEffect
  <1> HIDE DEF l3
  <1>7. ASSUME NEW b \in Assets, NEW t \in Accounts
        PROVE  l3[b][t] = ledger[b][t] + (IF b = a THEN Share(s, p, f, r, t) ELSE 0)
    <2>1. /\ l1[b][t] = Balance(ledger, a, s, pr, p, b, t)
          /\ l2[b][t] = Balance(l1, a, s, FeeVault, f, b, t)
          /\ l3[b][t] = Balance(l2, a, s, c, r, b, t)
          /\ ledger[b][t] \in Int
      BY <1>1, <1>4, <1>5, <1>6
    <2>2. Share(s, p, f, r, t) =
              (IF t = pr THEN p ELSE 0) + (IF t = FeeVault THEN f ELSE 0)
              + (IF t = c THEN r ELSE 0) - (IF t = s THEN p + f + r ELSE 0)
      BY DEF Share, pr, c
    <2> QED
      BY <2>1, <2>2 DEF Balance
  <1> QED
    BY <1>3, <1>7

\* No payment that s makes to these accounts is too small for the runtime: each
\* already holds the rent of a wallet, or all but one lamport of it.
PayeesReady(s, payees) ==
    session[s].mint = None => \A acc \in payees : ledger[SOL][acc] + 1 >= WalletRent

\* The counters of the node of s take these units and the rest of the deposit.
HasRoom(s, units) == CanCredit(s.node, units, Unsettled(s))

LEMMA EscrowPays ==
    ASSUME IInv, NEW s \in Sessions, Live(s),
           NEW p \in Nat, NEW f \in Nat, NEW r \in Nat, p + f + r <= Unsettled(s),
           NEW payees, PayeesReady(s, payees),
           p > 0 => ProviderOf(s) \in payees,
           f > 0 => FeeVault \in payees,
           r > 0 => s.consumer \in payees
    PROVE  /\ AssetOf(s) = SOL => session[s].mint = None
           /\ PaysFrom(AssetOf(s), s)
           /\ CanPayOut(AssetOf(s), s, p, f, r)
  <1> DEFINE a == AssetOf(s)
             l == AfterPayOut(a, s, p, f, r)
  <1>1. /\ TypeOK /\ Exists(s) /\ Backed(s) /\ Obligation(s) = Unsettled(s)
        /\ session[s].mint \in Mints \cup {None}
        /\ session[s].deposited \in Nat /\ session[s].settled_to_provider \in Nat
    BY SessionFields DEF IInv, EscrowBacked, Live, HasStatus, Obligation
  <1>2. /\ a \in Assets /\ (a = SOL <=> session[s].mint = None)
        /\ a # SOL => a = session[s].mint
    BY <1>1, EscrowAssumption DEF AssetOf, Assets
  <1>3. PaysFrom(a, s)
    BY <1>2 DEF PaysFrom
  <1>4. ProviderOf(s) \in Providers
    BY <1>1, AccountSets
       DEF IInv, SessionsAnchored, TypeOK, RegistryTypeOK, Registered, Node, ProviderOf
  <1>5. /\ SOL \in Assets /\ s \in Accounts /\ s # FeeVault /\ s # ProviderOf(s)
        /\ s # s.consumer /\ ProviderOf(s) \notin Sessions /\ FeeVault \notin Sessions
        /\ s.consumer \notin Sessions
    BY <1>4, AccountSets
  <1>6. /\ \A b \in Assets, t \in Accounts : ledger[b][t] \in Nat
        /\ Unsettled(s) \in Int /\ SessionRent \in Nat /\ WalletRent \in 0..SessionRent
    BY <1>1, EscrowAssumption DEF TypeOK, Unsettled
  <1> HIDE DEF a
  <1>7. \A b \in Assets, t \in Accounts :
            l[b][t] = ledger[b][t] + (IF b = a THEN Share(s, p, f, r, t) ELSE 0)
    BY <1>1, <1>2, <1>4, AfterPayOutShares
  <1> HIDE DEF l
  <1>8. ledger[a][s] >= p + f + r
    BY <1>1, <1>2, <1>5, <1>6 DEF Backed
  <1>9. ASSUME NEW acc \in Accounts, l[SOL][acc] \notin {0, ledger[SOL][acc]}
        PROVE  l[SOL][acc] >= IF acc \in Sessions /\ Exists(acc) THEN SessionRent
                                                                 ELSE WalletRent
    <2>1. /\ a = SOL /\ l[SOL][acc] = ledger[SOL][acc] + Share(s, p, f, r, acc)
          /\ ledger[SOL][acc] \in Nat
      BY <1>5, <1>6, <1>7, <1>9
    <2>2. CASE acc = s
      <3>1. Share(s, p, f, r, acc) = - (p + f + r)
        BY <1>5, <2>2 DEF Share
      <3>2. ledger[SOL][s] >= SessionRent + Unsettled(s)
        BY <1>1, <1>2, <2>1 DEF Backed
      <3>3. l[SOL][acc] >= SessionRent /\ l[SOL][acc] >= WalletRent
        BY <1>6, <2>1, <2>2, <3>1, <3>2
      <3> QED
        BY <3>3
    <2>3. CASE acc \in {ProviderOf(s), FeeVault, s.consumer}
      <3>1. Share(s, p, f, r, acc) \in Nat
        BY <1>5, <2>3 DEF Share
      <3>2. Share(s, p, f, r, acc) >= 1 /\ acc \notin Sessions
        BY <1>5, <1>9, <2>1, <2>3, <3>1
      <3>3. acc \in payees
        BY <1>5, <2>3, <3>2 DEF Share
      <3>4. ledger[SOL][acc] + 1 >= WalletRent
        BY <1>2, <2>1, <3>3 DEF PayeesReady
      <3> QED
        BY <1>6, <2>1, <3>1, <3>2, <3>4
    <2>4. CASE acc \notin {s, ProviderOf(s), FeeVault, s.consumer}
      <3>1. Share(s, p, f, r, acc) = 0
        BY <2>4 DEF Share
      <3> QED
        BY <1>9, <2>1, <3>1
    <2> QED
      BY <2>2, <2>3, <2>4
  <1>10. CanPayOut(a, s, p, f, r)
    BY <1>8, <1>9 DEF CanPayOut, RentKept, RentKeptWith, l
  <1> QED
    BY <1>2, <1>3, <1>10 DEF a

\* What settling s at owed asks of the node's counters.
LEMMA NodeTakes ==
    ASSUME IInv, NEW s \in Sessions, Exists(s), NEW owed \in Nat,
           owed >= session[s].settled_to_provider, owed <= session[s].deposited,
           NEW units \in Nat, NEW newUnits \in 0..units, HasRoom(s, units)
    PROVE  /\ NetDue(s, owed) \in Nat /\ FeeDue(s, owed) \in Nat
           /\ NetDue(s, owed) + FeeDue(s, owed) = owed - session[s].settled_to_provider
           /\ CanCredit(s.node, newUnits, NetDue(s, owed))
  <1> DEFINE delta == owed - session[s].settled_to_provider
             fee == FeeFor(delta, config.fee_bps)
  <1>1. /\ TypeOK /\ session[s].deposited \in Nat /\ session[s].settled_to_provider \in Nat
    BY SessionFields DEF IInv
  <1>2. delta \in Nat /\ delta <= Unsettled(s) /\ Unsettled(s) \in Nat
    BY <1>1 DEF Unsettled
  <1>3. fee \in Nat /\ delta - fee \in Nat
    <2> HIDE DEF delta
    <2> QED BY <1>2, FeeSplit
  <1>4. NetDue(s, owed) = delta - fee /\ FeeDue(s, owed) = fee
    BY DEF NetDue, FeeDue
  <1> HIDE DEF delta, fee
  <1>5. delta = owed - session[s].settled_to_provider
    BY DEF delta
  <1>6. /\ Registered(s.node) /\ node[s.node].total_units + units <= MAX_U64
        /\ node[s.node].total_settled + Unsettled(s) <= MAX_U64
    BY DEF HasRoom, CanCredit
  <1>7. /\ node[s.node].total_units \in Nat /\ node[s.node].total_settled \in Nat
        /\ MAX_U64 \in Nat
    BY <1>1, <1>6, AccountSets, MathAssumption
       DEF TypeOK, RegistryTypeOK, Registered, Node, U64
  <1>8. CanCredit(s.node, newUnits, delta - fee)
    BY <1>2, <1>3, <1>6, <1>7 DEF CanCredit
  <1> QED
    BY <1>1, <1>2, <1>3, <1>4, <1>5, <1>8

-----------------------------------------------------------------------------
\* What may stop an exit, and the program does not rule out: a payment too small
\* for an empty account, and a counter of the node at its limit.
Unhindered(s) ==
    /\ HasStatus(s, "Open") => PayeesReady(s, {s.consumer})
    /\ HasStatus(s, "Closing") =>
          /\ PayeesReady(s, {ProviderOf(s), FeeVault, s.consumer})
          /\ HasRoom(s, session[s].pending_units)

LEMMA FinalizeReady ==
    ASSUME IInv, NEW s \in Sessions, HasStatus(s, "Closing"),
           now > session[s].challenge_deadline, Unhindered(s)
    PROVE  CanFinalize(AssetOf(s), s)
  <1> DEFINE owed == session[s].pending_payout
             rest == session[s].deposited - owed
  <1>1. /\ TypeOK /\ Exists(s) /\ Live(s)
        /\ session[s].deposited \in Nat /\ session[s].settled_to_provider \in Nat
        /\ owed \in Nat /\ session[s].pending_units \in Nat
    BY SessionFields DEF IInv, HasStatus, Live
  <1>2. owed >= session[s].settled_to_provider /\ owed <= session[s].deposited
    BY <1>1 DEF IInv, PendingWithinDeposit
  <1>3. rest \in Nat
    BY <1>1, <1>2
  <1>4. session[s].pending_units \in 0..session[s].pending_units
    BY <1>1
  <1>5. /\ NetDue(s, owed) \in Nat /\ FeeDue(s, owed) \in Nat
        /\ NetDue(s, owed) + FeeDue(s, owed) = owed - session[s].settled_to_provider
        /\ CanCredit(s.node, session[s].pending_units, NetDue(s, owed))
    <2> HIDE DEF owed
    <2> QED BY <1>1, <1>2, <1>4, NodeTakes DEF Unhindered
  <1>6. NetDue(s, owed) + FeeDue(s, owed) + rest <= Unsettled(s)
    BY <1>1, <1>5 DEF Unsettled
  <1>7. PayeesReady(s, {ProviderOf(s), FeeVault, s.consumer})
    BY DEF Unhindered
  <1> HIDE DEF rest, owed
  <1>8. /\ PaysFrom(AssetOf(s), s)
        /\ CanPayOut(AssetOf(s), s, NetDue(s, owed), FeeDue(s, owed), rest)
    BY <1>1, <1>3, <1>5, <1>6, <1>7, EscrowPays
  <1> QED
    BY <1>2, <1>5, <1>8 DEF CanFinalize, owed, rest

LEMMA ExpireReady ==
    ASSUME IInv, NEW s \in Sessions, HasStatus(s, "Open"),
           now > session[s].expiry, Unhindered(s)
    PROVE  CanExpire(AssetOf(s), s)
  <1> DEFINE rest == session[s].deposited - session[s].settled_to_provider
  <1>1. /\ TypeOK /\ Exists(s) /\ Live(s) /\ Backed(s)
        /\ session[s].deposited \in Nat /\ session[s].settled_to_provider \in Nat
    BY SessionFields DEF IInv, EscrowBacked, HasStatus, Live
  <1>2. /\ session[s].settled_to_provider <= session[s].deposited
        /\ rest \in Nat /\ rest = Unsettled(s)
    BY <1>1 DEF Backed, Unsettled
  <1>3. PayeesReady(s, {s.consumer})
    BY DEF Unhindered
  <1> HIDE DEF rest
  <1>4. 0 \in Nat /\ 0 + 0 + rest <= Unsettled(s) /\ ~ (0 > 0)
    BY <1>2
  <1>5. PaysFrom(AssetOf(s), s) /\ CanPayOut(AssetOf(s), s, 0, 0, rest)
    BY <1>1, <1>2, <1>3, <1>4, EscrowPays
  <1> QED
    BY <1>2, <1>5 DEF CanExpire, CanRefund, rest

\* The exit of every session is open as soon as its deadline has passed, unless
\* one of the two things above stops it.  Paused or not, whatever the fee, the
\* window, the checkpoints and the disputes: nothing else can.
THEOREM UnhinderedMayLeave ==
    Spec => [](\A s \in Sessions : Unhindered(s) => MayLeave(s))
  <1>1. IInv => \A s \in Sessions : Unhindered(s) => MayLeave(s)
    BY FinalizeReady, ExpireReady DEF MayLeave
  <1> QED
    BY Inductive, <1>1, PTL DEF Spec

AllUnhindered == \A s \in Sessions : Unhindered(s)

\* As long as payments to empty accounts are never too small and the counters of
\* the nodes have room, nobody is ever locked in.
THEOREM ExitsStayOpen == Spec /\ []AllUnhindered => []ExitOpen
  <1>1. AllUnhindered /\ (\A s \in Sessions : Unhindered(s) => MayLeave(s)) => ExitOpen
    BY DEF AllUnhindered, ExitOpen
  <1> QED
    BY UnhinderedMayLeave, <1>1, PTL
=============================================================================
