----------------------- MODULE EscrowRefinementProofs -----------------------
(***************************************************************************)
(* Every session that holds SOL is a payment channel, for every instance   *)
(* of the program and whatever happens around it; and so is every session, *)
(* in SOL or in tokens, as long as it is paid in kind.                     *)
(*                                                                         *)
(* What PaymentChannel allows one channel to do is first written as a      *)
(* relation between its states before and after (Move), and shown to be a  *)
(* step of the abstract specification.  Then each action of the program is *)
(* shown to be such a move of one session, on what the lemmas of the books *)
(* say of it.                                                              *)
(***************************************************************************)
EXTENDS EscrowRefinement, AccountingProofs

-----------------------------------------------------------------------------
(***************************************************************************)
(* The moves of one channel.                                               *)
(***************************************************************************)

\* Both parties have signed p, and it is newer than what channel s, which is x,
\* was last shown.
Fresh(s, x, p) ==
    /\ p \in PaymentsOf(cosigned) /\ p.channel = s
    /\ p.nonce > x.nonce /\ p.owed \in x.paid..x.deposit

Left(x) == x.held - (x.deposit - x.paid)

Funded(x, y) ==
    \E deposit \in Amounts \ {0}, expiry \in Times :
        /\ x = Null /\ expiry > now /\ y.held >= deposit
        /\ y = [phase |-> "Open", deposit |-> deposit, held |-> y.held, paid |-> 0,
                nonce |-> 0, claim |-> 0, expiry |-> expiry, deadline |-> 0]

Added(x, y) ==
    x # Null /\ y # Null /\ y.held > x.held /\ y = [x EXCEPT !.held = y.held]

PaidBy(x, p, y) ==
    /\ x # Null /\ x.phase = "Open"
    /\ y = [x EXCEPT !.paid = p.owed, !.nonce = p.nonce,
                     !.held = x.held - (p.owed - x.paid)]

SettledBy(x, p, y) ==
    /\ x # Null /\ x.phase = "Open"
    /\ y = [x EXCEPT !.phase = "Over", !.paid = p.owed, !.nonce = p.nonce,
                     !.held = Left(x)]

ContestedBy(x, p, y) ==
    /\ x # Null /\ x.phase = "Open" /\ y.deadline \in Times /\ y.deadline > now
    /\ y = [x EXCEPT !.phase = "Contested", !.claim = p.owed, !.nonce = p.nonce,
                     !.deadline = y.deadline]

AnsweredBy(x, p, y) ==
    /\ x # Null /\ x.phase = "Contested" /\ now <= x.deadline
    /\ y = [x EXCEPT !.claim = p.owed, !.nonce = p.nonce]

Resolved(x, y) ==
    /\ x # Null /\ x.phase = "Contested" /\ now > x.deadline
    /\ y = [x EXCEPT !.phase = "Over", !.paid = x.claim, !.held = Left(x)]

GivenBack(x, y) ==
    /\ x # Null /\ x.phase = "Open" /\ (x.nonce = 0 \/ now > x.expiry)
    /\ y = [x EXCEPT !.phase = "Over", !.held = Left(x)]

Shown(s, x, p, y) ==
    /\ Fresh(s, x, p)
    /\ PaidBy(x, p, y) \/ SettledBy(x, p, y) \/ ContestedBy(x, p, y) \/ AnsweredBy(x, p, y)

\* Channel s, which was x, moves to y, or stays as it is.
Move(s, x, y) ==
    \/ y = x
    \/ Funded(x, y)
    \/ Added(x, y)
    \/ \E p : Shown(s, x, p, y)
    \/ Resolved(x, y)
    \/ GivenBack(x, y)

\* Nothing was signed and no time has passed.
Quiet == UNCHANGED <<PaymentsOf(cosigned), now>>

solVars == <<SolChannels, PaymentsOf(cosigned), now>>
allVars == <<AllChannels, PaymentsOf(cosigned), now>>

\* A move of one session that holds SOL is a step of the channels in SOL.
LEMMA SolMoves ==
    ASSUME Quiet, NEW s \in Sessions,
           \A t \in Sessions : t # s => SolChannel(t)' = SolChannel(t),
           Move(s, SolChannel(s), SolChannel(s)')
    PROVE  [SolPC!Next]_solVars
  <1> DEFINE x == SolChannel(s)
             y == SolChannel(s)'
  <1>1. SolChannels' = [t \in Sessions |-> SolChannel(t)']
    BY DEF SolChannels
  <1>2. /\ SolChannels[s] = x /\ SolChannels'[s] = y
        /\ SolChannels' = [SolChannels EXCEPT ![s] = y]
    BY <1>1 DEF SolChannels
  <1>3. UNCHANGED <<PaymentsOf(cosigned), now>>
    BY DEF Quiet
  <1> HIDE DEF x, y
  <1>4. ASSUME y # x PROVE SolPC!ChannelStep(s)
    <2>1. CASE Funded(x, y)
      BY <1>2, <1>3, <2>1 DEF Funded, SolPC!ChannelStep, SolPC!Fund
    <2>2. CASE Added(x, y)
      BY <1>2, <1>3, <2>2 DEF Added, SolPC!ChannelStep, SolPC!Add
    <2>3. ASSUME NEW p, Shown(s, x, p, y) PROVE SolPC!ChannelStep(s)
      <3>1. p \in PaymentsOf(cosigned) /\ SolPC!Newer(s, p)
        BY <1>2, <2>3 DEF Shown, Fresh, SolPC!Newer
      <3>2. CASE PaidBy(x, p, y)
        <4>1. SolPC!Pay(s, p)
          BY <1>2, <1>3, <3>1, <3>2 DEF PaidBy, SolPC!Pay, SolPC!In
        <4> QED BY <3>1, <4>1 DEF SolPC!ChannelStep
      <3>3. CASE SettledBy(x, p, y)
        <4>1. SolPC!Settle(s, p)
          BY <1>2, <1>3, <3>1, <3>3 DEF SettledBy, Left, SolPC!Settle, SolPC!Emptied, SolPC!In
        <4> QED BY <3>1, <4>1 DEF SolPC!ChannelStep
      <3>4. CASE ContestedBy(x, p, y)
        <4>1. y.deadline \in Times /\ SolPC!Contest(s, p, y.deadline)
          BY <1>2, <1>3, <3>1, <3>4 DEF ContestedBy, SolPC!Contest, SolPC!In
        <4> QED BY <3>1, <4>1 DEF SolPC!ChannelStep
      <3>5. CASE AnsweredBy(x, p, y)
        <4>1. SolPC!Answer(s, p)
          BY <1>2, <1>3, <3>1, <3>5 DEF AnsweredBy, SolPC!Answer, SolPC!In
        <4> QED BY <3>1, <4>1 DEF SolPC!ChannelStep
      <3> QED
        BY <2>3, <3>2, <3>3, <3>4, <3>5 DEF Shown
    <2>4. CASE Resolved(x, y)
      BY <1>2, <1>3, <2>4
         DEF Resolved, Left, SolPC!ChannelStep, SolPC!Resolve, SolPC!Emptied, SolPC!In
    <2>5. CASE GivenBack(x, y)
      BY <1>2, <1>3, <2>5
         DEF GivenBack, Left, SolPC!ChannelStep, SolPC!GiveBack, SolPC!Emptied, SolPC!In
    <2> QED
      BY <1>4, <2>1, <2>2, <2>3, <2>4, <2>5 DEF Move, x, y
  <1>5. CASE y # x
    BY <1>2, <1>4, <1>5 DEF SolPC!Next
  <1>6. CASE y = x
    <2>1. SolChannels' = SolChannels
      BY <1>2, <1>6 DEF SolChannels
    <2> QED
      BY <1>3, <2>1 DEF solVars
  <1> QED BY <1>5, <1>6

\* A move of one session is a step of all channels.
LEMMA AllMoves ==
    ASSUME Quiet, NEW s \in Sessions,
           \A t \in Sessions : t # s => ChannelView(t)' = ChannelView(t),
           Move(s, ChannelView(s), ChannelView(s)')
    PROVE  [PC!Next]_allVars
  <1> DEFINE x == ChannelView(s)
             y == ChannelView(s)'
  <1>1. AllChannels' = [t \in Sessions |-> ChannelView(t)']
    BY DEF AllChannels
  <1>2. /\ AllChannels[s] = x /\ AllChannels'[s] = y
        /\ AllChannels' = [AllChannels EXCEPT ![s] = y]
    BY <1>1 DEF AllChannels
  <1>3. UNCHANGED <<PaymentsOf(cosigned), now>>
    BY DEF Quiet
  <1> HIDE DEF x, y
  <1>4. ASSUME y # x PROVE PC!ChannelStep(s)
    <2>1. CASE Funded(x, y)
      BY <1>2, <1>3, <2>1 DEF Funded, PC!ChannelStep, PC!Fund
    <2>2. CASE Added(x, y)
      BY <1>2, <1>3, <2>2 DEF Added, PC!ChannelStep, PC!Add
    <2>3. ASSUME NEW p, Shown(s, x, p, y) PROVE PC!ChannelStep(s)
      <3>1. p \in PaymentsOf(cosigned) /\ PC!Newer(s, p)
        BY <1>2, <2>3 DEF Shown, Fresh, PC!Newer
      <3>2. CASE PaidBy(x, p, y)
        <4>1. PC!Pay(s, p)
          BY <1>2, <1>3, <3>1, <3>2 DEF PaidBy, PC!Pay, PC!In
        <4> QED BY <3>1, <4>1 DEF PC!ChannelStep
      <3>3. CASE SettledBy(x, p, y)
        <4>1. PC!Settle(s, p)
          BY <1>2, <1>3, <3>1, <3>3 DEF SettledBy, Left, PC!Settle, PC!Emptied, PC!In
        <4> QED BY <3>1, <4>1 DEF PC!ChannelStep
      <3>4. CASE ContestedBy(x, p, y)
        <4>1. y.deadline \in Times /\ PC!Contest(s, p, y.deadline)
          BY <1>2, <1>3, <3>1, <3>4 DEF ContestedBy, PC!Contest, PC!In
        <4> QED BY <3>1, <4>1 DEF PC!ChannelStep
      <3>5. CASE AnsweredBy(x, p, y)
        <4>1. PC!Answer(s, p)
          BY <1>2, <1>3, <3>1, <3>5 DEF AnsweredBy, PC!Answer, PC!In
        <4> QED BY <3>1, <4>1 DEF PC!ChannelStep
      <3> QED
        BY <2>3, <3>2, <3>3, <3>4, <3>5 DEF Shown
    <2>4. CASE Resolved(x, y)
      BY <1>2, <1>3, <2>4
         DEF Resolved, Left, PC!ChannelStep, PC!Resolve, PC!Emptied, PC!In
    <2>5. CASE GivenBack(x, y)
      BY <1>2, <1>3, <2>5
         DEF GivenBack, Left, PC!ChannelStep, PC!GiveBack, PC!Emptied, PC!In
    <2> QED
      BY <1>4, <2>1, <2>2, <2>3, <2>4, <2>5 DEF Move, x, y
  <1>5. CASE y # x
    BY <1>2, <1>4, <1>5 DEF PC!Next
  <1>6. CASE y = x
    <2>1. AllChannels' = AllChannels
      BY <1>2, <1>6 DEF AllChannels
    <2> QED
      BY <1>3, <2>1 DEF allVars
  <1> QED BY <1>5, <1>6

-----------------------------------------------------------------------------
(***************************************************************************)
(* What a session looks like.                                              *)
(***************************************************************************)

\* The channel of a session that is record and whose escrow holds held.
ViewOf(record, held) ==
    [phase |-> IF record.status = "Open" THEN "Open"
               ELSE IF record.status = "Closing" THEN "Contested" ELSE "Over",
     deposit |-> record.deposited, held |-> held, paid |-> record.settled_to_provider,
     nonce |-> record.last_nonce, claim |-> record.pending_payout,
     expiry |-> record.expiry, deadline |-> record.challenge_deadline]

ViewTyped(x) ==
    /\ x \in [phase : {"Open", "Contested", "Over"}, deposit : Nat, held : Int, paid : Nat,
              nonce : Nat, claim : Nat, expiry : Times, deadline : Times]
    /\ x # Null

LEMMA ViewOfTyped ==
    ASSUME NEW record \in Session, NEW held \in Int
    PROVE  ViewTyped(ViewOf(record, held))
  <1>1. /\ record.expiry \in Times /\ record.challenge_deadline \in Times
        /\ record.deposited \in Nat /\ record.settled_to_provider \in Nat
        /\ record.last_nonce \in Nat /\ record.pending_payout \in Nat
    BY MathAssumption DEF Session, U64
  <1>2. ViewOf(record, held) \in SolPC!Channel
    BY <1>1 DEF ViewOf, SolPC!Channel, SolPC!Phases
  <1> QED
    BY <1>2, ChannelAssumption DEF ViewTyped, SolPC!Channel, SolPC!Phases

LEMMA ViewOfSession ==
    ASSUME NEW s \in Sessions, Exists(s)
    PROVE  ChannelView(s) = ViewOf(session[s], HeldBy(s))
  BY DEF ChannelView, ViewOf, PhaseOf

LEMMA ViewOfSessionNext ==
    ASSUME NEW s \in Sessions, Exists(s)'
    PROVE  ChannelView(s)' = ViewOf(session'[s], HeldBy(s)')
  BY DEF ChannelView, ViewOf, PhaseOf

\* What the escrow of a session holds, read off the ledger.
LEMMA HeldInLedger ==
    ASSUME TypeOK, NEW s \in Sessions, Exists(s)
    PROVE  /\ AssetOf(s) \in Assets
           /\ HeldBy(s) = ledger[AssetOf(s)][s]
                          - (IF session[s].mint = None THEN SessionRent ELSE 0)
           /\ HeldBy(s) \in Int /\ ledger[AssetOf(s)][s] \in Nat
  <1>1. session[s].mint \in Mints \cup {None} /\ SessionRent \in Int
    BY SessionFields, EscrowAssumption
  <1>2. AssetOf(s) \in Assets
    BY <1>1 DEF AssetOf, Assets
  <1>3. ledger[AssetOf(s)][s] \in Nat
    BY <1>2, Roles DEF TypeOK
  <1>4. HeldBy(s) = ledger[AssetOf(s)][s]
                    - (IF session[s].mint = None THEN SessionRent ELSE 0)
    BY <1>1, <1>3 DEF HeldBy, AssetOf
  <1> QED
    BY <1>1, <1>2, <1>3, <1>4

\* Whatever leaves the record and the escrow of a session alone is not seen.
LEMMA Unseen ==
    ASSUME TypeOK, NEW t \in Sessions, session'[t] = session[t],
           \A b \in Assets : ledger'[b][t] = ledger[b][t]
    PROVE  ChannelView(t)' = ChannelView(t) /\ SolChannel(t)' = SolChannel(t)
  <1>1. CASE ~Exists(t)
    BY <1>1 DEF ChannelView, SolChannel, Exists
  <1>2. CASE Exists(t)
    <2>1. session[t].mint \in Mints \cup {None} /\ SOL \in Assets /\ Mints \subseteq Assets
      BY <1>2, SessionFields, Roles
    <2>2. HeldBy(t)' = HeldBy(t)
      BY <2>1 DEF HeldBy
    <2> QED
      BY <2>2 DEF ChannelView, SolChannel, PhaseOf, Exists
  <1> QED BY <1>1, <1>2

-----------------------------------------------------------------------------
(***************************************************************************)
(* The steps of one session.                                               *)
(***************************************************************************)

Moves(s) == Move(s, ChannelView(s), ChannelView(s)')

\* A step of session s, seen as a step of channels: always if it holds SOL, and
\* if it is paid in kind whatever it holds.
StepOf(s) ==
    /\ s \in Sessions /\ Quiet
    /\ \A t \in Sessions : t # s =>
          ChannelView(t)' = ChannelView(t) /\ SolChannel(t)' = SolChannel(t)
    /\ PaidInKind(s) => Moves(s)
    /\ \/ SolChannel(s)' = SolChannel(s)
       \/ /\ SolChannel(s) = ChannelView(s) /\ SolChannel(s)' = ChannelView(s)'
          /\ Moves(s)

\* A payout of a session that holds SOL is in kind: the SPL handlers reject it.
LEMMA SolPaidInKind ==
    ASSUME IInv, NEW a \in Assets, NEW s \in Sessions, NEW p, NEW f, NEW r, NEW units,
           NEW reward, NEW record, Pays(a, s, p, f, r, units, reward, record),
           session[s].mint = None
    PROVE  PaidInKind(s)
  <1>1. a = SOL /\ AssetOf(s) = SOL
    BY DEF Pays, PaysFrom, AssetOf
  <1>2. \A b \in Assets : b # SOL => ledger'[b][s] = ledger[b][s] + 0
    BY <1>1, PaysEffect, Roles
  <1>3. \A b \in Assets : ledger[b][s] \in Int
    BY BookTypes, Roles DEF BooksTyped, IInv
  <1>4. \A b \in Assets : b # SOL => ~(ledger'[b][s] < ledger[b][s])
    BY <1>2, <1>3
  <1> QED
    BY <1>1, <1>4 DEF PaidInKind

\* What a payout in kind makes of the view of its session.
LEMMA CleanPaysView ==
    ASSUME IInv, NEW s \in Sessions, NEW p, NEW f, NEW r, NEW units, NEW reward, NEW record,
           CleanPays(s, p, f, r, units, reward, record)
    PROVE  \E h \in Int :
              /\ ChannelView(s) = ViewOf(session[s], h)
              /\ ChannelView(s)' = ViewOf(record, h - (p + f + r))
              /\ ViewTyped(ViewOf(session[s], h))
              /\ ViewTyped(ViewOf(record, h - (p + f + r)))
  <1> DEFINE b == AssetOf(s)
             rent == IF session[s].mint = None THEN SessionRent ELSE 0
             h == HeldBy(s)
             paid == p + f + r
  <1>1. /\ TypeOK /\ Exists(s) /\ session[s] \in Session /\ record \in Session
        /\ record # Null /\ session'[s] = record /\ record.mint = session[s].mint
        /\ p \in Nat /\ f \in Nat /\ r \in Nat /\ ProviderOf(s) \in Providers
    BY SessionFields DEF CleanPays, IInv
  <1>2. /\ b \in Assets /\ h = ledger[b][s] - rent /\ h \in Int /\ ledger[b][s] \in Nat
        /\ rent \in Int
    BY <1>1, HeldInLedger, EscrowAssumption
  <1>3. Share(s, p, f, r, s) = - paid
    BY <1>1, Roles DEF Share
  <1>4. ledger'[b][s] = ledger[b][s] - paid
    <2>1. ledger'[b][s] = ledger[b][s] + Share(s, p, f, r, s)
      BY <1>2, Roles DEF CleanPays
    <2> QED
      BY <1>1, <1>2, <1>3, <2>1
  <1>5. Exists(s)'
    BY <1>1 DEF Exists
  <1>6. HeldBy(s)' = ledger'[b][s] - rent
    <2>1. session[s].mint \in Mints \cup {None} /\ SessionRent \in Int
      BY <1>1, SessionFields, EscrowAssumption
    <2>2. ledger'[b][s] \in Int
      BY <1>1, <1>2, <1>4
    <2> QED
      BY <1>1, <2>1, <2>2 DEF HeldBy, AssetOf
  <1>7. HeldBy(s)' = h - paid /\ h - paid \in Int /\ h \in Int
    BY <1>1, <1>2, <1>4, <1>6
  <1>8. /\ ChannelView(s) = ViewOf(session[s], h)
        /\ ChannelView(s)' = ViewOf(record, h - paid)
    BY <1>1, <1>5, <1>7, ViewOfSession, ViewOfSessionNext
  <1> HIDE DEF h, paid
  <1>9. ViewTyped(ViewOf(session[s], h)) /\ ViewTyped(ViewOf(record, h - paid))
    BY <1>1, <1>7, ViewOfTyped
  <1> QED
    BY <1>7, <1>8, <1>9 DEF paid

\* A payout is a step of its session, if it is a move of it when it is in kind.
LEMMA PayoutStep ==
    ASSUME IInv, Quiet, NEW a \in Assets, NEW s \in Sessions, NEW p, NEW f, NEW r,
           NEW units, NEW reward, NEW record, Pays(a, s, p, f, r, units, reward, record),
           CleanPays(s, p, f, r, units, reward, record) => Moves(s)
    PROVE  StepOf(s)
  <1>1. /\ TypeOK /\ Exists(s) /\ record # Null /\ record.mint = session[s].mint
        /\ ProviderOf(s) \in Providers
        /\ \A t \in Sessions : t # s => session'[t] = session[t]
        /\ session'[s] \in {Null, record}
    <2>1. /\ ProviderOf(s) \in Providers
          /\ session'[s] = IF ledger'[SOL][s] = 0 THEN Null ELSE record
          /\ \A t \in Sessions : t # s => session'[t] = session[t]
      BY PaysEffect
    <2>2. Live(s) /\ record \in Session /\ record.mint = session[s].mint
      BY DEF Pays
    <2> QED
      BY <2>1, <2>2, EscrowAssumption DEF IInv, Live, HasStatus
  <1>2. ASSUME NEW t \in Sessions, t # s
        PROVE  ChannelView(t)' = ChannelView(t) /\ SolChannel(t)' = SolChannel(t)
    <2>1. Share(s, p, f, r, t) = 0
      BY <1>1, <1>2, Roles DEF Share
    <2>2. \A b \in Assets : ledger'[b][t] = ledger[b][t]
      BY <1>1, <2>1, PaysEffect, BookTypes, Roles DEF BooksTyped
    <2> QED
      BY <1>1, <1>2, <2>2, Unseen
  <1>3. PaidInKind(s) => Moves(s)
    BY PayoutIsClean
  <1>4. CASE session[s].mint # None
    BY <1>1, <1>2, <1>3, <1>4 DEF StepOf, SolChannel, Exists
  <1>5. CASE session[s].mint = None
    <2>1. CleanPays(s, p, f, r, units, reward, record)
      BY <1>5, SolPaidInKind, PayoutIsClean
    <2>2. session'[s] = record
      BY <2>1 DEF CleanPays
    <2>3. SolChannel(s) = ChannelView(s) /\ SolChannel(s)' = ChannelView(s)'
      BY <1>1, <1>5, <2>2 DEF SolChannel, Exists
    <2> QED
      BY <1>2, <2>1, <2>3 DEF StepOf
  <1> QED BY <1>4, <1>5

\* An update that verifies for s is a fresh payment of its channel.
LEMMA VerifiedIsFresh ==
    ASSUME IInv, NEW s \in Sessions, Exists(s), NEW h,
           NEW u \in cosigned, VerifyCosignedState(s, u)
    PROVE  /\ Fresh(s, ViewOf(session[s], h), Payment(u))
           /\ Payment(u).owed = u.owed_to_provider /\ Payment(u).nonce = u.nonce
           /\ u.owed_to_provider \in U64 /\ u.nonce \in U64 /\ u.units_consumed \in U64
           /\ Payment(u).owed \in Nat /\ Payment(u).nonce \in Nat
  <1>1. /\ TypeOK /\ session[s].deposited \in Nat
        /\ session[s].settled_to_provider \in Nat
    BY SessionFields DEF IInv
  <1>2. /\ u.owed_to_provider \in U64 /\ u.nonce \in U64 /\ u.units_consumed \in U64
        /\ u.owed_to_provider \in Nat /\ u.nonce \in Nat
    BY <1>1, MathAssumption DEF TypeOK, StateUpdate, U64
  <1>3. Payment(u) \in PaymentsOf(cosigned)
    BY DEF PaymentsOf
  <1>4. /\ u.nonce > session[s].last_nonce /\ u.session = s
        /\ u.owed_to_provider \in session[s].settled_to_provider..session[s].deposited
    BY <1>1, <1>2 DEF VerifyCosignedState
  <1>5. /\ Payment(u).owed = u.owed_to_provider /\ Payment(u).nonce = u.nonce
        /\ Payment(u).channel = u.session
    BY DEF Payment
  <1>6. /\ ViewOf(session[s], h).nonce = session[s].last_nonce
        /\ ViewOf(session[s], h).paid = session[s].settled_to_provider
        /\ ViewOf(session[s], h).deposit = session[s].deposited
    BY DEF ViewOf
  <1> QED
    BY <1>2, <1>3, <1>4, <1>5, <1>6 DEF Fresh

LEMMA ApplyStateIsStep ==
    ASSUME IInv, NEW a \in Assets, NEW s \in Sessions, NEW u \in cosigned,
           NEW final \in BOOLEAN, ApplyState(a, s, u, final)
    PROVE  StepOf(s)
  <1> DEFINE record == Applied(s, u, final)
             q == Payment(u)
  <1>1. /\ HasStatus(s, "Open") /\ VerifyCosignedState(s, u) /\ UNCHANGED <<cosigned, now>>
    BY DEF ApplyState, CanApply, NetDue, FeeDue, Remainder, NewUnits
  <1>2. /\ Exists(s) /\ session[s].status = "Open" /\ session[s] \in Session
        /\ session[s].deposited \in Nat /\ session[s].settled_to_provider \in Nat
    BY <1>1, SessionFields DEF IInv, HasStatus
  <1>3. PICK p, f, r, units, reward : Pays(a, s, p, f, r, units, reward, record)
    BY ApplyStatePays
  <1>4. ASSUME CleanPays(s, p, f, r, units, reward, record) PROVE Moves(s)
    <2>1. PICK h \in Int :
              /\ ChannelView(s) = ViewOf(session[s], h)
              /\ ChannelView(s)' = ViewOf(record, h - (p + f + r))
              /\ ViewTyped(ViewOf(session[s], h))
              /\ ViewTyped(ViewOf(record, h - (p + f + r)))
      <3> HIDE DEF record
      <3> QED
        BY <1>4, CleanPaysView
    <2> DEFINE x == ViewOf(session[s], h)
               y == ViewOf(record, h - (p + f + r))
    <2>2. /\ Fresh(s, x, q) /\ q.owed = u.owed_to_provider /\ q.nonce = u.nonce
          /\ u.owed_to_provider \in U64 /\ u.nonce \in U64 /\ u.units_consumed \in U64
          /\ q.owed \in Nat /\ q.nonce \in Nat
      BY <1>1, <1>2, VerifiedIsFresh
    <2>3. /\ record.status = (IF final THEN "Settled" ELSE "Open")
          /\ record.settled_to_provider = q.owed /\ record.last_nonce = q.nonce
          /\ record.deposited = session[s].deposited /\ record.expiry = session[s].expiry
          /\ record.pending_payout = session[s].pending_payout
          /\ record.challenge_deadline = session[s].challenge_deadline
      BY <1>2, <2>2 DEF Session, Applied
    <2> HIDE DEF record, q
    <2>4. /\ p \in Nat /\ f \in Nat /\ r \in Nat
          /\ p + f = q.owed - session[s].settled_to_provider
          /\ IF final THEN p + f + r = session[s].deposited - session[s].settled_to_provider
             ELSE r = 0
      <3>1. /\ p \in Nat /\ f \in Nat /\ r \in Nat
            /\ record.settled_to_provider = session[s].settled_to_provider + (p + f)
            /\ IF record.status = "Open" THEN r = 0 ELSE p + f + r = Unsettled(s)
        BY <1>4 DEF CleanPays
      <3> QED
        BY <1>2, <2>2, <2>3, <3>1 DEF Unsettled
    <2>5. /\ x.phase = "Open" /\ x.deposit = session[s].deposited /\ x.held = h
          /\ x.paid = session[s].settled_to_provider
          /\ x.claim = session[s].pending_payout /\ x.expiry = session[s].expiry
          /\ x.deadline = session[s].challenge_deadline
      BY <1>2 DEF ViewOf
    <2>6. /\ y.phase = (IF final THEN "Over" ELSE "Open") /\ y.paid = q.owed
          /\ y.held = h - (p + f + r) /\ y.nonce = q.nonce /\ y.deposit = x.deposit
          /\ y.claim = x.claim /\ y.expiry = x.expiry /\ y.deadline = x.deadline
      BY <2>3, <2>5 DEF ViewOf
    <2>7. ViewTyped(x) /\ ViewTyped(y) /\ x = ChannelView(s) /\ y = ChannelView(s)'
      BY <2>1
    <2>8. y.held = IF final THEN Left(x) ELSE x.held - (q.owed - x.paid)
      BY <1>2, <2>2, <2>4, <2>5, <2>6 DEF Left
    <2> HIDE DEF x, y
    <2>9. Shown(s, x, q, y)
      <3>1. CASE final
        <4>1. y = [x EXCEPT !.phase = y.phase, !.paid = y.paid, !.nonce = y.nonce,
                            !.held = y.held]
          BY <2>6, <2>7 DEF ViewTyped
        <4>2. /\ y.phase = "Over" /\ y.paid = q.owed /\ y.nonce = q.nonce
              /\ y.held = Left(x) /\ x # Null /\ x.phase = "Open"
          BY <2>5, <2>6, <2>7, <2>8, <3>1 DEF ViewTyped
        <4>3. SettledBy(x, q, y)
          BY <4>1, <4>2 DEF SettledBy
        <4> QED BY <2>2, <4>3 DEF Shown
      <3>2. CASE ~final
        <4>1. y = [x EXCEPT !.paid = y.paid, !.nonce = y.nonce, !.held = y.held]
          <5>1. y.phase = x.phase
            BY <2>5, <2>6, <3>2
          <5> QED
            BY <2>6, <2>7, <5>1 DEF ViewTyped
        <4>2. /\ y.paid = q.owed /\ y.nonce = q.nonce
              /\ y.held = x.held - (q.owed - x.paid) /\ x # Null /\ x.phase = "Open"
          BY <2>5, <2>6, <2>7, <2>8, <3>2 DEF ViewTyped
        <4>3. PaidBy(x, q, y)
          BY <4>1, <4>2 DEF PaidBy
        <4> QED BY <2>2, <4>3 DEF Shown
      <3> QED BY <3>1, <3>2
    <2> QED
      BY <2>7, <2>9 DEF Moves, Move
  <1> HIDE DEF record
  <1> QED
    BY <1>1, <1>3, <1>4, PayoutStep DEF Quiet, PaymentsOf

\* The end of a session that shows nothing new.
LEMMA EndView ==
    ASSUME IInv, NEW s \in Sessions, NEW p, NEW f, NEW r, NEW units, NEW reward,
           NEW paid, NEW status \in {"Settled", "Cancelled", "Expired"},
           CleanPays(s, p, f, r, units, reward, Ended(s, paid, status))
    PROVE  LET x == ChannelView(s)
               y == ChannelView(s)'
           IN  /\ y = [x EXCEPT !.phase = "Over", !.paid = paid, !.held = Left(x)]
               /\ \E h \in Int : x = ViewOf(session[s], h) /\ ViewTyped(x)
  <1> DEFINE record == Ended(s, paid, status)
  <1>1. /\ Exists(s) /\ session[s] \in Session
        /\ session[s].deposited \in Nat /\ session[s].settled_to_provider \in Nat
    BY SessionFields DEF IInv, CleanPays
  <1>2. /\ record.status = status /\ record.settled_to_provider = paid
        /\ record.deposited = session[s].deposited /\ record.expiry = session[s].expiry
        /\ record.last_nonce = session[s].last_nonce
        /\ record.pending_payout = session[s].pending_payout
        /\ record.challenge_deadline = session[s].challenge_deadline
    BY <1>1 DEF Session, Ended
  <1> HIDE DEF record
  <1>3. CleanPays(s, p, f, r, units, reward, record)
    BY DEF record
  <1>4. PICK h \in Int :
            /\ ChannelView(s) = ViewOf(session[s], h)
            /\ ChannelView(s)' = ViewOf(record, h - (p + f + r))
            /\ ViewTyped(ViewOf(session[s], h))
            /\ ViewTyped(ViewOf(record, h - (p + f + r)))
    BY <1>3, CleanPaysView
  <1>5. /\ p \in Nat /\ f \in Nat /\ r \in Nat
        /\ p + f + r = session[s].deposited - session[s].settled_to_provider
    BY <1>2, <1>3 DEF CleanPays, Unsettled
  <1> DEFINE x == ViewOf(session[s], h)
             y == ViewOf(record, h - (p + f + r))
  <1>6. /\ x.deposit = session[s].deposited /\ x.held = h
        /\ x.paid = session[s].settled_to_provider /\ x.nonce = session[s].last_nonce
        /\ x.claim = session[s].pending_payout /\ x.expiry = session[s].expiry
        /\ x.deadline = session[s].challenge_deadline
    BY DEF ViewOf
  <1>7. /\ y.phase = "Over" /\ y.paid = paid /\ y.held = h - (p + f + r)
        /\ y.nonce = x.nonce /\ y.deposit = x.deposit
        /\ y.claim = x.claim /\ y.expiry = x.expiry /\ y.deadline = x.deadline
    BY <1>2, <1>6 DEF ViewOf
  <1>8. y.held = Left(x)
    BY <1>1, <1>5, <1>6, <1>7 DEF Left
  <1>9. ViewTyped(x) /\ ViewTyped(y) /\ x = ChannelView(s) /\ y = ChannelView(s)'
    BY <1>4
  <1>10. x = ViewOf(session[s], h)
    OBVIOUS
  <1> HIDE DEF x, y
  <1>11. y = [x EXCEPT !.phase = y.phase, !.paid = y.paid, !.held = y.held]
    BY <1>7, <1>9 DEF ViewTyped
  <1>12. y = [x EXCEPT !.phase = "Over", !.paid = paid, !.held = Left(x)]
    BY <1>7, <1>8, <1>11
  <1> QED
    BY <1>9, <1>10, <1>12

LEMMA FinalizeIsStep ==
    ASSUME IInv, NEW a \in Assets, NEW s \in Sessions, Finalize(a, s)
    PROVE  StepOf(s)
  <1> DEFINE owed == session[s].pending_payout
             record == Ended(s, owed, "Settled")
             x == ChannelView(s)
             y == ChannelView(s)'
  <1>1. /\ HasStatus(s, "Closing") /\ now > session[s].challenge_deadline
        /\ UNCHANGED <<cosigned, now>>
    BY DEF Finalize, CanFinalize, NetDue, FeeDue
  <1>2. PICK p, f, r, units, reward : Pays(a, s, p, f, r, units, reward, record)
    BY FinalizePays
  <1>3. ASSUME CleanPays(s, p, f, r, units, reward, record) PROVE Moves(s)
    <2>1. /\ y = [x EXCEPT !.phase = "Over", !.paid = owed, !.held = Left(x)]
          /\ \E h \in Int : x = ViewOf(session[s], h) /\ ViewTyped(x)
      <3> HIDE DEF owed
      <3> QED
        BY <1>3, EndView
    <2>2. /\ x # Null /\ x.phase = "Contested" /\ x.claim = owed
          /\ x.deadline = session[s].challenge_deadline
      BY <1>1, <2>1 DEF ViewOf, ViewTyped, HasStatus
    <2> HIDE DEF x, y, owed
    <2>3. Resolved(x, y)
      BY <1>1, <2>1, <2>2 DEF Resolved
    <2> QED
      BY <2>3 DEF Moves, Move, x, y
  <1> HIDE DEF record
  <1> QED
    BY <1>1, <1>2, <1>3, PayoutStep DEF Quiet, PaymentsOf

LEMMA RefundIsStep ==
    ASSUME IInv, NEW a \in Assets, NEW s \in Sessions, HasStatus(s, "Open"),
           session[s].last_nonce = 0 \/ now > session[s].expiry,
           NEW status \in {"Cancelled", "Expired"}, Refund(a, s, status)
    PROVE  StepOf(s)
  <1> DEFINE paid == session[s].settled_to_provider
             record == Ended(s, paid, status)
             x == ChannelView(s)
             y == ChannelView(s)'
  <1>1. UNCHANGED <<cosigned, now>>
    BY DEF Refund, CanRefund
  <1>2. Exists(s) /\ session[s] \in Session /\ session[s].status = "Open"
    BY SessionFields DEF IInv, HasStatus
  <1>3. PICK p, f, r, units, reward : Pays(a, s, p, f, r, units, reward, record)
    <2>1. record = [session[s] EXCEPT !.status = status]
      BY <1>2 DEF Session, Ended
    <2> HIDE DEF record
    <2> QED
      BY <2>1, RefundPays
  <1>4. ASSUME CleanPays(s, p, f, r, units, reward, record) PROVE Moves(s)
    <2>1. /\ y = [x EXCEPT !.phase = "Over", !.paid = paid, !.held = Left(x)]
          /\ \E h \in Int : x = ViewOf(session[s], h) /\ ViewTyped(x)
      <3> HIDE DEF paid
      <3> QED
        BY <1>4, EndView
    <2>2. /\ x.phase = "Open" /\ x.paid = paid /\ x.nonce = session[s].last_nonce
          /\ x.expiry = session[s].expiry /\ ViewTyped(x)
      BY <1>2, <2>1 DEF ViewOf
    <2> HIDE DEF x, y, paid
    <2>3. [x EXCEPT !.phase = "Over", !.paid = x.paid, !.held = Left(x)]
          = [x EXCEPT !.phase = "Over", !.held = Left(x)]
      BY <2>2 DEF ViewTyped
    <2>4. GivenBack(x, y)
      BY <2>1, <2>2, <2>3 DEF GivenBack, ViewTyped
    <2> QED
      BY <2>4 DEF Moves, Move, x, y
  <1> HIDE DEF record
  <1> QED
    BY <1>1, <1>3, <1>4, PayoutStep DEF Quiet, PaymentsOf

\* A step that changes the record of s and moves no money.
LEMMA RecordStep ==
    ASSUME IInv, Quiet, NEW s \in Sessions, Exists(s), NEW record \in Session,
           session' = [session EXCEPT ![s] = record], record.mint = session[s].mint,
           UNCHANGED ledger,
           \A h \in Int : Move(s, ViewOf(session[s], h), ViewOf(record, h))
    PROVE  StepOf(s)
  <1>1. /\ TypeOK /\ record # Null /\ session'[s] = record
        /\ \A t \in Sessions : t # s => session'[t] = session[t]
    BY EscrowAssumption DEF IInv, TypeOK
  <1>2. \A t \in Sessions : t # s =>
           ChannelView(t)' = ChannelView(t) /\ SolChannel(t)' = SolChannel(t)
    BY <1>1, Unseen
  <1>3. Exists(s)' /\ HeldBy(s) \in Int /\ HeldBy(s)' = HeldBy(s)
    BY <1>1, HeldInLedger DEF Exists, HeldBy
  <1>4. /\ ChannelView(s) = ViewOf(session[s], HeldBy(s))
        /\ ChannelView(s)' = ViewOf(record, HeldBy(s))
    BY <1>1, <1>3, ViewOfSession, ViewOfSessionNext
  <1>5. Moves(s)
    BY <1>3, <1>4 DEF Moves
  <1>6. \/ SolChannel(s)' = SolChannel(s)
        \/ SolChannel(s) = ChannelView(s) /\ SolChannel(s)' = ChannelView(s)'
    BY <1>1 DEF SolChannel, Exists
  <1> QED
    BY <1>2, <1>5, <1>6 DEF StepOf

\* Initiate and challenge: the claim and the nonce change, no money moves.
LEMMA DisputeIsStep ==
    ASSUME IInv, NEW s \in Sessions, Live(s),
           NEW u \in cosigned, VerifyCosignedState(s, u), NEW deadline \in Times,
           session' = [session EXCEPT ![s] = Disputed(s, u, deadline)],
           UNCHANGED <<ledger, cosigned, now>>,
           \/ HasStatus(s, "Open") /\ deadline > now
           \/ /\ HasStatus(s, "Closing") /\ deadline = session[s].challenge_deadline
              /\ now <= deadline
    PROVE  StepOf(s)
  <1> DEFINE record == Disputed(s, u, deadline)
             q == Payment(u)
  <1>1. TypeOK /\ Exists(s) /\ session[s] \in Session
    BY SessionFields DEF IInv, Live, HasStatus
  <1>2. /\ q.owed = u.owed_to_provider /\ q.nonce = u.nonce
        /\ u.owed_to_provider \in U64 /\ u.nonce \in U64 /\ u.units_consumed \in U64
    BY <1>1, VerifiedIsFresh
  <1>3. record \in Session
    BY <1>1, <1>2 DEF Disputed, Session, SessionStatus
  <1>4. /\ record.status = "Closing" /\ record.pending_payout = q.owed
        /\ record.last_nonce = q.nonce /\ record.challenge_deadline = deadline
        /\ record.deposited = session[s].deposited /\ record.expiry = session[s].expiry
        /\ record.settled_to_provider = session[s].settled_to_provider
        /\ record.mint = session[s].mint
    BY <1>1, <1>2 DEF Session, Disputed
  <1>5. session' = [session EXCEPT ![s] = record]
    OBVIOUS
  <1> HIDE DEF record, q
  <1>6. ASSUME NEW h \in Int PROVE Move(s, ViewOf(session[s], h), ViewOf(record, h))
    <2> DEFINE x == ViewOf(session[s], h)
               y == ViewOf(record, h)
    <2>1. Fresh(s, x, q)
      BY <1>1, VerifiedIsFresh DEF q
    <2>2. ViewTyped(x) /\ ViewTyped(y)
      BY <1>1, <1>3, ViewOfTyped
    <2>3. /\ y.phase = "Contested" /\ y.claim = q.owed /\ y.nonce = q.nonce
          /\ y.deadline = deadline /\ y.deposit = x.deposit /\ y.held = x.held
          /\ y.paid = x.paid /\ y.expiry = x.expiry
      BY <1>4 DEF ViewOf
    <2>4. /\ HasStatus(s, "Open") => x.phase = "Open"
          /\ HasStatus(s, "Closing") => x.phase = "Contested"
          /\ x.deadline = session[s].challenge_deadline
      BY DEF ViewOf, HasStatus
    <2> HIDE DEF x, y
    <2>5. y = [x EXCEPT !.phase = "Contested", !.claim = y.claim, !.nonce = y.nonce,
                        !.deadline = y.deadline]
      BY <2>2, <2>3 DEF ViewTyped
    <2>6. CASE HasStatus(s, "Open") /\ deadline > now
      <3>1. ContestedBy(x, q, y)
        BY <2>2, <2>3, <2>4, <2>5, <2>6 DEF ContestedBy, ViewTyped
      <3> QED
        BY <2>1, <3>1 DEF Shown, Move, x, y
    <2>7. CASE /\ HasStatus(s, "Closing") /\ deadline = session[s].challenge_deadline
               /\ now <= deadline
      <3>1. y = [x EXCEPT !.claim = y.claim, !.nonce = y.nonce]
        <4>1. x.phase = y.phase /\ x.deadline = y.deadline
          BY <2>3, <2>4, <2>7
        <4> QED
          BY <2>2, <2>3, <4>1 DEF ViewTyped
      <3>2. AnsweredBy(x, q, y)
        BY <2>2, <2>3, <2>4, <2>7, <3>1 DEF AnsweredBy, ViewTyped
      <3> QED
        BY <2>1, <3>2 DEF Shown, Move, x, y
    <2> QED BY <2>6, <2>7 DEF x, y
  <1> QED
    BY <1>1, <1>3, <1>4, <1>5, <1>6, RecordStep DEF Quiet, PaymentsOf

LEMMA InitiateIsStep ==
    ASSUME IInv, NEW s \in Sessions, NEW u \in cosigned, NEW caller \in Wallets,
           InitiateUnilateralClose(s, caller, u)
    PROVE  StepOf(s)
  <1> DEFINE deadline == now + config.challenge_window_secs
  <1>1. /\ HasStatus(s, "Open") /\ VerifyCosignedState(s, u) /\ deadline <= HORIZON
        /\ UNCHANGED <<ledger, cosigned, now>>
    BY DEF InitiateUnilateralClose
  <1>2. TypeOK /\ Exists(s) /\ Live(s) /\ session[s] \in Session
    BY <1>1, SessionFields DEF IInv, HasStatus, Live
  <1>3. deadline \in Times /\ deadline > now
    <2>1. config.challenge_window_secs \in Nat \ {0}
      BY <1>2 DEF IInv, SessionsAnchored, TypeOK, RegistryTypeOK, Config
    <2>2. now \in Nat /\ HORIZON \in Nat
      BY <1>2, EscrowAssumption DEF TypeOK
    <2> QED
      BY <1>1, <2>1, <2>2 DEF Times
  <1>4. session' = [session EXCEPT ![s] = Disputed(s, u, deadline)]
    BY <1>2 DEF InitiateUnilateralClose, Disputed, TypeOK, Session
  <1> HIDE DEF deadline
  <1> QED
    BY <1>1, <1>2, <1>3, <1>4, DisputeIsStep

LEMMA ChallengeIsStep ==
    ASSUME IInv, NEW s \in Sessions, NEW u \in cosigned, Challenge(s, u)
    PROVE  StepOf(s)
  <1> DEFINE deadline == session[s].challenge_deadline
  <1>1. /\ HasStatus(s, "Closing") /\ now <= deadline /\ VerifyCosignedState(s, u)
        /\ UNCHANGED <<ledger, cosigned, now>>
    BY DEF Challenge, CanChallenge
  <1>2. /\ TypeOK /\ Exists(s) /\ Live(s) /\ session[s] \in Session
        /\ session[s].status = "Closing"
    BY <1>1, SessionFields DEF IInv, HasStatus, Live
  <1>3. deadline \in Times
    BY <1>2 DEF Session
  <1>4. session' = [session EXCEPT ![s] = Disputed(s, u, deadline)]
    BY <1>2 DEF Challenge, Disputed, TypeOK, Session, CanChallenge
  <1>5. deadline = session[s].challenge_deadline
    OBVIOUS
  <1> HIDE DEF deadline
  <1> QED
    BY <1>1, <1>2, <1>3, <1>4, <1>5, DisputeIsStep

\* A session opens on an escrow that may hold something already.
LEMMA OpenIsStep ==
    ASSUME IInv, NEW s \in Sessions, NEW mint \in Mints \cup {None},
           NEW amount \in Amounts, NEW duration \in Durations,
           Open(s, mint, amount, duration)
    PROVE  StepOf(s)
  <1> DEFINE a == IF mint = None THEN SOL ELSE mint
             record == [status |-> "Open", mint |-> mint, deposited |-> amount,
                        settled_to_provider |-> 0, last_nonce |-> 0,
                        expiry |-> now + duration, challenge_deadline |-> 0,
                        pending_payout |-> 0, pending_units |-> 0]
             y == ChannelView(s)'
  <1>1. /\ ~Exists(s) /\ amount > 0
        /\ duration \in MIN_DURATION_SECS..MAX_DURATION_SECS /\ now + duration <= HORIZON
        /\ session' = [session EXCEPT ![s] = record]
        /\ UNCHANGED <<cosigned, now>>
    BY DEF Open
  <1>2. TypeOK /\ SOL \in Assets /\ Mints \subseteq Assets
    BY Roles DEF IInv
  <1>3. now + duration \in Times /\ now + duration > now
    BY <1>1, <1>2, EscrowAssumption DEF TypeOK, Times
  <1>4. record \in Session /\ amount \in Nat
    <2>1. 0 \in Times /\ 0 \in U64 /\ amount \in U64 /\ amount \in Nat
      BY EscrowAssumption, MathAssumption DEF Times, U64
    <2> QED
      BY <1>3, <2>1 DEF Session, SessionStatus
  <1>5. /\ session'[s] = record /\ record # Null
        /\ \A t \in Sessions : t # s => session'[t] = session[t]
    BY <1>1, <1>2, <1>4, EscrowAssumption DEF TypeOK
  <1>6. \A b \in Assets, t \in Accounts :
            ledger'[b][t] = ledger[b][t]
                            + (IF t = s THEN PaidIn(s, mint, amount, b) ELSE 0)
                            - (IF t = s.consumer THEN PaidIn(s, mint, amount, b) ELSE 0)
    BY OpenOpens
  <1>7. ASSUME NEW t \in Sessions, t # s
        PROVE  ChannelView(t)' = ChannelView(t) /\ SolChannel(t)' = SolChannel(t)
    <2>1. t \in Accounts /\ t # s.consumer
      BY Roles
    <2>2. \A b \in Assets : ledger'[b][t] = ledger[b][t]
      BY <1>2, <1>6, <1>7, <2>1 DEF TypeOK
    <2> QED
      BY <1>2, <1>5, <1>7, <2>2, Unseen
  <1>8. a \in Assets /\ ledger[a][s] \in Nat /\ SessionRent \in Nat
    BY <1>2, Roles, EscrowAssumption DEF TypeOK
  <1>9. ledger'[a][s] = ledger[a][s] + PaidIn(s, mint, amount, a)
    <2>1. s \in Accounts /\ s # s.consumer
      BY Roles
    <2>2. PaidIn(s, mint, amount, a) \in Nat
      BY <1>2, PaidInIsInt
    <2> QED
      BY <1>6, <1>8, <2>1, <2>2
  <1>10. HeldBy(s)' = ledger'[a][s] - (IF mint = None THEN SessionRent ELSE 0)
    <2>1. PaidIn(s, mint, amount, a) \in Nat
      BY <1>2, PaidInIsInt
    <2>2. ledger'[a][s] \in Int
      BY <1>8, <1>9, <2>1
    <2>3. session'[s].mint = mint
      BY <1>5
    <2> QED
      BY <1>8, <2>2, <2>3 DEF HeldBy
  <1>11. HeldBy(s)' \in Int /\ HeldBy(s)' >= amount
    <2>1. RentIn(s, a) \in Nat /\ PaidIn(s, mint, amount, a) = RentIn(s, a) + amount
      BY <1>2, <1>4, PaidInIsInt DEF PaidIn, DepositIn
    <2>2. CASE mint # None
      BY <1>4, <1>8, <1>9, <1>10, <2>1, <2>2
    <2>3. CASE mint = None
      <3>1. RentIn(s, a) + ledger[a][s] >= SessionRent
        BY <1>8, <2>3 DEF RentIn, RentDue, SaturatingSub
      <3> QED
        BY <1>4, <1>8, <1>9, <1>10, <2>1, <2>3, <3>1
    <2> QED BY <2>2, <2>3
  <1>12. y = ViewOf(record, HeldBy(s)')
    <2>1. Exists(s)'
      BY <1>5 DEF Exists
    <2> QED
      BY <1>5, <2>1, ViewOfSessionNext
  <1>13. ChannelView(s) = Null /\ SolChannel(s) = Null
    BY <1>1 DEF ChannelView, SolChannel
  <1>14. Funded(Null, y)
    <2>1. /\ y.held = HeldBy(s)'
          /\ y = [phase |-> "Open", deposit |-> amount, held |-> y.held, paid |-> 0,
                  nonce |-> 0, claim |-> 0, expiry |-> now + duration, deadline |-> 0]
      BY <1>12 DEF ViewOf
    <2>2. amount \in Amounts \ {0}
      BY <1>1, <1>4
    <2> HIDE DEF y
    <2> QED
      BY <1>3, <1>11, <2>1, <2>2 DEF Funded
  <1>15. Moves(s)
    BY <1>13, <1>14 DEF Moves, Move
  <1>16. \/ SolChannel(s)' = SolChannel(s)
         \/ SolChannel(s) = ChannelView(s) /\ SolChannel(s)' = ChannelView(s)'
    BY <1>13 DEF SolChannel
  <1> QED
    BY <1>1, <1>7, <1>15, <1>16 DEF StepOf, Quiet, PaymentsOf

\* A gift makes what an escrow holds more, or is not seen.
LEMMA GiveIsStep ==
    ASSUME IInv, NEW a \in Assets, NEW s \in Sessions,
           NEW amount \in 1..ledger[a][Outsider], Give(a, s, amount)
    PROVE  StepOf(s)
  <1> DEFINE x == ChannelView(s)
             y == ChannelView(s)'
  <1>1. /\ UNCHANGED <<session, cosigned, now>>
        /\ ledger' = Moved(ledger, a, Outsider, s, amount)
    BY DEF Give
  <1>2. /\ TypeOK /\ ledger \in Ledgers /\ amount \in Nat /\ amount > 0
        /\ \A b \in Assets, t \in Accounts : ledger[b][t] \in Nat
        /\ Outsider \in Accounts /\ s \in Accounts /\ Outsider # s
        /\ \A t \in Sessions : t \in Accounts /\ t # Outsider
    BY Roles DEF IInv, TypeOK, Ledgers
  <1>3. \A b \in Assets, t \in Accounts :
            ledger'[b][t] = Balance(ledger, a, Outsider, s, amount, b, t)
    BY <1>1, <1>2, MovedEffect
  <1>4. \A b \in Assets, t \in Sessions :
            ledger'[b][t] = ledger[b][t] + (IF b = a /\ t = s THEN amount ELSE 0)
    BY <1>2, <1>3 DEF Balance
  <1>5. ASSUME NEW t \in Sessions, t # s
        PROVE  ChannelView(t)' = ChannelView(t) /\ SolChannel(t)' = SolChannel(t)
    <2>1. \A b \in Assets : ledger'[b][t] = ledger[b][t]
      BY <1>2, <1>4, <1>5
    <2> QED
      BY <1>1, <1>2, <2>1, Unseen
  <1>6. Moves(s)
    <2>1. CASE ~Exists(s)
      BY <1>1, <2>1 DEF Moves, Move, ChannelView, Exists
    <2>2. CASE Exists(s)
      <3> DEFINE h == HeldBy(s)
                 k == HeldBy(s)'
      <3>1. /\ AssetOf(s) \in Assets /\ h \in Int /\ ledger[AssetOf(s)][s] \in Nat
            /\ h = ledger[AssetOf(s)][s]
                   - (IF session[s].mint = None THEN SessionRent ELSE 0)
        BY <1>2, <2>2, HeldInLedger
      <3>2. SessionRent \in Int
        BY EscrowAssumption
      <3>3. ledger'[AssetOf(s)][s] \in Int
        BY <1>2, <1>4, <3>1
      <3>4. k = ledger'[AssetOf(s)][s]
                - (IF session[s].mint = None THEN SessionRent ELSE 0)
        BY <1>1, <3>2, <3>3 DEF HeldBy, AssetOf
      <3>5. k \in Int /\ (k = h \/ k > h)
        BY <1>2, <1>4, <3>1, <3>2, <3>4
      <3>6. x = ViewOf(session[s], h) /\ y = ViewOf(session[s], k)
        BY <1>1, <2>2, ViewOfSession, ViewOfSessionNext DEF Exists
      <3>7. ViewTyped(x) /\ ViewTyped(y)
        <4>1. session[s] \in Session
          BY <1>2, <2>2, SessionFields
        <4> HIDE DEF x, y, h, k
        <4> QED
          BY <3>1, <3>5, <3>6, <4>1, ViewOfTyped DEF h
      <3>8. /\ x.held = h /\ y.held = k /\ y.phase = x.phase /\ y.deposit = x.deposit
            /\ y.paid = x.paid /\ y.nonce = x.nonce /\ y.claim = x.claim
            /\ y.expiry = x.expiry /\ y.deadline = x.deadline
        <4> HIDE DEF x, y, h, k
        <4> QED
          BY <3>6 DEF ViewOf
      <3> HIDE DEF x, y, h, k
      <3>9. y = [x EXCEPT !.held = y.held]
        BY <3>7, <3>8 DEF ViewTyped
      <3>10. y = x \/ Added(x, y)
        <4>1. CASE k = h
          BY <3>7, <3>8, <4>1 DEF ViewTyped
        <4>2. CASE k > h
          BY <3>7, <3>8, <3>9, <4>2 DEF Added, ViewTyped
        <4> QED BY <3>5, <4>1, <4>2
      <3> QED
        BY <3>10 DEF Moves, Move, x, y
    <2> QED BY <2>1, <2>2
  <1>7. \/ SolChannel(s)' = SolChannel(s)
        \/ SolChannel(s) = ChannelView(s) /\ SolChannel(s)' = ChannelView(s)'
    BY <1>1 DEF SolChannel, Exists
  <1> QED
    BY <1>1, <1>5, <1>6, <1>7 DEF StepOf, Quiet, PaymentsOf

-----------------------------------------------------------------------------
(***************************************************************************)
(* All steps.                                                              *)
(***************************************************************************)

\* A step that leaves every session and its escrow alone, whether the session
\* exists or not.
Unrelated ==
    \/ RegistryHandler /\ UNCHANGED escrowVars
    \/ \E s \in Sessions, mint \in Mints : CreateVault(s, mint)
    \/ \E u \in StateUpdates : CoSign(u)
    \/ \E signer \in Authorities, amount \in 1..ledger[SOL][FeeVault] :
          WithdrawFees(signer, amount)
    \/ Tick
    \/ UNCHANGED vars

LEMMA StepsOfSessions ==
    ASSUME IInv, [Next]_vars
    PROVE  (\E s \in Sessions : StepOf(s)) \/ Unrelated
  <1>1. CASE SessionHandler
    <2>1. PICK s \in Sessions :
            \/ \E mint \in Mints \cup {None}, amount \in Amounts, duration \in Durations :
                  Open(s, mint, amount, duration)
            \/ \E a \in Assets, u \in cosigned, final \in BOOLEAN : ApplyState(a, s, u, final)
            \/ \E u \in cosigned :
                  \/ \E caller \in Wallets : InitiateUnilateralClose(s, caller, u)
                  \/ Challenge(s, u)
            \/ \E a \in Assets :
                  \/ Finalize(a, s)
                  \/ \E signer \in Wallets : Cancel(a, s, signer)
                  \/ Expire(a, s)
      BY <1>1, HandlersByKind
    <2>2. CASE \E mint \in Mints \cup {None}, amount \in Amounts, duration \in Durations :
                  Open(s, mint, amount, duration)
      BY <2>2, OpenIsStep
    <2>3. CASE \E a \in Assets, u \in cosigned, final \in BOOLEAN : ApplyState(a, s, u, final)
      BY <2>3, ApplyStateIsStep
    <2>4. CASE \E u \in cosigned :
                  \/ \E caller \in Wallets : InitiateUnilateralClose(s, caller, u)
                  \/ Challenge(s, u)
      BY <2>4, InitiateIsStep, ChallengeIsStep
    <2>5. CASE \E a \in Assets :
                  \/ Finalize(a, s)
                  \/ \E signer \in Wallets : Cancel(a, s, signer)
                  \/ Expire(a, s)
      BY <2>5, FinalizeIsStep, RefundIsStep DEF Cancel, Expire, CanExpire
    <2> QED
      BY <2>1, <2>2, <2>3, <2>4, <2>5
  <1>2. CASE OutsideStep
    <2>1. PICK s \in Sessions :
            \/ \E a \in Assets : \E amount \in 1..ledger[a][Outsider] : Give(a, s, amount)
            \/ \E mint \in Mints : CreateVault(s, mint)
      BY <1>2 DEF OutsideStep
    <2> QED
      BY <2>1, GiveIsStep DEF Unrelated
  <1> QED
    BY <1>1, <1>2 DEF Next, Unrelated

LEMMA UnrelatedUnseen ==
    ASSUME IInv, Unrelated
    PROVE  \A t \in Sessions : ChannelView(t)' = ChannelView(t) /\ SolChannel(t)' = SolChannel(t)
  <1>1. TypeOK /\ session' = session
    BY DEF IInv, Unrelated, CreateVault, CoSign, WithdrawFees, Tick, vars, escrowVars
  <1>2. CASE \E signer \in Authorities, amount \in 1..ledger[SOL][FeeVault] :
                WithdrawFees(signer, amount)
    <2>1. PICK amount \in 1..ledger[SOL][FeeVault] :
              ledger' = Moved(ledger, SOL, FeeVault, Treasury, amount)
      BY <1>2 DEF WithdrawFees
    <2>2. ledger \in Ledgers /\ \A b \in Assets, t \in Accounts : ledger[b][t] \in Nat
      BY <1>1 DEF TypeOK, Ledgers
    <2>3. \A b \in Assets, t \in Sessions : ledger'[b][t] = ledger[b][t]
      <3>1. /\ SOL \in Assets /\ FeeVault \in Accounts /\ Treasury \in Accounts
            /\ \A t \in Sessions : t \in Accounts /\ t # FeeVault /\ t # Treasury
        BY AccountSets
      <3>2. \A b \in Assets, t \in Accounts :
               ledger'[b][t] = Balance(ledger, SOL, FeeVault, Treasury, amount, b, t)
        BY <2>1, <2>2, <3>1, MovedEffect
      <3> QED
        BY <2>2, <3>1, <3>2 DEF Balance
    <2> QED
      BY <1>1, <2>3, Unseen
  <1>3. CASE ledger' = ledger
    BY <1>1, <1>3, Unseen
  <1> QED
    BY <1>2, <1>3 DEF Unrelated, CreateVault, CoSign, Tick, vars, escrowVars

\* A signature and a tick are steps of their own; the rest is none.
LEMMA UnrelatedOnChain ==
    ASSUME Unrelated
    PROVE  \/ \E u \in StateUpdates : cosigned' = cosigned \cup {u} /\ now' = now
           \/ now' = now + 1 /\ cosigned' = cosigned
           \/ UNCHANGED <<cosigned, now>>
  BY DEF Unrelated, CreateVault, CoSign, WithdrawFees, Tick, vars, escrowVars

LEMMA NextPromised ==
    ASSUME IInv, [Next]_vars
    PROVE  [SolPC!Next]_solVars /\ (AllPaidInKind => [PC!Next]_allVars)
  <1>1. CASE \E s \in Sessions : StepOf(s)
    <2>1. PICK s \in Sessions : StepOf(s)
      BY <1>1
    <2>2. Move(s, SolChannel(s), SolChannel(s)')
      <3>1. CASE SolChannel(s)' = SolChannel(s)
        BY <3>1 DEF Move
      <3>2. CASE SolChannel(s) = ChannelView(s) /\ SolChannel(s)' = ChannelView(s)' /\ Moves(s)
        BY <3>2 DEF Moves
      <3> QED
        BY <2>1, <3>1, <3>2 DEF StepOf
    <2>3. [SolPC!Next]_solVars
      BY <2>1, <2>2, SolMoves DEF StepOf
    <2>4. AllPaidInKind => [PC!Next]_allVars
      BY <2>1, AllMoves DEF StepOf, Moves, AllPaidInKind
    <2> QED
      BY <2>3, <2>4
  <1>2. CASE Unrelated
    <2>1. SolChannels' = SolChannels /\ AllChannels' = AllChannels
      BY <1>2, UnrelatedUnseen DEF SolChannels, AllChannels
    <2>2. CASE \E u \in StateUpdates : cosigned' = cosigned \cup {u} /\ now' = now
      <3>1. PICK u \in StateUpdates : cosigned' = cosigned \cup {u} /\ now' = now
        BY <2>2
      <3>2. PaymentsOf(cosigned)' = PaymentsOf(cosigned) \cup {Payment(u)}
        BY <3>1 DEF PaymentsOf, Payment
      <3>3. Payment(u) \in PaymentsOf(StateUpdates)
        BY DEF PaymentsOf
      <3>4. SolPC!Sign(Payment(u)) /\ PC!Sign(Payment(u))
        BY <2>1, <3>1, <3>2 DEF SolPC!Sign, PC!Sign
      <3> QED
        BY <3>3, <3>4 DEF SolPC!Next, PC!Next
    <2>3. CASE now' = now + 1 /\ cosigned' = cosigned
      <3>1. SolPC!Pass /\ PC!Pass
        BY <2>1, <2>3 DEF SolPC!Pass, PC!Pass, PaymentsOf
      <3> QED
        BY <3>1 DEF SolPC!Next, PC!Next
    <2>4. CASE UNCHANGED <<cosigned, now>>
      BY <2>1, <2>4 DEF solVars, allVars, PaymentsOf
    <2> QED
      BY <1>2, <2>2, <2>3, <2>4, UnrelatedOnChain
  <1> QED
    BY <1>1, <1>2, StepsOfSessions

LEMMA InitPromised == Init => SolPC!Init /\ PC!Init
  BY DEF Init, SolPC!Init, SolChannels, SolChannel, PC!Init, AllChannels, ChannelView,
         Exists, PaymentsOf

-----------------------------------------------------------------------------
\* Every session that holds SOL implements PaymentChannel, unconditionally: each
\* step of the program, of another session or of somebody outside is, for its
\* parties, a step of that abstract channel or none.
THEOREM SolSessionsArePaymentChannels == Spec => SolChannelPromise
  <1>1. IInv /\ [Next]_vars => [SolPC!Next]_solVars
    BY NextPromised
  <1>2. Spec => [][SolPC!Next]_solVars
    BY Inductive, <1>1, PTL DEF Spec
  <1>3. SolPC!Spec <=> SolPC!Init /\ [][SolPC!Next]_solVars
    BY DEF SolPC!Spec, solVars
  <1> QED
    BY InitPromised, <1>2, <1>3, PTL DEF Spec, SolChannelPromise

\* As long as every session is paid in kind, every session implements
\* PaymentChannel, whatever asset it holds: its deposit leaves the escrow by the
\* newest payment shown in time, and all of it.
THEOREM SessionsArePaymentChannels == InKindSpec => ChannelPromise
  <1>1. IInv /\ [Next /\ AllPaidInKind]_vars => [PC!Next]_allVars
    <2> SUFFICES ASSUME IInv, [Next /\ AllPaidInKind]_vars PROVE [PC!Next]_allVars
      OBVIOUS
    <2>1. [Next]_vars /\ AllPaidInKind
      BY InKindStep DEF InKind
    <2> QED
      BY <2>1, NextPromised
  <1>2. InKindSpec => [][PC!Next]_allVars
    BY InKindInductive, <1>1, PTL DEF InKindSpec
  <1>3. PC!Spec <=> PC!Init /\ [][PC!Next]_allVars
    BY DEF PC!Spec, allVars
  <1> QED
    BY InitPromised, <1>2, <1>3, PTL DEF InKindSpec, ChannelPromise
=============================================================================
