------------------------------- MODULE Escrow -------------------------------
(***************************************************************************)
(* The settlement program: payment-channel sessions, the money they hold   *)
(* in escrow, and every instruction that opens, pays, disputes or ends     *)
(* one.  It composes with Registry, whose handlers run between any two     *)
(* steps of a session.                                                     *)
(*                                                                         *)
(* The SPL instructions of spl.rs mirror the SOL ones and differ in fund   *)
(* custody only, so each pair of handlers shares one definition with an    *)
(* asset parameter: SOL for the handler that moves lamports, a mint for    *)
(* its SPL twin.  An instruction is one atomic step; one that fails has no *)
(* effect.  Everybody else on the chain is one account, Outsider: anyone   *)
(* may send a session lamports or tokens that it never asked for.          *)
(***************************************************************************)
EXTENDS Registry

CONSTANTS
    Consumers, Seeds, Mints,
    SOL,           \* the native asset
    FeeVault,      \* the fee vault PDA, and the fee token accounts it owns
    Treasury,      \* the destination withdraw_fees is given
    Outsider,      \* the wallets of everybody else
    Funds,         \* what every party holds of every asset at the start
    OutsideFunds,  \* what the outsiders hold of each asset at the start
    SessionRent,   \* rent-exempt minimum of a Session account
    WalletRent,    \* rent-exempt minimum of a data-less account
    MIN_DURATION_SECS, MAX_DURATION_SECS,
    HORIZON,       \* the last second a checked_add on a timestamp can reach
    \* Inputs a run offers to the handlers.
    Amounts, Durations,
    StateUpdates   \* the updates two parties may come to sign

Sessions == [node: Nodes, consumer: Consumers, seed: Seeds]  \* a PDA is its seeds
Assets == Mints \cup {SOL}
Wallets == Providers \cup Consumers \cup {Treasury}
Accounts == Sessions \cup Wallets \cup {FeeVault, Outsider}
Times == 0..HORIZON

\* The fields of StateUpdate the program acts on.
StateUpdate == [session: Sessions, nonce: U64, owed_to_provider: U64, units_consumed: U64]

SessionStatus == {"Open", "Closing", "Settled", "Cancelled", "Expired"}

\* provider and asset are the node's and never rewritten; opened_at and
\* rate_per_unit are only ever written.
Session == [status: SessionStatus,
            mint: Mints \cup {None},
            deposited: U64,
            settled_to_provider: U64,
            last_nonce: U64,
            expiry: Times,
            challenge_deadline: Times,
            pending_payout: U64,
            pending_units: U64]

ASSUME EscrowAssumption ==
    /\ Funds \in Nat /\ OutsideFunds \in [Assets -> Nat]
    /\ SessionRent \in Nat \ {0} /\ WalletRent \in 0..SessionRent
    /\ HORIZON \in Nat
    /\ MIN_DURATION_SECS \in Nat \ {0} /\ MAX_DURATION_SECS \in Nat
    /\ Amounts \subseteq U64 /\ Durations \subseteq Int
    /\ StateUpdates \subseteq StateUpdate
    /\ SOL \notin Mints /\ None \notin Mints
    /\ FeeVault \notin Sessions \cup Wallets
    /\ Sessions \cap Wallets = {}
    /\ Outsider \notin Sessions \cup Wallets \cup {FeeVault}
    /\ Null \notin Session

VARIABLES
    session,       \* the Session account of each PDA, or Null
    ledger,        \* ledger[asset][account]: lamports, or tokens an account owns;
                   \* a session's tokens are those its vault authority owns
    vaults,        \* <<session, mint>> of the vault ATAs that exist
    cosigned,      \* the updates both parties have signed
    now            \* the cluster's unix_timestamp

escrowVars == <<session, ledger, vaults, cosigned, now>>
vars == <<registryVars, escrowVars>>

TypeOK ==
    /\ RegistryTypeOK
    /\ session \in [Sessions -> Session \cup {Null}]
    /\ ledger \in [Assets -> [Accounts -> Nat]]
    /\ vaults \in SUBSET (Sessions \X Mints)
    /\ cosigned \in SUBSET StateUpdate
    /\ now \in 0..(HORIZON + 1)

Init ==
    /\ RegistryInit
    /\ session = [s \in Sessions |-> Null]
    /\ ledger = [a \in Assets |-> [acc \in Accounts |->
                    IF acc \in Providers \cup Consumers THEN Funds
                    ELSE IF acc = Outsider THEN OutsideFunds[a]
                    ELSE 0]]
    /\ vaults = {}
    /\ cosigned = {}
    /\ now = 0

Exists(s) == session[s] # Null
HasStatus(s, status) == Exists(s) /\ session[s].status = status
Live(s) == HasStatus(s, "Open") \/ HasStatus(s, "Closing")
AssetOf(s) == IF session[s].mint = None THEN SOL ELSE session[s].mint
ProviderOf(s) == node[s.node].provider

-----------------------------------------------------------------------------
(***************************************************************************)
(* Money.                                                                  *)
(***************************************************************************)

\* The payer is never debited.
Moved_Wrong(l, a, from, to, amount) == [l EXCEPT ![a][to] = @ + amount]

\* One transfer: a CPI to the System or Token program, or a change of lamports.
Moved(l, a, from, to, amount) ==
    LET debited == [l EXCEPT ![a][from] = @ - amount]
    IN  [debited EXCEPT ![a][to] = @ + amount]

\* The runtime rejects a transaction that changes an account with lamports and
\* leaves it below the rent-exempt minimum, unless it leaves none.  l is the
\* ledger after the transaction, opened the sessions it creates.  Outsider is no
\* one account.
RentKeptWith(l, opened) ==
    \A acc \in Accounts \ {Outsider} :
        l[SOL][acc] \notin {0, ledger[SOL][acc]} =>
            l[SOL][acc] >= IF acc \in Sessions /\ (Exists(acc) \/ acc \in opened)
                           THEN SessionRent
                           ELSE WalletRent

RentKept(l) == RentKeptWith(l, {})

\* The fee's transfer starts from balances read before the provider's.
AfterPayOut_WrongStale(a, s, toProvider, fee, remainder) ==
    LET taxed == Moved(ledger, a, s, FeeVault, fee)
    IN  Moved(taxed, a, s, s.consumer, remainder)

\* The consumer's transfer is forgotten.
AfterPayOut_WrongKeepsRefund(a, s, toProvider, fee, remainder) ==
    LET paid == Moved(ledger, a, s, ProviderOf(s), toProvider)
    IN  Moved(paid, a, s, FeeVault, fee)

\* The ledger after the transfers of a payout out of the escrow of s, in asset a.
AfterPayOut(a, s, toProvider, fee, remainder) ==
    LET paid == Moved(ledger, a, s, ProviderOf(s), toProvider)
        taxed == Moved(paid, a, s, FeeVault, fee)
    IN  Moved(taxed, a, s, s.consumer, remainder)

\* Unchecked subtractions.
CanPayOut_Wrong(a, s, toProvider, fee, remainder) == TRUE

\* The checks a payout has to pass: the transfers' own, and the runtime's.
CanPayOut(a, s, toProvider, fee, remainder) ==
    /\ ledger[a][s] >= toProvider + fee + remainder
    /\ RentKept(AfterPayOut(a, s, toProvider, fee, remainder))

PayOut(a, s, toProvider, fee, remainder) ==
    /\ CanPayOut(a, s, toProvider, fee, remainder)
    /\ ledger' = AfterPayOut(a, s, toProvider, fee, remainder)

\* What settling s at owed brings the protocol and the provider.
FeeDue(s, owed) == FeeFor(owed - session[s].settled_to_provider, config.fee_bps)
NetDue(s, owed) == owed - session[s].settled_to_provider - FeeDue(s, owed)

\* A Session account left without lamports is gone when the transaction ends.
Store(s, record) ==
    session' = [session EXCEPT ![s] = IF ledger'[SOL][s] = 0 THEN Null ELSE record]

\* The pause switch also stops the payouts.
PaysFrom_Wrong(a, s) == ~config.paused /\ (a # SOL => session[s].mint # None)

\* What the handler for asset a asks of the escrow: the SPL handlers want a
\* session with a mint, and as vault_token a token account of its vault authority,
\* of any mint, which anyone may have created; finalize_close, cancel_session
\* and expire_session ask nothing.
PaysFrom(a, s) == a # SOL => session[s].mint # None

-----------------------------------------------------------------------------
(***************************************************************************)
(* Co-signed states.                                                       *)
(***************************************************************************)

\* Off chain, the two parties of an open channel sign one more update.  They
\* may sign anything; the program alone decides which updates count.
CoSign(u) ==
    /\ Exists(u.session)
    /\ u \notin cosigned
    /\ cosigned' = cosigned \cup {u}
    /\ UNCHANGED <<registryVars, session, ledger, vaults, now>>

\* The nonce may repeat or fall back.
VerifyCosignedState_WrongNonce(s, u) ==
    /\ u.session = s
    /\ u.owed_to_provider \in session[s].settled_to_provider..session[s].deposited
    /\ u \in cosigned

\* The update is not bound to the session.
VerifyCosignedState_WrongSession(s, u) ==
    /\ u.nonce > session[s].last_nonce
    /\ u.owed_to_provider \in session[s].settled_to_provider..session[s].deposited
    /\ u \in cosigned

\* The update may owe less than has been paid.
VerifyCosignedState_WrongFloor(s, u) ==
    /\ u.nonce > session[s].last_nonce
    /\ u.session = s
    /\ u.owed_to_provider <= session[s].deposited
    /\ u \in cosigned

\* verify_cosigned_state, with the nonce check its callers make first.
VerifyCosignedState(s, u) ==
    /\ u.nonce > session[s].last_nonce
    /\ u.session = s
    /\ u.owed_to_provider <= session[s].deposited
    /\ u.owed_to_provider >= session[s].settled_to_provider
    /\ u \in cosigned

-----------------------------------------------------------------------------
(***************************************************************************)
(* open_session and open_session_spl.  The node account is not writable    *)
(* there: total_sessions is incremented (and must not overflow) but the    *)
(* new value is never stored.                                              *)
(***************************************************************************)

\* The init constraint tops the PDA up to the rent, whoever paid what it holds.
RentDue(s) == SaturatingSub(SessionRent, ledger[SOL][s])

Open(s, mint, amount, duration) ==
    LET a == IF mint = None THEN SOL ELSE mint
        rented == Moved(ledger, SOL, s.consumer, s, RentDue(s))
    IN
    /\ config # Null /\ ~config.paused
    /\ Registered(s.node) /\ node[s.node].active
    /\ node[s.node].total_sessions + 1 <= MAX_U64
    /\ ~Exists(s)
    /\ mint # None => <<s, mint>> \notin vaults
    /\ amount > 0
    /\ duration \in MIN_DURATION_SECS..MAX_DURATION_SECS
    /\ now + duration <= HORIZON
    /\ ledger' = Moved(rented, a, s.consumer, s, amount)
    /\ ledger'[SOL][s.consumer] >= 0 /\ ledger'[a][s.consumer] >= 0
    /\ RentKeptWith(ledger', {s})
    /\ session' = [session EXCEPT ![s] =
          [status |-> "Open", mint |-> mint, deposited |-> amount,
           settled_to_provider |-> 0, last_nonce |-> 0,
           expiry |-> now + duration, challenge_deadline |-> 0,
           pending_payout |-> 0, pending_units |-> 0]]
    /\ vaults' = IF mint = None THEN vaults ELSE vaults \cup {<<s, mint>>}
    /\ UNCHANGED <<registryVars, cosigned, now>>

OpenSession(s, amount, duration) == Open(s, None, amount, duration)
OpenSessionSpl(s, mint, amount, duration) == Open(s, mint, amount, duration)

-----------------------------------------------------------------------------
Remainder(s, u, final) ==
    IF final THEN session[s].deposited - u.owed_to_provider ELSE 0

\* The operands are swapped.
NewUnits_Wrong(s, u) == SaturatingSub(session[s].pending_units, u.units_consumed)

\* The units of u that no checkpoint has counted.
NewUnits(s, u) == SaturatingSub(u.units_consumed, session[s].pending_units)

\* Every check that a settlement (final) or a checkpoint at u makes, those of
\* the calls included.
CanApply(a, s, u, final) ==
    LET owed == u.owed_to_provider
    IN
    /\ HasStatus(s, "Open")
    /\ a = SOL => session[s].mint = None
    /\ PaysFrom(a, s)
    /\ VerifyCosignedState(s, u)
    /\ CanPayOut(a, s, NetDue(s, owed), FeeDue(s, owed), Remainder(s, u, final))
    /\ CanCredit(s.node, NewUnits(s, u), NetDue(s, owed))

\* A checkpoint pays but does not record what it paid.
ApplyState_Wrong(a, s, u, final) ==
    LET owed == u.owed_to_provider
    IN
    /\ CanApply(a, s, u, final)
    /\ PayOut(a, s, NetDue(s, owed), FeeDue(s, owed), Remainder(s, u, final))
    /\ CreditNode(s.node, NewUnits(s, u), u.units_consumed, NetDue(s, owed))
    /\ Store(s, [session[s] EXCEPT
          !.last_nonce = u.nonce,
          !.pending_units = u.units_consumed,
          !.status = IF final THEN "Settled" ELSE @])
    /\ UNCHANGED <<vaults, cosigned, now>>

(***************************************************************************)
(* settle_session and settle_spl (final), checkpoint_settle and            *)
(* checkpoint_spl (not final): apply_state and apply_state_spl.            *)
(***************************************************************************)
ApplyState(a, s, u, final) ==
    LET owed == u.owed_to_provider
    IN
    /\ CanApply(a, s, u, final)
    /\ PayOut(a, s, NetDue(s, owed), FeeDue(s, owed), Remainder(s, u, final))
    /\ CreditNode(s.node, NewUnits(s, u), u.units_consumed, NetDue(s, owed))
    /\ Store(s, [session[s] EXCEPT
          !.settled_to_provider = owed,
          !.last_nonce = u.nonce,
          !.pending_units = u.units_consumed,
          !.status = IF final THEN "Settled" ELSE @])
    /\ UNCHANGED <<vaults, cosigned, now>>

SettleSession(s, u) == ApplyState(SOL, s, u, TRUE)
CheckpointSettle(s, u) == ApplyState(SOL, s, u, FALSE)
SettleSpl(mint, s, u) == ApplyState(mint, s, u, TRUE)
CheckpointSpl(mint, s, u) == ApplyState(mint, s, u, FALSE)

-----------------------------------------------------------------------------
(***************************************************************************)
(* The dispute path.  initiate and challenge serve both escrow types.      *)
(***************************************************************************)

InitiateUnilateralClose(s, caller, u) ==
    /\ HasStatus(s, "Open")
    /\ caller \in {ProviderOf(s), s.consumer}
    /\ VerifyCosignedState(s, u)
    /\ now + config.challenge_window_secs <= HORIZON
    /\ session' = [session EXCEPT
          ![s].status = "Closing",
          ![s].last_nonce = u.nonce,
          ![s].pending_payout = u.owed_to_provider,
          ![s].pending_units = u.units_consumed,
          ![s].challenge_deadline = now + config.challenge_window_secs]
    /\ UNCHANGED <<registryVars, ledger, vaults, cosigned, now>>

\* The challenge is accepted without a deadline.
Challenge_WrongLate(s, u) ==
    /\ HasStatus(s, "Closing")
    /\ VerifyCosignedState(s, u)
    /\ session' = [session EXCEPT
          ![s].last_nonce = u.nonce,
          ![s].pending_payout = u.owed_to_provider,
          ![s].pending_units = u.units_consumed]
    /\ UNCHANGED <<registryVars, ledger, vaults, cosigned, now>>

\* The nonce of the better state is not recorded.
Challenge_WrongNonce(s, u) ==
    /\ HasStatus(s, "Closing")
    /\ now <= session[s].challenge_deadline
    /\ VerifyCosignedState(s, u)
    /\ session' = [session EXCEPT
          ![s].pending_payout = u.owed_to_provider,
          ![s].pending_units = u.units_consumed]
    /\ UNCHANGED <<registryVars, ledger, vaults, cosigned, now>>

\* The last second of the window belongs to nobody.
CanChallenge_Wrong(s, u) ==
    /\ HasStatus(s, "Closing")
    /\ now < session[s].challenge_deadline
    /\ VerifyCosignedState(s, u)

\* Every check of a challenge.
CanChallenge(s, u) ==
    /\ HasStatus(s, "Closing")
    /\ now <= session[s].challenge_deadline
    /\ VerifyCosignedState(s, u)

\* Whoever signs the transaction may post the better state.
Challenge(s, u) ==
    /\ CanChallenge(s, u)
    /\ session' = [session EXCEPT
          ![s].last_nonce = u.nonce,
          ![s].pending_payout = u.owed_to_provider,
          ![s].pending_units = u.units_consumed]
    /\ UNCHANGED <<registryVars, ledger, vaults, cosigned, now>>

\* Every check of a finalize handler, those of the calls it makes included.
CanFinalize(a, s) ==
    LET owed == session[s].pending_payout
    IN
    /\ HasStatus(s, "Closing")
    /\ now > session[s].challenge_deadline
    /\ PaysFrom(a, s)
    /\ owed >= session[s].settled_to_provider /\ owed <= session[s].deposited
    /\ CanPayOut(a, s, NetDue(s, owed), FeeDue(s, owed), session[s].deposited - owed)
    /\ CanCredit(s.node, session[s].pending_units, NetDue(s, owed))

\* The body of both finalize handlers.
Finalize(a, s) ==
    LET owed == session[s].pending_payout
        units == session[s].pending_units
    IN
    /\ CanFinalize(a, s)
    /\ PayOut(a, s, NetDue(s, owed), FeeDue(s, owed), session[s].deposited - owed)
    /\ CreditNode(s.node, units, units, NetDue(s, owed))
    /\ Store(s, [session[s] EXCEPT !.settled_to_provider = owed, !.status = "Settled"])
    /\ UNCHANGED <<vaults, cosigned, now>>

\* finalize_close takes any closing session, whatever its mint.
FinalizeClose(s) == Finalize(SOL, s)
FinalizeCloseSpl(mint, s) == Finalize(mint, s)

-----------------------------------------------------------------------------
(***************************************************************************)
(* Ends without a state: cancel_session and expire_session, and their SPL  *)
(* twins.  The consumer gets back what has not been settled.               *)
(***************************************************************************)

CanRefund(a, s) ==
    /\ PaysFrom(a, s)
    /\ session[s].settled_to_provider <= session[s].deposited
    /\ CanPayOut(a, s, 0, 0, session[s].deposited - session[s].settled_to_provider)

Refund(a, s, status) ==
    /\ CanRefund(a, s)
    /\ PayOut(a, s, 0, 0, session[s].deposited - session[s].settled_to_provider)
    /\ Store(s, [session[s] EXCEPT !.status = status])
    /\ UNCHANGED <<registryVars, vaults, cosigned, now>>

Cancel(a, s, signer) ==
    /\ HasStatus(s, "Open")
    /\ session[s].last_nonce = 0
    /\ signer = s.consumer
    /\ Refund(a, s, "Cancelled")

\* Only a session never used expires.
Expire_Wrong(a, s) ==
    /\ HasStatus(s, "Open")
    /\ session[s].last_nonce = 0
    /\ now > session[s].expiry
    /\ Refund(a, s, "Expired")

\* The last second of the session is taken away.
Expire_WrongEdge(a, s) ==
    /\ HasStatus(s, "Open")
    /\ now >= session[s].expiry
    /\ Refund(a, s, "Expired")

CanExpire(a, s) ==
    /\ HasStatus(s, "Open")
    /\ now > session[s].expiry
    /\ CanRefund(a, s)

\* Anyone can crank expiry.
Expire(a, s) ==
    /\ CanExpire(a, s)
    /\ Refund(a, s, "Expired")

\* Like finalize_close, the SOL handlers take sessions of either escrow type.
CancelSession(s, signer) == Cancel(SOL, s, signer)
CancelSessionSpl(mint, s, signer) == Cancel(mint, s, signer)
ExpireSession(s) == Expire(SOL, s)
ExpireSessionSpl(mint, s) == Expire(mint, s)

-----------------------------------------------------------------------------
(***************************************************************************)
(* What anyone may do to a session without calling the program.            *)
(***************************************************************************)

\* A transfer of lamports to the PDA of s, or of tokens to a token account of
\* its vault authority (created for the purpose if need be), whether s exists
\* or not.
Give(a, s, amount) ==
    /\ ledger' = Moved(ledger, a, Outsider, s, amount)
    /\ RentKept(ledger')
    /\ UNCHANGED <<registryVars, session, vaults, cosigned, now>>

\* Anyone may create the vault ATA of a session that is still to be opened.
CreateVault(s, mint) ==
    /\ <<s, mint>> \notin vaults
    /\ vaults' = vaults \cup {<<s, mint>>}
    /\ UNCHANGED <<registryVars, session, ledger, cosigned, now>>

-----------------------------------------------------------------------------
\* withdraw_fees: a system transfer of any amount of the vault's lamports.
WithdrawFees(signer, amount) ==
    /\ Authorized(signer)
    /\ amount <= ledger[SOL][FeeVault]
    /\ ledger' = Moved(ledger, SOL, FeeVault, Treasury, amount)
    /\ RentKept(ledger')
    /\ UNCHANGED <<registryVars, session, vaults, cosigned, now>>

\* The cluster clock.  It stops one second after the last deadline that fits.
Tick ==
    /\ now <= HORIZON
    /\ now' = now + 1
    /\ UNCHANGED <<registryVars, session, ledger, vaults, cosigned>>

SessionHandler ==
    \E s \in Sessions :
        \/ \E amount \in Amounts, duration \in Durations :
              \/ OpenSession(s, amount, duration)
              \/ \E mint \in Mints : OpenSessionSpl(s, mint, amount, duration)
        \/ \E u \in cosigned :
              \/ SettleSession(s, u)
              \/ CheckpointSettle(s, u)
              \/ \E mint \in Mints : SettleSpl(mint, s, u) \/ CheckpointSpl(mint, s, u)
              \/ \E caller \in Wallets : InitiateUnilateralClose(s, caller, u)
              \/ Challenge(s, u)
        \/ FinalizeClose(s)
        \/ ExpireSession(s)
        \/ \E mint \in Mints : FinalizeCloseSpl(mint, s) \/ ExpireSessionSpl(mint, s)
        \/ \E signer \in Wallets :
              \/ CancelSession(s, signer)
              \/ \E mint \in Mints : CancelSessionSpl(mint, s, signer)

OutsideStep ==
    \E s \in Sessions :
        \/ \E a \in Assets : \E amount \in 1..ledger[a][Outsider] : Give(a, s, amount)
        \/ \E mint \in Mints : CreateVault(s, mint)

Next ==
    \/ RegistryHandler /\ UNCHANGED escrowVars
    \/ SessionHandler
    \/ OutsideStep
    \/ \E u \in StateUpdates : CoSign(u)
    \/ \E signer \in Authorities, amount \in 1..ledger[SOL][FeeVault] :
          WithdrawFees(signer, amount)
    \/ Tick

Spec == Init /\ [][Next]_vars

\* The chain's clock moves on, and because anyone may call them, a session that
\* can be finalized or expired is eventually finalized or expired by someone.
Fairness ==
    /\ WF_vars(Tick)
    /\ \A s \in Sessions :
          /\ WF_vars(\E a \in Assets : Finalize(a, s))
          /\ WF_vars(\E a \in Assets : Expire(a, s))

FairSpec == Spec /\ Fairness

(***************************************************************************)
(* The program does not compare the asset a handler pays in with the asset *)
(* the session holds.  What it promises about a session's money it can     *)
(* only promise while nobody uses that.                                    *)
(***************************************************************************)

\* A step takes nothing from the escrow of s but the asset s was opened with.
PaidInKind(s) ==
    \A a \in Assets : Exists(s) /\ ledger'[a][s] < ledger[a][s] => a = AssetOf(s)

AllPaidInKind == \A s \in Sessions : PaidInKind(s)

InKindSpec == Init /\ [][Next /\ AllPaidInKind]_vars

\* No Session account is left without lamports, and so deleted by the runtime.
NonePurged == \A s \in Sessions : Exists(s) => session'[s] # Null

-----------------------------------------------------------------------------
(***************************************************************************)
(* Safety.                                                                 *)
(***************************************************************************)

\* The part of the deposit not yet paid out, which a live session still owes.
Unsettled(s) == session[s].deposited - session[s].settled_to_provider
Obligation(s) == IF Live(s) THEN Unsettled(s) ELSE 0

\* The PDA of s holds its rent, and s's vault (or the PDA) what s still owes.
Backed(s) ==
    /\ Unsettled(s) >= 0
    /\ ledger[SOL][s] >= SessionRent
    /\ IF session[s].mint = None
       THEN ledger[SOL][s] >= SessionRent + Obligation(s)
       ELSE ledger[session[s].mint][s] >= Obligation(s)

\* Every session can pay what it still owes, whatever settlements, checkpoints,
\* disputes, refunds, fee changes and SOL/SPL mix-ups came before.
EscrowBacked == \A s \in Sessions : Exists(s) => Backed(s)

\* What a close will pay lies between what is already paid and the deposit, so
\* finalize's checked subtractions cannot fail.
PendingWithinDeposit ==
    \A s \in Sessions : HasStatus(s, "Closing") =>
        session[s].pending_payout \in session[s].settled_to_provider..session[s].deposited

\* The update behind the current state of s: the one that set its last nonce.
FollowsUpdate(s) ==
    IF session[s].last_nonce = 0
    THEN session[s].settled_to_provider = 0 /\ ~HasStatus(s, "Closing")
    ELSE \E u \in cosigned :
            /\ u.session = s
            /\ u.nonce = session[s].last_nonce
            /\ u.units_consumed = session[s].pending_units
            /\ u.owed_to_provider = IF HasStatus(s, "Closing")
                                    THEN session[s].pending_payout
                                    ELSE session[s].settled_to_provider

\* A session's money always follows one update both parties signed.  No order
\* of checkpoints, settlements, challenges and closes mixes the amount, the
\* units or the nonce of different updates.
LastStateCosigned == \A s \in Sessions : Exists(s) => FollowsUpdate(s)

\* The exit that the state of s calls for is open: all its checks pass.
MayLeave(s) ==
    /\ HasStatus(s, "Closing") /\ now > session[s].challenge_deadline
          => CanFinalize(AssetOf(s), s)
    /\ HasStatus(s, "Open") /\ now > session[s].expiry
          => CanExpire(AssetOf(s), s)

\* No party is locked in: once the challenge window or the session has run out,
\* the close or the refund goes through at once, paused or not, whatever the
\* authority and the other party did.  (Checked where a payment of one lamport
\* keeps an empty account rent-exempt and the Node's counters are far from their
\* limit: the README tells what happens otherwise.)
ExitOpen == \A s \in Sessions : MayLeave(s)

-----------------------------------------------------------------------------
(***************************************************************************)
(* What a step may never do.                                               *)
(***************************************************************************)

Advances(s) ==
    Exists(s) /\ session'[s] # Null =>
        LET old == session[s]
            new == session'[s]
        IN  /\ new.deposited = old.deposited /\ new.mint = old.mint
            /\ new.expiry = old.expiry
            /\ new.settled_to_provider >= old.settled_to_provider
            /\ new.last_nonce >= old.last_nonce
            /\ ~Live(s) => new = old
            /\ old.status = "Closing" => new.status \in {"Closing", "Settled"}

\* A session only moves forward: it keeps its terms, never un-pays the provider
\* or returns to an older nonce, and once it has ended nothing changes it.
SessionAdvances == [][\A s \in Sessions : Advances(s)]_vars

HonoursWindow(s) ==
    HasStatus(s, "Closing") /\ session'[s] \notin {Null, session[s]} =>
        LET old == session[s]
            new == session'[s]
        IN  IF now <= old.challenge_deadline
            THEN /\ new.status = "Closing" /\ new.last_nonce > old.last_nonce
                 /\ new.challenge_deadline = old.challenge_deadline
            ELSE new = [old EXCEPT !.status = "Settled",
                                   !.settled_to_provider = old.pending_payout]

\* The window is fair: while a session is closing, the pending state is only
\* replaced by one with a higher nonce and only until the deadline, which never
\* moves (not even when the authority changes the window); after it the session
\* can only be settled, at the pending amount.
WindowHonoured == [][\A s \in Sessions : HonoursWindow(s)]_vars

-----------------------------------------------------------------------------
(***************************************************************************)
(* Liveness, under Fairness.                                               *)
(***************************************************************************)

\* A unilateral close runs to its end: neither challenges nor the authority can
\* keep a session in Closing for ever.
CloseCompletes ==
    \A s \in Sessions : HasStatus(s, "Closing") ~> ~HasStatus(s, "Closing")

\* A deposit is not locked for ever: every session that is opened ends, also
\* when the parties fall silent.
SessionEnds == \A s \in Sessions : Exists(s) ~> ~Live(s)
=============================================================================
