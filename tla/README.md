# SolMesh: a TLA+ model of the settlement program

SolMesh lets a consumer pay a provider of some resource through a payment
channel.  The consumer locks SOL or an SPL token in a Solana program, both
parties sign a growing series of `StateUpdate`s off chain, and the program pays
the provider what the last one says.  This directory models the program, the way
it recognises the two signatures, the relay the parties talk over and the demo
client; it model-checks them on small instances with TLC and proves the main safety
properties with TLAPS for instances of any size.

## 1. The system

| Part | Code | State it keeps | Operations |
|---|---|---|---|
| Config | `state/mod.rs`, `initialize_config.rs`, `admin.rs` | authority, fee, challenge window, pause switch | `initialize_config`, `update_config`, `set_paused`, `withdraw_fees` |
| Nodes | `register_node.rs`, `admin.rs`, `cpi/core.rs` | a Node account and the Attributes plugin of a Core NFT | `register_node`, `update_node_meta`, and the counters each settlement raises |
| Sessions, SOL | `open_session.rs`, `settle.rs`, `lifecycle.rs` | a Session account that is also the escrow | `open_session`, `settle_session`, `checkpoint_settle`, `cancel_session`, `expire_session` |
| Sessions, SPL | `spl.rs`, `token.rs` | a Session account and a vault token account | the same five and `finalize_close_spl` |
| Disputes | `dispute.rs` | pending amount, units and deadline in the session | `initiate_unilateral_close`, `challenge`, `finalize_close` |
| State validation | `shared.rs`, `crypto/ed25519.rs` | none | `verify_cosigned_state` and the search for the two Ed25519 instructions |
| Message format | `crates/solmesh-state`, `client/src/state.ts` | none | one record laid out three times: what is signed, what is sent, what is read |
| Relay | `client/src/relay.ts` | the sockets registered per session and role | join, forward, close |
| Clients | `client/examples/*` | the provider's `latest` state and the promise `done` | join, sign, counter-sign, settle |
| SDK | `client/src/sdk.ts` | none | one transaction per method, with the two signatures where needed |
| Web app, tests | `app/`, `tests/` | none that matters on chain | |

(`programs/solmesh/src/` is left out of the paths of the program.)

How they interact: an instruction is one transaction step on accounts; it either
takes effect as a whole or not at all, so there is no interleaving *inside* a
handler.  What is hard is everything *between* two of them: any signer may submit
any instruction at any time, in any order, with any update both parties ever
signed, while the authority changes the fee, the window and the pause switch, and
the clock runs.  Sessions of one node share its counters; all sessions share the
fee vault; SOL and SPL handlers share the Session accounts.  And anyone may send a
session's PDA lamports, or its vault authority tokens, without calling the program.

Off chain the two parties exchange signed states through the relay, over one
WebSocket each.  A socket delivers in order until it closes; between two sockets
nothing is ordered, a message whose addressee is not registered is dropped without
an error, and the relay learns of a close late.  What the parties end up signing
meets the program in one transaction: two instructions of the Ed25519 precompile,
which verifies the signatures, and one of the program, which must find those two
among the transaction's instructions and recognise the signed bytes as its argument.

What makes each part correct:

* **Config, nodes**: limits hold whatever the authority sets; a track record only
  grows; what the NFT shows was earned.
* **Sessions**: an escrow always covers what is owed; money is conserved and each
  settled unit is paid exactly once; every amount comes from one update signed for
  that session; sessions only move forward.
* **Disputes**: the highest nonce shown in time wins, the deadline does not move,
  and what will be paid is payable.
* **Everything**: no party is locked in, and a close or an abandoned session ends.
* **The program, to its users**: every session is a payment channel, and parties
  who sign in turn and watch the deadlines are paid by the newest state.
* **Ed25519 search and message format**: what is accepted was signed by both, and
  means what they saw; what both signed is accepted.
* **Relay**: it forwards only to those who asked to be the sender's counterparty, in
  order, and a close leaves no role with the socket that closed in it.
* **Clients**: the provider never goes back to an older state, and what is settled
  is the last one, signed by both.

`PROJECT.json` lists the hazards at the lines where they bite, with the
properties that would notice each.

## 2. Modules

| Module | Models | Notes |
|---|---|---|
| `SolMeshMath` | `fee_for`, `reputation_reward`, checked and saturating arithmetic | the tuning constants are parameters |
| `Registry` | config, nodes, the NFT's attributes and their handlers | runs alone (`RegistrySpec`), with settlements reduced to `CreditNode` |
| `Escrow` | sessions, balances, signatures, the clock, all session handlers | extends `Registry`: its handlers run between any two steps of a session |
| `EscrowAccounting` | no new behaviour: properties that are sums over accounts | a sum is of a function over its domain, and what does not count is 0 in it |
| `PaymentChannel` | abstract: what the program promises to the parties of a channel | no accounts, assets, fees, nodes or units |
| `EscrowRefinement` | the refinement mapping from `Escrow` to `PaymentChannel` | |
| `HonestChannel` | `Escrow` under parties that keep the channel's rules | every step is a step of `Escrow` |
| `StateMessage` | the state's three byte layouts | radix and widths are parameters |
| `Ed25519Binding` | `ed25519VerifyIx`, the precompile (external), `check_ed25519_data`, `verify_ed25519_signature` | extends `StateMessage` |
| `Cosigning` | parties that sign, clients that assemble transactions, the program's acceptance | extends `Ed25519Binding` |
| `Relay` | `relay.ts` and the sockets under it | |
| `RelayClients` | arbitrary clients of the relay | composes with `Relay` |
| `Demo` | provider and consumer of `demo.ts` | composes with `Relay` |
| `MC*` | the instances of the TLC runs (`demo.cfg` runs `Demo` itself) | |
| `RegistryProofs`, `EscrowProofs`, `AccountingProofs`, `EscrowRefinementProofs`, `HonestProofs`, `CosigningProofs`, `RelayProofs`, `DemoProofs` | theorems | |

How they fit: `Escrow` takes "both parties signed u" as `u \in cosigned`.
`Cosigning` is the justification from below: it has the transaction and its bytes,
and shows that acceptance by the program means exactly that.  `PaymentChannel` is
the specification above: it says what is left of `Escrow` when only the two parties
of a channel look.  `Relay` and `Demo` show how the parties come to hold what they
bring to the chain, and `HonestChannel` what it gets them.

Correspondence, beyond the one-action-per-handler rule:

* `config`, `node[n]`, `session[s]` are the accounts, `Null` where none exists.  A
  session's key is its PDA seeds `[node, consumer, seed]`, so reopening a purged
  PDA is possible.  `ledger[asset][account]` holds lamports and token balances;
  the token accounts of one owner are one entry per mint: for a session, whatever its
  vault authority owns.  `vaults` are the `(session, mint)` vault ATAs that exist,
  which matter to `open_session_spl` only (its `init` fails if there is one); no handler
  closes one.
* `OutsideStep` is what happens to a session without the program: anyone may send its
  PDA lamports, send its vault authority tokens of any mint, and create a vault ATA
  before the session is opened.  `Outsider` stands for everybody else's wallets.
* `cosigned` is the set of updates both parties have signed.  It grows by `CoSign`
  in any order with any member of `StateUpdates`, so the parties are not assumed to
  follow the protocol: a decreasing amount, a skipped nonce or too large an amount
  may be signed, and an old update may be submitted at any later time.  A
  successful signature check is membership in `cosigned`.
* SOL and SPL twins share a definition with an asset parameter (`ApplyState`,
  `Finalize`, `Cancel`, `Expire`, `Open`); the named handlers instantiate it.  The
  shared part keeps the difference that matters: `settle` and `checkpoint` on the
  SOL path require a session without a mint, the three other SOL handlers do not
  look; the SPL handlers require one with a mint and take any token account of the
  session's vault authority without comparing its mint (`PaysFrom`).
* A `require!`, an Anchor constraint, a checked operation and a transfer that lacks
  funds are guards: the transaction is discarded.  The handlers whose success a
  property is about have their guards in an operator of their own (`CanApply`,
  `CanChallenge`, `CanFinalize`, `CanExpire`), which includes the checks of the calls
  they make (`CanPayOut`, `CanCredit`); the rest of the action only assigns, so where
  the guard holds the transaction succeeds.
* Two rules of the runtime are part of each handler: an account left without
  lamports is purged (`Store`), and one that was changed may not be left below its
  rent-exempt minimum (`RentKept`).
* `open_session` requires that `total_sessions + 1` does not overflow but stores
  nothing: the Node account is not writable there.  What the PDA already holds counts
  towards its rent (`RentDue`).
* In the refinement mapping a channel's `held` is what the escrow really has (the
  lamports of the Session account above its rent, or the tokens of its vault), not
  what the Session record says, so that the mapping ties the record to the money.
  `Settled`, `Cancelled` and `Expired` are all `Over`.
* `HonestChannel` adds conjuncts to `Next` and changes nothing else: `SignsChain`
  (the rule of `solmesh-state/src/lib.rs:11`: nonces rise by one, amounts do not
  fall; and no signing once the session is closing or has run out), `Watches`
  (whoever holds the newest state brings it to the chain before a deadline passes),
  `SettlesFinal` and `CancelsUnused` (see section 5).
* `Cosigning`'s transaction is built instruction by instruction, any of them from a
  set of others; the program's own is put at any place among them.  The precompile
  follows the offsets and indices of an entry wherever they point; the program reads
  its own view of them.  A signature exists only if its key's holder signed those
  bytes: that is the one cryptographic assumption.
* In `Relay`, `inbox[ws]` and `outbox[ws]` are the two directions of a connection.
  A close keeps what was sent but for any number of the last messages.  A handler
  (`OnMessage`, `OnClose`) is one turn of the relay's event loop; `OnClose` clears the
  role whoever holds it now, as the code does.  A role is any string: `"observer"`
  stands for all that are neither of the two.
* In `RelayClients` a socket sends joins, in any session and role, and updates in any
  order.  `asked[ws]` are the joins it has sent, and each update carries, as `as`, the
  last of them: what the client means to speak for.
* In `Demo` a handler is one turn of the client's event loop, and the tick loop's
  wait of 150 ms is left out: a timer is no guarantee that a message has arrived.

Definitions whose name ends in `_Wrong` belong to no behaviour.  Each is a slip one
could make in the definition it follows (a dropped guard, a forgotten write); with
it in place of the original, TLC reports the property it is paired with in
`PROJECT.json` as violated, which shows that the property depends on the code.

## 3. Runs

All runs are exhaustive.  `MCEscrow` offers per session the honest sequence of
updates, an overtaking update that owes less, and one that owes more than the
deposit (`Negotiated`); or two honest updates for one session and one for the others
(`Uneven`).  `Spec` is the program; `InKindSpec` is the program as long as no step takes
anything from a session's escrow but the asset the session was opened with.

| Run | Checks | Instance | States |
|---|---|---|---|
| `registry` | `RegistryTypeOK`, `NftNeverAhead`, `TrackRecordKept` | one node that either of two providers may register, counters that reach their limits | 7 thousand |
| `escrow_sol` | `PendingWithinDeposit`, `LastStateCosigned`, `ExitOpen`, `FeesWithinCap`, `SessionAdvances`, `WindowHonoured`; under `FairSpec` also `CloseCompletes`, `SessionEnds` | `Spec`; one SOL session, two windows, three fee arguments, clock to 3 | 126 thousand |
| `escrow_two` | `LastStateCosigned`, `SettledIsPaid`, `ConsumerMadeWhole`, `RewardedOnce`, `UnitsCovered`, `ChannelPromise` | `InKindSpec`; two consumers, SOL and one mint | 67 thousand |
| `escrow_mixed` | `TypeOK`, `EscrowBacked`, `Conservation`, `EarningsShown`, `SolChannelPromise` | `Spec`; one session, two mints, a deposit above the session rent and amounts owed that equal it, a lamport and a worthless token from outside | 277 thousand |
| `honest` | `EndsAtNewest`, `ChallengeOpen`, `SettleOpen` | chains of up to three states, two session lengths, clock to 3 | 43 thousand |
| `cosigning` | `AcceptedWasSigned`, `AcceptedWasAgreed`, `CosignedIsAccepted` | a provider with two sessions, three states, up to three instructions beside the program's: genuine ones, one without entries, one that points to another instruction, one of another program | 47 thousand |
| `relay` | `OnlyCounterparty`, `ForwardedInOrder`, `RegisteredIsLive` | three sockets, two sessions, three roles; three joins and two updates in all, spread over the sockets in any way | 1.8 million |
| `demo` | `SettlesLastState`, `ReplyIsForwarded`, `LatestAdvances`, `LastTickSuffices` | the two sockets and five ticks of the code, connections that break | 3 thousand |
| `units_counted`, `stranded`, `units_overflow`, `relay_rejoin` | one statement of the repository each, violated | see section 5 | |

What the less obvious ones ask.  `ChannelPromise` and `SolChannelPromise` are
refinements: each step of the program is a step of `PaymentChannel`, or none, under
the mapping.  The first includes token sessions and holds of `InKindSpec` only; the
second holds for SOL sessions in every instance, also next to token sessions that are
ended the wrong way, purged and reopened, and whatever outsiders send.
`SettledIsPaid` and `ConsumerMadeWhole` compare what a session settled with what was paid
in *its* asset; they too are checked of `InKindSpec`, and `stranded` shows the second
fail without the condition.
`RewardedOnce` and `UnitsCovered` bound a node's reputation and units by
the states that were signed and settled: from above, since no replay or
reordering earns twice (a bonus that is too large stays within the bound), and from
below, since a dispute loses nothing.  `honest` asks
whether the deadlines leave their users enough room: the newest state must be
accepted in the last second of a window, while a session is open it must be possible to
checkpoint and to settle it, past expiry and while paused, and whatever way a session
ends must have settled it.

Why these bounds are enough.  The handlers compare amounts, nonces and times only
with those of the same session, so few values with each order between them
represent the rest: nonces 1 to 3, amounts below, at and above the deposit of 3,
two durations and two windows that put the expiry before, at or after the
deadline.  `BPS_DENOMINATOR = 10`, `MAX_FEE_BPS = 5` make the fee of such amounts
round.  `SessionRent = 2` with a deposit of 3 and a lamport from outside makes a
mixed-up payout hit every case of the rent rule: purged, exempt, rejected.  Sessions
interact through the node's counters, the wallets and the fee vault; two of them show
each such interaction.  `escrow_two` has no money from outside, to stay exhaustive with
two sessions; `escrow_mixed` has, and the theorems of section 4 have any amount of it.
In the co-signing run bytes have 8 values and integers 2 bytes, so that the second
byte, the sign of the timestamp and every field's place matter; offsets still fit
two bytes, as in the code.  The relay's handlers never look at more than one session
and its roles.  Three joins among three sockets and two sessions are a party, its
counterparty and either a socket that takes a role over or a second join of one of
them; two updates are what order needs.  Sockets and sessions are symmetric.
`MAX_U64` is 100, out of reach, in the passing escrow runs; the limits are the
subject of `registry` and `units_overflow`.  `HORIZON` is where `checked_add` on a
timestamp overflows (`i64::MAX` in the code), and the clock stops just after it.
The one bound that hides a behaviour is `WalletRent = 1`: a payment of one unit then
keeps any account rent-exempt.  With `WalletRent = 2` in `escrow_sol.cfg` TLC reports
`ExitOpen` violated: a first fee of one lamport leaves the fee vault below its rent, and
the close cannot be finalized (section 5).  The runs set it to 1 to ask what else could
close an exit.

**Deadlock** is checked in every run of the program, and in `cosigning`: some handler
can always act.  The relay, its clients and the demo may stop (sockets closed, demo
settled, or a message lost), so their runs do not check it.

**Fairness.**  `Fairness` asks two things: that the clock ticks, which the cluster
guarantees, and that a session that stays finalizable or expirable is eventually
finalized or expired.  Nobody has to be honest for that: `finalize_close`
takes any payer, `expire_session` any cranker, and each has one whose money it
releases.  Nothing is assumed of settlements, challenges, signatures or the
authority.  `Demo`'s `Fairness` says that the client's process runs and that the
relay's event loop gets to every message: both are Node.js processes that wait for
nothing else.  Nothing is assumed of the order of two sockets, nor that a connection
lasts.  `HonestChannel` states no fairness; what the parties have to do in time is
the safety condition `Watches`, which the code does not enforce: no client in the
repository watches the chain.

## 4. Proofs

Everything below holds for every value of the constants that satisfies the named
assumptions: for the program `MathAssumption`, `RegistryAssumption`,
`NullAssumption`, `EscrowAssumption` and `ChannelAssumption` (types of the inputs,
distinctness of account keys, positive session rent and minimal duration); for its
books, and for the refinement and the honest parties, which use their lemmas, also `FiniteAssumption` (finitely many nodes, parties, seeds and mints: keys have
32 bytes and seeds 8) and `RolesAssumption` (no wallet is both a provider's and a
consumer's, and the treasury is neither: where one wallet is both, the program does the
same, but its balance no longer tells what it earned from what it spent); for the
co-signing `MessageAssumption`, `EncodingAssumption`, `BindingAssumption` and
`CosigningAssumption`; for the relay `RelayAssumption` and `ClientsAssumption`
(`Null` is no socket, join or channel); for the demo `DemoAssumption` (two sockets, at
least one tick, and `Null` is no state).

* `RegistryProofs`: `FeeBounded` (the fee is at most the payout and at most the
  capped rate of it), `RewardBounded`, and the range of the saturating operations;
  then one lemma per handler, ending in `RegistryTyped`, in the invariant
  `RegistryTypeOK /\ NftNeverAhead` and in the action property `TrackRecordKept` of
  `RegistrySpec`.
* `EscrowProofs`, for `Spec`, the whole program: `TypeCorrect`, `EscrowSolvent`,
  `PendingPayable`, `MoneyFollowsSignatures`, `AttributesNeverAhead`,
  `TrackRecordsSurvive`, `SessionsOnlyAdvance`, `WindowIsHonoured`; and of the exits,
  `UnhinderedMayLeave` (state by state: what is due goes through unless one of two
  named obstacles is there) and its consequence `ExitsStayOpen`, that is
  `Spec /\ []AllUnhindered => []ExitOpen`.
* `AccountingProofs`: `MoneyConserved`, `EarningsAreReal`, `UnitsAreCovered` and
  `FeesAreCapped` hold of every behaviour of `Spec`; `SettledPaidOnce` and
  `ConsumersMadeWhole` of `InKindSpec`; `EachStateRewardedOnce` of every behaviour of
  `Spec` in which the runtime deletes no session account (`NonePurged`), and with it
  `EachStateRewardedOnceInKind` of `InKindSpec`, and `EachStateRewardedOnceBelowRent` of
  `Spec` where no token deposit reaches the rent of a session or no token is offered
  (`DepositsBelowRent`).
* `EscrowRefinementProofs`: `SolSessionsArePaymentChannels`, that is
  `Spec => SolChannelPromise`, and `SessionsArePaymentChannels`, that is
  `InKindSpec => ChannelPromise`.
* `HonestProofs`, for `HonestSpec`: `HonestPartiesGetTheNewest`, that is
  `HonestSpec => []EndsAtNewest`.  Where no session account is deleted,
  `ChallengesStayOpen` (`ChallengeOpen`), `NewestIsCollectable` (state by state: the
  newest state can be checkpointed and settled if it is `Collectable`) and its
  consequence `SettlementsStayOpen` (`SettleOpen`); `ChallengesOpenBelowRent` has the
  first of these of every behaviour where `DepositsBelowRent`.
* `CosigningProofs`: `IntrospectionSound` and `AcceptedIsAgreed`, that what is accepted
  was agreed, and `NoCosignedStateRefused`, the converse.
* `RelayProofs`, for `RelayClients!Spec`: `OnlyFromCounterparty`, `ForwardsInOrder` and
  `NoDeadRegistration`.
* `DemoProofs`, for `Demo!Spec` and any number of ticks: `LastStateSettled`,
  `NeverAnOlderState` and `RepliesForwarded`.

The inductive invariant of the program is

    IInv == TypeOK /\ NftNeverAhead /\ SessionsAnchored
            /\ EscrowBacked /\ PendingWithinDeposit /\ LastStateCosigned

None of its parts is inductive alone.  That balances are natural numbers follows
from each payout's own balance check.  That `EscrowBacked` survives a payout needs
the amounts to be in order: for `finalize` that is `PendingWithinDeposit`, and for
the fee to be at most the payout it takes the type of `config.fee_bps` and
`FeeBounded`.  `SessionsAnchored` (a session's config and node exist) makes fees
and provider well defined.  `LastStateCosigned` after a finalize is
`LastStateCosigned` of the closing state.

The argument has three layers.  A *transfer* changes two entries of one asset
(`MovedEffect`), so a payout takes its total from one escrow and nothing from
any other account (`Paid`, `PayOutEffect`).  *Per session*, `PaidSession` shows that
an escrow still covers its session when the obligation falls by at least what was
paid; a SOL payout from a token session is covered by the rent rule (the account is
purged, unchanged or still rent-exempt) and by the session being over afterwards.
*Per action*, one lemma each shows `GoodStep`: the invariant and both action
properties; `OneSession` and `NoSession` extend a fact about one session to all.  What
outsiders do only adds to an escrow (`GiveStep`).

**Exits.**  `ExitOpen` says that the guards of `finalize` and `expire` hold as soon as the
deadline has passed.  `IInv` has most of what they ask: `PendingWithinDeposit` puts the
amounts in order, `EscrowBacked` has the money, `SessionsAnchored` the accounts.  `EscrowPays` turns these
into `CanPayOut`: what the session holds covers the three shares, and the account it
leaves is exempt from rent or gone.  `NodeTakes` does the same for `CanCredit`.  Two
checks are left that no invariant gives, and `Unhindered` names what meets them: each
payee of a SOL session lacks at most one lamport of the rent of its account, so that any
payment will do (`PayeesReady`; section 5 has the fee vault), and the node's counters have
room for the pending units and the payout (`HasRoom`; section 5, `units_overflow`).  So
whoever is locked in is so for one of these two reasons.  Neither is a matter of
the constants alone: a wallet can be emptied by opening a session, and the counters
depend on what is signed.  `escrow_sol` is an instance in which both hold throughout.

**Refinement.**  What `PaymentChannel` allows one channel to do is first written as a
relation between its states before and after, `Move`, and shown to be a step of the
abstract specification (`SolMoves`, `AllMoves`).  What a channel holds may be more than its
deposit, since anyone can add to it, so each move says what it takes away, not what is
left.  Then each action of the program is shown to be a `StepOf` one session: nothing
else is seen of it, and it moves that session's channel if it holds SOL, or if it is
paid in kind.  A SOL session needs no condition because the program itself keeps the SPL
handlers away from it (`SolPaidInKind`).  `ChannelPromise` is false of `Spec` (section 5,
`stranded`).

**Books.**  A sum is a fold, whose unfolding law needs induction over finite sets.  The
library states that induction with an operator parameter, which no prover here can
instantiate, so `AccountingProofs` argues by a minimal counterexample: strict inclusion
of finite sets is well-founded (the library's
`FS_StrictSubsetOrderingWellFounded`),
so a set on which no sum exists, or on which two differ, has a smallest such set
(`MinimalSet`), and adding one element to a smaller one refutes it.  `SumExists` and
`SumUnique` give what the rest needs: `SumSplits`, `SumAgrees`, `SumOfIndicator` and
`SumChanges` (one entry grows by d, so does the sum).

`StepKinds` then sorts the steps by what they do to money: a payout (`Pays`), an
opening, a withdrawal of fees, a gift from outside, a dispute, or none.  A payout splits
`p + f + r` among three accounts, credits `p` to the node and raises the settled amount by
`p + f`; every book has one lemma that puts these together.  Conservation, earnings,
units and the cap on fees follow whatever asset the handler moved and whether or not the
account is purged.

The other books compare a session with what was paid in *its* asset, and the code does
not see to that: `finalize_close`, `cancel_session` and `expire_session` pay any session in
lamports of its PDA, and the SPL handlers pay from any token account of the vault
authority.  So the condition of these theorems is a condition on behaviours,

    PaidInKind(s) == a step takes nothing from the escrow of s but its own asset

(`AllPaidInKind`, `InKindSpec`).  It cannot be had from the constants: lamports and
worthless tokens come from outside.  Under it a payout is clean (`CleanPayout`): made in
the session's own asset, with the account left in place.

`EachStateRewardedOnce` counts the updates a node has been rewarded for (`Spent`).
Nonces rise within a session, so every reward has an update of its own as long as no
session is reopened with its nonces restarted, that is, as long as no account is purged.
A payout in kind purges none; nor does any payout where deposits are below the rent,
because the PDA holds its rent, more than such a payout takes (`AccountsKeptBelowRent`).

**Honest parties.**  `HonestInv` adds time to `IInv`: while the newest state of a
session has not reached the chain, the session is live and the deadline by which it
can still be brought there has not passed.  A tick keeps it by `Watches`, an end
of the session by what the program checks: a finalize only comes after the deadline,
an expiry after the last second of the session, so nothing newer can be outstanding.
`LastStateCosigned` then says that what is paid is what the newest state owes.

`Watches` demands that somebody acts in time, so it must be possible to act.
`ChainInv` says that a later state of a session owes no less (`OwedInOrder`) and that
what was signed for a session is within its deposit (`SignedIsCovered`).  With
`LastStateCosigned` the newest unseen state passes every comparison of
`verify_cosigned_state` (`NewestVerifies`), which is all that a challenge checks; a
settlement also pays and credits, which `EscrowPays` and `NodeTakes` show as they do for
the exits (`NewestPays`, with `Collectable` for the same two obstacles).
`SignedIsCovered` needs `NonePurged`: a session that a SOL handler purged in the
wrong asset can be opened again with a smaller deposit, under states signed for the old
one.

**Co-signing.**  The invariant says that all instructions beside the program's are
well-formed and that everything accepted was agreed.  The heart of it is
`BindingIsSignature`: if the program's search succeeds, all three indices of the entry
it read name the entry's own instruction, so what it compared is what the precompile
verified.  `RoundTrip` (the three layouts agree and what is read is what was written)
and `SerializeInjective` then turn signed bytes into an agreed state.  The converse
rests on `BuiltIsRecognised`: what the client writes into an instruction's header and
behind it is read back number by number (`HeaderRead`) and slice by slice, provided
that the offsets fit two bytes (`BindingAssumption`).
`EncodingAssumption`, that little-endian notation can be read back, would need
induction over the width; TLC evaluates it for the run's widths.

**Relay.**  `RelayInv` adds to the three properties what the relay is still to learn from
the inboxes.  `Told(ws, i)` is what the relay will take a socket for when it has handled
its first `i` messages; `InboxesTrue` says that each update will find the relay taking its
sender for what it spoke for when it sent it, and `LastTold` that this stays so for what
an open socket sends next.  Hence a forward goes from the session and role that the
update names to the socket registered in the peer role there, which asked for it
(`RegisteredIsLive`): `OnlyCounterparty`.  `SentInOrder` (updates wait in order) and
`ForwardedFirst` (what was forwarded is older than what waits) give `ForwardedInOrder`.  A
close clears its role blindly, and only the last one: for `RegisteredIsLive` it is enough
that no other socket needs to be there, which is why the property can promise no more than
that a socket is not registered in the role in which it closed.

**Demo.**  A state passes five boxes: the provider's inbox at the relay, the consumer's
socket, the consumer's inbox at the relay, the provider's socket, and `latest`.  `InOrder`
says that each box is in order and that everything in a later box is older than
everything in an earlier one (`Chain`).  The first state of a box moves to the end of the next
(`ChainMoves`) or is lost (`ChainShrinks`); either keeps the chain, so what the provider
receives is newer than what it holds, and after the last state nothing comes.  `Joining`
says that either side is registered, in its own role, from its first message to its
close; so a state goes to the other side or nowhere, never back to its sender.

Every safety and action property of a passing run is stated by a theorem, some under
the condition named with it.  The three liveness properties `CloseCompletes`,
`SessionEnds` and `LastTickSuffices` are only model-checked: liveness under fairness is
out of the prover's reach.

## 5. Where the code and its documents disagree

Each of these four is a run that TLC ends with a counterexample.

| Run | What happens | What the repository says |
|---|---|---|
| `units_counted` | after a checkpoint, a dispute overwrites `pending_units`, and `finalize_close` adds the full running total: units are counted twice (`dispute.rs:133`, `spl.rs:289`) | units are a running total, "units+=" (`README.md:28`); `settle.rs:86` subtracts what was counted |
| `stranded` | a token session is ended in an asset it does not hold, and its tokens stay in the vault for good: in lamports that anyone sent to its PDA, by `cancel_session`, `expire_session` or `finalize_close`, or in a worthless token that anyone gave its vault authority, by the SPL handlers | "Wrong escrow type for this instruction" (`errors.rs:32`), "refund the consumer the unsettled remainder" (`lifecycle.rs:53`) |
| `units_overflow` | a closing state whose units overflow the node's counter can never be finalized | "Closing --> Settled : finalize_close() challenge window expired" (`README.md:87`) |
| `relay_rejoin` | a party reconnects and joins; the late close of its old socket clears the role, and it receives nothing until it joins again (`relay.ts:29`) | "Forward signed state updates to the counterparty verbatim" (`relay.ts:21`) |

Of the two ways to strand a session TLC prints the one it meets first; with lamports
alone or worthless tokens alone in `OutsideFunds` it finds either.  A third needs
nothing from outside: a debt that is just the rent empties the PDA, which is purged
(`escrow_mixed` goes through it).

Found while reading, each visible in a definition of the model, without a run:

* A socket that joins a second session stays registered in the first: it goes on
  receiving that session's updates, and its close clears the role of the last join only
  (`relay.ts:15`, `29`), so the old role then names a dead socket.  `OnlyCounterparty`
  and `RegisteredIsLive` are what remains true.  A socket whose role is neither
  `provider` nor `consumer` is sent nothing, and what it sends goes to the provider
  (`relay.ts:24`), who looks at no sender.
* Anyone may create the vault ATA of a session that is still to be opened, and
  `open_session_spl`'s `init` fails then (`spl.rs:54`): the consumer needs another seed.
* A first fee below the rent-exempt minimum of the fee vault, which
  `initialize_config` never funds, makes the payout fail (`RentKept`; with
  `WalletRent = 2` in `escrow_sol.cfg` TLC shows it): a small close waits until somebody
  funds the vault (`dispute.rs:129`, against `README.md:87`).
* Each checkpoint pays the bonus on the running total (`settle.rs:91`,
  `ApplyState`'s call of `CreditNode`), where `constants.rs:22` has "+1 rep per 1000
  units, capped".  `RewardedOnce` bounds the damage.
* A settlement does not touch the NFT (`CreditNode`), where `settle.rs:81` has
  "Update reputation on the Core NFT" and `App.tsx:95` "updates NFT reputation".
  `NftNeverAhead` is what remains true.
* `total_sessions` stays 0: it is incremented in an account that is not writable
  (`open_session.rs:12`, `open_session.rs:76`, `Open`).
* `settle_session` takes "Final settlement (closes the channel)" (`settle.rs:53`) of
  any newer co-signed state and has no challenge window, and `cancel_session`, "no
  usage at all" (`lifecycle.rs:21`), only sees usage that was brought to the chain.
  `HonestChannel` assumes `SettlesFinal` and `CancelsUnused` for that reason, and
  `EndsAtNewest` shows nothing about these two: a provider is safe from them only as far
  as its last checkpoint.
* Nothing makes signing stop when a session has run out (`SessionExpired`,
  `errors.rs:25`, is never raised, and the clients do not look): a state signed
  after expiry may be ignored by an expiry.  `Follows` excludes it.
* `demo.ts` waits for the fifth tick to come back and repeats nothing.  `ready` means
  that a join has been sent, not that the relay has handled it, so a fifth tick may be
  dropped, and `done` never resolves; in practice the 150 ms between two ticks
  prevent it.  `LastTickSuffices` says when the demo completes.
* `provider-cli.ts:40` sends its first tick while its socket is still connecting, where
  `ws` throws; `demo.ts` waits for the open event.
* `README.md:173` has "all 23 instructions" in the SDK.  The program has 20
  (`lib.rs:22-92`), and the SDK has no method for six of them, the ends of a
  disputed, cancelled or expired token session among them.
* `challenge` accepts any signer, where the comment on its account says "Either
  party" (`dispute.rs:26`), and a challenge may lower the amount owed as long as its
  nonce is higher.

## 6. Not modelled

* The start-up of the two CLIs (register, open, join, each once and in order); their
  handlers are those of `demo.ts`.  What a client does when it crashes: it keeps
  `latest` in memory only, and no code reads it back.
* The SDK's other methods: each wraps one instruction and keeps no state.
* `name` and `uri`, `opened_at` and `rate_per_unit` (written, never read), account
  bumps; `timestamp` beyond its place in the message (it is advisory).
* Lamports and tokens sent from outside to wallets and to the fee vault (to sessions they
  are modelled), the rent of token accounts and transaction fees, and a treasury that is
  itself a program account.
* Relay messages that are not JSON, on which the relay's process throws, and a session
  id left empty.
* The web app (a simulated channel in component state), tests and build files.

## 7. Plan

Done: the program and its books with their runs and proofs; its refinement of
`PaymentChannel`, checked and proved for SOL sessions and for all that are paid in kind; the message format and
the Ed25519 search, the relay, the demo and honest parties, checked and proved; and
what keeps the exits, the challenges and the settlements open.
Remaining: `Demo` composed with `HonestChannel`, so that the state settled on chain is
the one the relay delivered.
