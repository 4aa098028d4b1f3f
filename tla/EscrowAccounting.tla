-------------------------- MODULE EscrowAccounting --------------------------
(***************************************************************************)
(* The books of the settlement program, stated as sums over all sessions,  *)
(* accounts and nodes: where every lamport and token is, who was paid      *)
(* what, and whether the counters a Node account shows agree with it.      *)
(*                                                                         *)
(* A sum is taken of a function over its domain.  An entry that does not   *)
(* count (no session at the PDA, another asset, another provider's node)   *)
(* is 0 in the function.                                                   *)
(***************************************************************************)
EXTENDS Escrow, FiniteSets, Functions

\* Keys have 32 bytes and seeds 8, so there are finitely many to sum over.
ASSUME FiniteAssumption ==
    /\ IsFiniteSet(Nodes) /\ IsFiniteSet(Providers) /\ IsFiniteSet(Consumers)
    /\ IsFiniteSet(Seeds) /\ IsFiniteSet(Mints)

\* The books tell what a wallet earned from what it spent by whose wallet it is.
ASSUME RolesAssumption ==
    /\ Providers \cap Consumers = {}
    /\ Treasury \notin Providers \cup Consumers

Gained(a, acc) == ledger[a][acc] - Funds
GainsIn(a) == [p \in Providers |-> Gained(a, p)]
GainsOf(p) == [a \in Assets |-> Gained(a, p)]

\* Protocol fees of an asset: in the vault, or already withdrawn.
Fees(a) == ledger[a][FeeVault] + ledger[a][Treasury]

\* What each session has settled of asset a.
SettledIn(a) ==
    [s \in Sessions |->
        IF Exists(s) /\ AssetOf(s) = a THEN session[s].settled_to_provider ELSE 0]

\* What a session has cost its consumer in asset a, besides the rent.
Outlay(a, s) ==
    IF a # AssetOf(s) THEN 0
    ELSE IF Live(s) THEN session[s].deposited
    ELSE session[s].settled_to_provider

OutlaysOf(c, a) ==
    [s \in Sessions |-> IF Exists(s) /\ s.consumer = c THEN Outlay(a, s) ELSE 0]

\* The rent of the sessions c has opened.
RentsOf(c, a) ==
    [s \in Sessions |->
        IF a = SOL /\ Exists(s) /\ s.consumer = c THEN SessionRent ELSE 0]

\* The earnings shown by each node of p.
ShownBy(p) ==
    [n \in Nodes |->
        IF Registered(n) /\ node[n].provider = p THEN node[n].total_settled ELSE 0]

\* The units each session of n has settled, if it is not in dispute.
UnitsAt(n) ==
    [s \in Sessions |->
        IF s.node = n /\ Exists(s) /\ ~HasStatus(s, "Closing")
        THEN session[s].pending_units ELSE 0]

\* Nothing is minted or lost: each asset's total is what the parties and the
\* outsiders began with.
Conservation ==
    \A a \in Assets :
        SumFunction(ledger[a]) =
        Funds * Cardinality(Providers \cup Consumers) + OutsideFunds[a]

\* Each settled unit of value is paid out exactly once, to a provider or as a
\* fee, however checkpoints, closes and withdrawals interleave.  (Of InKindSpec.)
SettledIsPaid ==
    \A a \in Assets :
        SumFunction(GainsIn(a)) + Fees(a) = SumFunction(SettledIn(a))

\* A consumer is out of pocket by, for each session opened, the settled amount
\* once it has ended (the whole deposit while it is live), and by no more than
\* the rents besides: every refund is made, once, and in full.  (Of InKindSpec.)
ConsumerMadeWhole ==
    \A c \in Consumers, a \in Assets :
        LET rents == - Gained(a, c) - SumFunction(OutlaysOf(c, a))
        IN  rents >= 0 /\ rents <= SumFunction(RentsOf(c, a))

\* The protocol never takes more than the maximal fee of what a settlement pays
\* out, in any asset, whatever the authority does to the fee between a deposit
\* and its settlement, and however often a session is checkpointed.
FeesWithinCap ==
    \A a \in Assets :
        Fees(a) * BPS_DENOMINATOR <=
        MAX_FEE_BPS * (Fees(a) + SumFunction(GainsIn(a)))

\* The earnings a provider's nodes show (lamports and tokens added up) are what
\* the provider's wallets received.
EarningsShown ==
    \A p \in Providers : SumFunction(ShownBy(p)) = SumFunction(GainsOf(p))

\* A co-signed state earns its node at most one reward: replaying, reordering or
\* mixing checkpoints, settlements and closes never pays for a state twice.
RewardedOnce ==
    \A n \in Nodes : Registered(n) =>
        \E start \in InitReputations :
            node[n].reputation <=
            start + (REP_BASE_REWARD + REP_MAX_BONUS) *
                    Cardinality({u \in cosigned : u.session.node = n})

\* No unit is lost between a checkpoint, a close and its challenges: a node's
\* total_units covers what every session that is not in dispute has settled.
\* (It may show more: see UnitsCountedOnce.)
UnitsCovered ==
    \A n \in Nodes : Registered(n) => node[n].total_units >= SumFunction(UnitsAt(n))

-----------------------------------------------------------------------------
(***************************************************************************)
(* What the repository says and the code does not do (see the README).     *)
(***************************************************************************)

\* units_consumed of an update is the session's running total ("units+="), so a
\* node's total_units should be the sum of what its settled sessions consumed.
UnitsCountedOnce ==
    \A n \in Nodes : Registered(n) =>
        node[n].total_units <=
        SumFunction([s \in Sessions |->
            IF s.node = n /\ Exists(s) THEN session[s].pending_units ELSE 0])
=============================================================================
