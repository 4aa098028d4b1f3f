-------------------------- MODULE EscrowRefinement --------------------------
(***************************************************************************)
(* The settlement program implements PaymentChannel: for sessions in SOL   *)
(* always, for sessions in tokens as long as they are paid in kind.  A     *)
(* session is seen through what its escrow really holds: the lamports of   *)
(* the Session account above its rent, or the tokens of its mint.          *)
(***************************************************************************)
EXTENDS Escrow

\* Every terminal status is the end of the channel.
PhaseOf(s) ==
    IF session[s].status = "Open" THEN "Open"
    ELSE IF session[s].status = "Closing" THEN "Contested"
    ELSE "Over"

HeldBy(s) ==
    IF session[s].mint = None
    THEN ledger[SOL][s] - SessionRent
    ELSE ledger[session[s].mint][s]

ChannelView(s) ==
    IF ~Exists(s) THEN Null
    ELSE [phase |-> PhaseOf(s),
          deposit |-> session[s].deposited,
          held |-> HeldBy(s),
          paid |-> session[s].settled_to_provider,
          nonce |-> session[s].last_nonce,
          claim |-> session[s].pending_payout,
          expiry |-> session[s].expiry,
          deadline |-> session[s].challenge_deadline]

\* The units of an update are no business of the payment channel.
Payment(u) == [channel |-> u.session, nonce |-> u.nonce, owed |-> u.owed_to_provider]
PaymentsOf(us) == {Payment(u) : u \in us}

AllChannels == [s \in Sessions |-> ChannelView(s)]

PC == INSTANCE PaymentChannel WITH
    Channels <- Sessions,
    Deposits <- Amounts \ {0},
    Payments <- PaymentsOf(StateUpdates),
    chan <- AllChannels,
    signed <- PaymentsOf(cosigned),
    clock <- now

\* Whatever fees, pauses, windows, node changes, disputes and other sessions do,
\* the parties of a session see a payment channel: its escrow loses exactly what
\* is paid while the session lives and exactly the rest of the deposit when it
\* ends, and every change is backed by a newer payment shown in time, or by time.
\* (Of InKindSpec: a token session paid in another asset is no such channel.)
ChannelPromise == PC!Spec

-----------------------------------------------------------------------------
(***************************************************************************)
(* The sessions that hold SOL, without the condition.  A token session is  *)
(* no channel here, nor is a PDA that the runtime purged.                  *)
(***************************************************************************)

SolChannel(s) ==
    IF Exists(s) /\ session[s].mint = None THEN ChannelView(s) ELSE Null

SolChannels == [s \in Sessions |-> SolChannel(s)]

SolPC == INSTANCE PaymentChannel WITH
    Channels <- Sessions,
    Deposits <- Amounts \ {0},
    Payments <- PaymentsOf(StateUpdates),
    chan <- SolChannels,
    signed <- PaymentsOf(cosigned),
    clock <- now

ASSUME ChannelAssumption == Null \notin SolPC!Channel

\* A session that holds SOL is a payment channel whatever happens around it,
\* also where token sessions at the same program are ended by the handlers of
\* the wrong kind, purged and opened again as SOL sessions.
SolChannelPromise == SolPC!Spec
=============================================================================
