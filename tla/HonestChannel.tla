---------------------------- MODULE HonestChannel ----------------------------
(***************************************************************************)
(* The program together with parties that keep the rules of the state      *)
(* channel.  Escrow lets the parties sign anything at any time; here they  *)
(* sign one chain of states (solmesh-state's lib.rs:11), and whoever holds *)
(* the newest one brings it to the chain before a deadline passes without  *)
(* it.  Every step is still a step of Escrow.                              *)
(***************************************************************************)
EXTENDS Escrow

SignedFor(s) == {u \in cosigned : u.session = s}

\* The newest state both parties hold.
IsNewest(u) == u \in cosigned /\ \A v \in SignedFor(u.session) : v.nonce <= u.nonce

\* The chain has not yet seen the newest state of s.
Unseen(s) == \E u \in SignedFor(s) : u.nonce > session[s].last_nonce

\* "owed_to_provider is cumulative and monotonically non-decreasing; nonce
\* strictly increases by 1 per update", and signing ends when the session leaves
\* Open or runs out: from then on anyone may expire it at any moment.
Follows(u) ==
    /\ HasStatus(u.session, "Open") /\ now <= session[u.session].expiry
    /\ u.owed_to_provider <= session[u.session].deposited
    /\ \/ SignedFor(u.session) = {} /\ u.nonce = 1
       \/ \E v \in SignedFor(u.session) :
             /\ IsNewest(v)
             /\ u.nonce = v.nonce + 1
             /\ u.owed_to_provider >= v.owed_to_provider

SignsChain == \A u \in cosigned' \ cosigned : Follows(u)

\* No second begins in which a deadline has passed the newest state by: its
\* holder challenges, checkpoints or settles in time.
Watches ==
    now' > now => \A s \in Sessions :
        /\ HasStatus(s, "Closing") /\ Unseen(s) => now < session[s].challenge_deadline
        /\ HasStatus(s, "Open") /\ Unseen(s) => now < session[s].expiry

Becomes(s, status) == Live(s) /\ session'[s] # Null /\ session'[s].status = status

\* The parties end a session as agreed when they end it together: a final
\* settlement presents the final state ("Submit final co-signed state",
\* App.tsx:95) and a session is cancelled only if it "has had no usage at all"
\* (lifecycle.rs:21).  The program sees neither: settle_session takes any newer
\* state, cancel_session only asks that none was brought to the chain.
SettlesFinal ==
    \A s \in Sessions : HasStatus(s, "Open") /\ Becomes(s, "Settled") =>
        \A u \in SignedFor(s) : u.nonce <= session'[s].last_nonce
CancelsUnused == \A s \in Sessions : Becomes(s, "Cancelled") => SignedFor(s) = {}

HonestNext == Next /\ SignsChain /\ Watches /\ SettlesFinal /\ CancelsUnused

HonestSpec == Init /\ [][HonestNext]_vars

-----------------------------------------------------------------------------
PaidInFull(s) ==
    IF SignedFor(s) = {}
    THEN session[s].settled_to_provider = 0
    ELSE \E u \in SignedFor(s) :
            IsNewest(u) /\ session[s].settled_to_provider = u.owed_to_provider

\* However a session ends (a close begun with any old state and challenged or
\* not, an expiry after any checkpoints, a final settlement), it has settled what
\* the newest state says.  SettlesFinal and CancelsUnused are part of this: the
\* program lets the one who settles or cancels pass over a newer state.
EndsAtNewest ==
    \A s \in Sessions : Exists(s) /\ ~Live(s) => PaidInFull(s)

\* A watcher can act: while a close is pending, the newest state is accepted as
\* a challenge up to the deadline, its last second included, whatever older
\* states, checkpoints and challenges came before.
ChallengeOpen ==
    \A u \in cosigned :
        (/\ HasStatus(u.session, "Closing")
         /\ IsNewest(u) /\ Unseen(u.session)
         /\ now <= session[u.session].challenge_deadline)
        => CanChallenge(u.session, u)

\* A provider can always collect: while a session is open, the newest state the
\* chain has not seen can be checkpointed and can be settled, past expiry, under
\* any fee and while the program is paused.
SettleOpen ==
    \A u \in cosigned :
        HasStatus(u.session, "Open") /\ IsNewest(u) /\ Unseen(u.session) =>
            \A final \in BOOLEAN : CanApply(AssetOf(u.session), u.session, u, final)
=============================================================================
