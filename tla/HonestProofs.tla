---------------------------- MODULE HonestProofs ----------------------------
(***************************************************************************)
(* What honest, watchful parties get from the program, for every number of *)
(* sessions and every chain of states.  On top of EscrowProofs' invariant  *)
(* it takes one about time: a state the chain has not seen has time left;  *)
(* and one about the chain of states: whatever was signed for a session is *)
(* covered by its deposit, and a newer state owes no less than an older.   *)
(***************************************************************************)
EXTENDS HonestChannel, AccountingProofs

\* While a newer state is unseen, the session lives and can still take it.
InTime(s) ==
    Unseen(s) =>
        /\ Live(s)
        /\ HasStatus(s, "Open") => now <= session[s].expiry
        /\ HasStatus(s, "Closing") => now <= session[s].challenge_deadline

ChainNumbered == \A u \in cosigned : u.nonce > 0
AllInTime == \A s \in Sessions : Exists(s) => InTime(s)
HonestInv == ChainNumbered /\ AllInTime

LEMMA NoncesAreNat ==
    ASSUME TypeOK
    PROVE  \A u \in cosigned : u.nonce \in Nat /\ u.session \in Sessions
  BY MathAssumption DEF TypeOK, StateUpdate, U64

LEMMA TimesAreInt ==
    ASSUME TypeOK, NEW s \in Sessions, Exists(s)
    PROVE  /\ now \in Int /\ session[s].expiry \in Int
           /\ session[s].challenge_deadline \in Int
  BY EscrowAssumption DEF TypeOK, Exists, Session, Times

\* What the invariant asks depends on the record, the signatures and the clock.
LEMMA InTimeKept ==
    ASSUME NEW s \in Sessions, session'[s] = session[s], cosigned' = cosigned, now' = now,
           Exists(s) => InTime(s)
    PROVE  Exists(s)' => InTime(s)'
  BY DEF InTime, Exists, Unseen, SignedFor, Live, HasStatus

\* A step that changes the session s only.
LEMMA OneInTime ==
    ASSUME HonestInv, UNCHANGED <<cosigned, now>>, NEW s \in Sessions,
           \A t \in Sessions : t # s => session'[t] = session[t],
           Exists(s)' => InTime(s)'
    PROVE  HonestInv'
  <1>1. ASSUME NEW t \in Sessions, t # s
        PROVE  Exists(t)' => InTime(t)'
    BY <1>1, InTimeKept DEF HonestInv, AllInTime
  <1>2. AllInTime'
    BY <1>1 DEF AllInTime
  <1> QED
    BY <1>2 DEF HonestInv, ChainNumbered

\* What a session has seen it has seen for good.
LEMMA StillUnseen ==
    ASSUME TypeOK, NEW s \in Sessions, cosigned' = cosigned,
           session[s].last_nonce \in Nat, session'[s].last_nonce \in Nat,
           session'[s].last_nonce >= session[s].last_nonce, Unseen(s)'
    PROVE  Unseen(s)
  BY NoncesAreNat DEF Unseen, SignedFor

\* A handler that stores a record, or leaves an account the runtime purges.
LEMMA Stored ==
    ASSUME TypeOK, NEW s \in Sessions, NEW record, Store(s, record)
    PROVE  /\ \A t \in Sessions : t # s => session'[t] = session[t]
           /\ Exists(s)' => session'[s] = record
  BY DEF TypeOK, Store, Exists

-----------------------------------------------------------------------------
LEMMA OpenInTime ==
    ASSUME IInv, HonestInv, NEW s \in Sessions, NEW mint \in Mints \cup {None},
           NEW amount \in Amounts, NEW duration \in Durations,
           Open(s, mint, amount, duration)
    PROVE  HonestInv'
  <1> DEFINE record == [status |-> "Open", mint |-> mint, deposited |-> amount,
                        settled_to_provider |-> 0, last_nonce |-> 0,
                        expiry |-> now + duration, challenge_deadline |-> 0,
                        pending_payout |-> 0, pending_units |-> 0]
  <1>1. /\ duration \in MIN_DURATION_SECS..MAX_DURATION_SECS
        /\ session' = [session EXCEPT ![s] = record]
        /\ UNCHANGED <<cosigned, now>>
    BY DEF Open
  <1>2. TypeOK /\ now \in Nat /\ duration \in Nat
    BY <1>1, EscrowAssumption DEF IInv, TypeOK
  <1>3. session'[s] = record /\ \A t \in Sessions : t # s => session'[t] = session[t]
    BY <1>1, <1>2 DEF TypeOK
  <1>4. Exists(s)' => InTime(s)'
    BY <1>1, <1>2, <1>3 DEF InTime, Live, HasStatus
  <1> QED
    BY <1>1, <1>3, <1>4, OneInTime

\* A checkpoint shows a newer state; a final settlement shows the newest.
LEMMA ApplyStateInTime ==
    ASSUME IInv, HonestInv, NEW a \in Assets, NEW s \in Sessions, NEW u \in cosigned,
           NEW final \in BOOLEAN, ApplyState(a, s, u, final), SettlesFinal
    PROVE  HonestInv'
  <1> DEFINE record == [session[s] EXCEPT
                          !.settled_to_provider = u.owed_to_provider,
                          !.last_nonce = u.nonce,
                          !.pending_units = u.units_consumed,
                          !.status = IF final THEN "Settled" ELSE @]
  <1>1. /\ HasStatus(s, "Open") /\ VerifyCosignedState(s, u) /\ Store(s, record)
        /\ UNCHANGED <<cosigned, now>>
    BY DEF ApplyState, CanApply, NetDue, FeeDue, Remainder, NewUnits
  <1>2. TypeOK /\ Exists(s) /\ session[s] \in Session /\ session[s].last_nonce \in Nat
    BY <1>1, SessionFields DEF IInv, HasStatus
  <1>3. /\ \A t \in Sessions : t # s => session'[t] = session[t]
        /\ Exists(s)' => session'[s] = record
    BY <1>1, <1>2, Stored
  <1>4. u.nonce \in Nat /\ u.nonce > session[s].last_nonce
    BY <1>1, <1>2, NoncesAreNat DEF VerifyCosignedState
  <1>5. /\ record.last_nonce = u.nonce /\ record.expiry = session[s].expiry
        /\ record.status = IF final THEN "Settled" ELSE "Open"
    BY <1>1, <1>2 DEF Session, HasStatus
  <1> HIDE DEF record
  <1>6. ASSUME Exists(s)', Unseen(s)'
        PROVE  /\ Live(s)'
               /\ HasStatus(s, "Open")' => now' <= session'[s].expiry
               /\ HasStatus(s, "Closing")' => now' <= session'[s].challenge_deadline
    <2>1. Unseen(s)
      BY <1>1, <1>2, <1>3, <1>4, <1>5, <1>6, StillUnseen
    <2>2. InTime(s)
      BY <1>2 DEF HonestInv, AllInTime
    <2>3. CASE final
      <3>1. Becomes(s, "Settled")
        BY <1>1, <1>3, <1>5, <1>6, <2>3 DEF Becomes, Live, Exists
      <3>2. \A v \in SignedFor(s) : v.nonce <= session'[s].last_nonce
        BY <1>1, <3>1 DEF SettlesFinal
      <3>3. \A v \in SignedFor(s) : v.nonce \in Nat
        BY <1>2, NoncesAreNat DEF SignedFor
      <3> QED
        BY <1>1, <1>3, <1>4, <1>5, <1>6, <3>2, <3>3 DEF Unseen, SignedFor
    <2>4. CASE ~final
      BY <1>1, <1>3, <1>5, <1>6, <2>1, <2>2, <2>4 DEF InTime, Live, HasStatus
    <2> QED
      BY <2>3, <2>4
  <1> QED
    BY <1>1, <1>3, <1>6, OneInTime DEF InTime

\* A close starts a window, and a challenge shows a newer state within it.
LEMMA DisputeInTime ==
    ASSUME IInv, HonestInv, NEW s \in Sessions, NEW u \in cosigned,
           \/ \E caller \in Wallets : InitiateUnilateralClose(s, caller, u)
           \/ Challenge(s, u)
    PROVE  HonestInv'
  <1>1. /\ VerifyCosignedState(s, u) /\ Exists(s) /\ UNCHANGED <<cosigned, now>>
        /\ \A t \in Sessions : t # s => session'[t] = session[t]
    BY DEF InitiateUnilateralClose, Challenge, HasStatus, IInv, TypeOK, CanChallenge
  <1>2. TypeOK /\ session[s] \in Session /\ session[s].last_nonce \in Nat
    BY <1>1, SessionFields DEF IInv
  <1>3. /\ session'[s].last_nonce = u.nonce /\ session'[s].status = "Closing"
        /\ now <= session'[s].challenge_deadline
    <2>1. CASE \E caller \in Wallets : InitiateUnilateralClose(s, caller, u)
      <3>1. config \in Config
        BY <1>1 DEF IInv, SessionsAnchored, TypeOK, RegistryTypeOK
      <3>2. now \in Nat /\ config.challenge_window_secs \in Nat
        BY <1>2, <3>1, EscrowAssumption DEF TypeOK, Config
      <3>3. session'[s].challenge_deadline = now + config.challenge_window_secs
        BY <1>2, <2>1 DEF InitiateUnilateralClose, TypeOK, Session
      <3> QED
        BY <1>2, <2>1, <3>2, <3>3 DEF InitiateUnilateralClose, TypeOK, Session
    <2>2. CASE Challenge(s, u)
      BY <1>2, <2>2 DEF Challenge, TypeOK, Session, HasStatus, CanChallenge
    <2> QED
      BY <2>1, <2>2
  <1>4. Exists(s)' => InTime(s)'
    BY <1>1, <1>3 DEF InTime, Live, HasStatus, Exists
  <1> QED
    BY <1>1, <1>4, OneInTime

\* A close is finalized, or a session expires, when nothing unseen had time left.
LEMMA EndInTime ==
    ASSUME IInv, HonestInv, NEW s \in Sessions, Exists(s), ~Unseen(s),
           NEW record, Store(s, record), record.last_nonce = session[s].last_nonce,
           UNCHANGED <<cosigned, now>>
    PROVE  HonestInv'
  <1>1. TypeOK /\ session[s].last_nonce \in Nat
    BY SessionFields DEF IInv
  <1>2. /\ \A t \in Sessions : t # s => session'[t] = session[t]
        /\ Exists(s)' => session'[s] = record
    BY <1>1, Stored
  <1>3. Exists(s)' => ~Unseen(s)'
    BY <1>1, <1>2, StillUnseen
  <1> QED
    BY <1>2, <1>3, OneInTime DEF InTime

LEMMA FinalizeInTime ==
    ASSUME IInv, HonestInv, NEW a \in Assets, NEW s \in Sessions, Finalize(a, s)
    PROVE  HonestInv'
  <1> DEFINE record == [session[s] EXCEPT !.settled_to_provider = session[s].pending_payout,
                                          !.status = "Settled"]
  <1>1. /\ HasStatus(s, "Closing") /\ now > session[s].challenge_deadline
        /\ Store(s, record) /\ UNCHANGED <<cosigned, now>>
    BY DEF Finalize, CanFinalize, NetDue, FeeDue
  <1>2. TypeOK /\ Exists(s) /\ session[s] \in Session
    BY <1>1, SessionFields DEF IInv, HasStatus
  <1>3. ~Unseen(s)
    BY <1>1, <1>2, TimesAreInt DEF HonestInv, AllInTime, InTime
  <1>4. record.last_nonce = session[s].last_nonce
    BY <1>2 DEF Session
  <1> QED
    BY <1>1, <1>2, <1>3, <1>4, EndInTime

LEMMA RefundInTime ==
    ASSUME IInv, HonestInv, NEW a \in Assets, NEW s \in Sessions, CancelsUnused,
           \/ \E signer \in Wallets : Cancel(a, s, signer)
           \/ Expire(a, s)
    PROVE  HonestInv'
  <1>1. PICK status \in {"Cancelled", "Expired"} :
            /\ HasStatus(s, "Open") /\ Refund(a, s, status)
            /\ status = "Expired" => now > session[s].expiry
    BY DEF Cancel, Expire, CanExpire
  <1> DEFINE record == [session[s] EXCEPT !.status = status]
  <1>2. TypeOK /\ Exists(s) /\ session[s] \in Session
    BY <1>1, SessionFields DEF IInv, HasStatus
  <1>3. Store(s, record) /\ UNCHANGED <<cosigned, now>>
    BY <1>1 DEF Refund, CanRefund
  <1>4. record.last_nonce = session[s].last_nonce /\ record.status = status
    BY <1>2 DEF Session
  <1>5. /\ \A t \in Sessions : t # s => session'[t] = session[t]
        /\ Exists(s)' => session'[s] = record
    BY <1>2, <1>3, Stored
  <1> HIDE DEF record
  <1>6. CASE status = "Expired"
    <2>1. ~Unseen(s)
      BY <1>1, <1>2, <1>6, TimesAreInt DEF HonestInv, AllInTime, InTime
    <2> QED
      BY <1>2, <1>3, <1>4, <2>1, EndInTime
  <1>7. CASE status = "Cancelled"
    <2>1. ASSUME Exists(s)'
          PROVE  ~Unseen(s)'
      <3>1. Becomes(s, "Cancelled")
        BY <1>1, <1>4, <1>5, <1>7, <2>1 DEF Becomes, Live, Exists
      <3>2. SignedFor(s)' = {}
        BY <1>3, <3>1 DEF CancelsUnused, SignedFor
      <3> QED
        BY <3>2 DEF Unseen
    <2> QED
      BY <1>3, <1>5, <2>1, OneInTime DEF InTime
  <1> QED
    BY <1>6, <1>7

-----------------------------------------------------------------------------
\* A new signature needs an open session with time left.
LEMMA CoSignInTime ==
    ASSUME IInv, HonestInv, NEW u \in StateUpdates, CoSign(u), SignsChain
    PROVE  HonestInv'
  <1>1. /\ cosigned' = cosigned \cup {u} /\ u \notin cosigned
        /\ session' = session /\ now' = now
    BY DEF CoSign
  <1>2. Follows(u)
    BY <1>1 DEF SignsChain
  <1>3. TypeOK /\ \A v \in cosigned : v.nonce \in Nat
    BY NoncesAreNat DEF IInv
  <1>4. u.nonce > 0
    BY <1>2, <1>3 DEF Follows, SignedFor
  <1>5. ASSUME NEW t \in Sessions, Exists(t)'
        PROVE  InTime(t)'
    <2>1. Exists(t) /\ InTime(t)
      BY <1>1, <1>5 DEF HonestInv, AllInTime, Exists
    <2>2. CASE u.session = t
      BY <1>1, <1>2, <2>2 DEF Follows, InTime, Live, HasStatus, Exists
    <2>3. CASE u.session # t
      <3>1. SignedFor(t)' = SignedFor(t)
        BY <1>1, <2>3 DEF SignedFor
      <3> QED
        BY <1>1, <2>1, <3>1 DEF InTime, Unseen, Live, HasStatus, Exists
    <2> QED
      BY <2>2, <2>3
  <1> QED
    BY <1>1, <1>4, <1>5 DEF HonestInv, ChainNumbered, AllInTime

\* The clock only passes a deadline when the chain has seen everything.
LEMMA TickInTime ==
    ASSUME IInv, HonestInv, Tick, Watches
    PROVE  HonestInv'
  <1>1. now' = now + 1 /\ session' = session /\ cosigned' = cosigned
    BY DEF Tick
  <1>2. TypeOK /\ now \in Int
    BY DEF IInv, TypeOK
  <1>3. ASSUME NEW t \in Sessions, Exists(t)'
        PROVE  InTime(t)'
    <2>1. Exists(t) /\ InTime(t)
      BY <1>1, <1>3 DEF HonestInv, AllInTime, Exists
    <2>2. /\ session[t].expiry \in Int /\ session[t].challenge_deadline \in Int
      BY <1>2, <2>1, TimesAreInt
    <2>3. /\ HasStatus(t, "Closing") /\ Unseen(t) => now < session[t].challenge_deadline
          /\ HasStatus(t, "Open") /\ Unseen(t) => now < session[t].expiry
      BY <1>1, <1>2 DEF Watches
    <2> QED
      BY <1>1, <1>2, <2>1, <2>2, <2>3 DEF InTime, Unseen, SignedFor, Live, HasStatus, Exists
  <1> QED
    BY <1>1, <1>3 DEF HonestInv, ChainNumbered, AllInTime

LEMMA QuietInTime ==
    ASSUME HonestInv, UNCHANGED <<session, cosigned, now>>
    PROVE  HonestInv'
  BY InTimeKept DEF HonestInv, ChainNumbered, AllInTime

LEMMA HonestStep ==
    ASSUME IInv, HonestInv, [HonestNext]_vars
    PROVE  HonestInv'
  <1>1. CASE UNCHANGED vars
    BY <1>1, QuietInTime DEF vars, escrowVars
  <1>2. CASE HonestNext
    <2>1. Next /\ SignsChain /\ Watches /\ SettlesFinal /\ CancelsUnused
      BY <1>2 DEF HonestNext
    <2>2. CASE SessionHandler
      <3>1. PICK s \in Sessions :
              \/ \E mint \in Mints \cup {None}, amount \in Amounts, duration \in Durations :
                    Open(s, mint, amount, duration)
              \/ \E a \in Assets, u \in cosigned, final \in BOOLEAN : ApplyState(a, s, u, final)
              \/ \E u \in cosigned :
                    \/ \E caller \in Wallets : InitiateUnilateralClose(s, caller, u)
                    \/ Challenge(s, u)
              \/ \E a \in Assets :
                    \/ Finalize(a, s)
                    \/ \E signer \in Wallets : Cancel(a, s, signer)
                    \/ Expire(a, s)
        BY <2>2, HandlersByKind
      <3>2. CASE \E mint \in Mints \cup {None}, amount \in Amounts, duration \in Durations :
                    Open(s, mint, amount, duration)
        BY <3>2, OpenInTime
      <3>3. CASE \E a \in Assets, u \in cosigned, final \in BOOLEAN : ApplyState(a, s, u, final)
        BY <2>1, <3>3, ApplyStateInTime
      <3>4. CASE \E u \in cosigned :
                    \/ \E caller \in Wallets : InitiateUnilateralClose(s, caller, u)
                    \/ Challenge(s, u)
        BY <3>4, DisputeInTime
      <3>5. CASE \E a \in Assets :
                    \/ Finalize(a, s)
                    \/ \E signer \in Wallets : Cancel(a, s, signer)
                    \/ Expire(a, s)
        BY <2>1, <3>5, FinalizeInTime, RefundInTime
      <3> QED
        BY <3>1, <3>2, <3>3, <3>4, <3>5
    <2>3. CASE \E u \in StateUpdates : CoSign(u)
      BY <2>1, <2>3, CoSignInTime
    <2>4. CASE Tick
      BY <2>1, <2>4, TickInTime
    <2>5. CASE \/ RegistryHandler /\ UNCHANGED escrowVars
               \/ \E signer \in Authorities, amount \in 1..ledger[SOL][FeeVault] :
                     WithdrawFees(signer, amount)
      BY <2>5, QuietInTime DEF WithdrawFees, escrowVars
    <2>6. CASE OutsideStep
      BY <2>6, QuietInTime DEF OutsideStep, Give, CreateVault
    <2> QED
      BY <2>1, <2>2, <2>3, <2>4, <2>5, <2>6 DEF Next
  <1> QED
    BY <1>1, <1>2

LEMMA SeenIsPaid ==
    ASSUME IInv, HonestInv, NEW s \in Sessions, Exists(s), ~Live(s)
    PROVE  PaidInFull(s)
  <1>1. TypeOK /\ session[s].last_nonce \in Nat /\ FollowsUpdate(s)
    BY SessionFields DEF IInv, LastStateCosigned
  <1>2. \A u \in SignedFor(s) : u.nonce \in Nat /\ u.nonce > 0
    BY <1>1, NoncesAreNat DEF HonestInv, ChainNumbered, SignedFor
  <1>3. \A u \in SignedFor(s) : u.nonce <= session[s].last_nonce
    BY <1>1, <1>2 DEF HonestInv, AllInTime, InTime, Unseen
  <1>4. CASE session[s].last_nonce = 0
    <2>1. SignedFor(s) = {}
      BY <1>2, <1>3, <1>4
    <2> QED
      BY <1>1, <1>4, <2>1 DEF FollowsUpdate, PaidInFull
  <1>5. CASE session[s].last_nonce # 0
    <2>1. ~HasStatus(s, "Closing")
      BY DEF Live
    <2>2. PICK u \in cosigned : /\ u.session = s /\ u.nonce = session[s].last_nonce
                                /\ u.owed_to_provider = session[s].settled_to_provider
      BY <1>1, <1>5, <2>1 DEF FollowsUpdate
    <2>3. u \in SignedFor(s) /\ IsNewest(u)
      BY <1>3, <2>2 DEF SignedFor, IsNewest
    <2> QED
      BY <2>2, <2>3 DEF PaidInFull
  <1> QED
    BY <1>4, <1>5

-----------------------------------------------------------------------------
LEMMA HonestInductive == HonestSpec => [](IInv /\ HonestInv)
  <1>1. Init => IInv /\ HonestInv
    BY InitInv DEF Init, HonestInv, ChainNumbered, AllInTime, Exists
  <1>2. IInv /\ HonestInv /\ [HonestNext]_vars => (IInv /\ HonestInv)'
    <2>1. [HonestNext]_vars => [Next]_vars
      BY DEF HonestNext
    <2> QED
      BY <2>1, NextStep, HonestStep DEF GoodStep
  <1> QED
    BY <1>1, <1>2, PTL DEF HonestSpec

\* Parties who sign one chain, watch the deadlines and end a session as agreed
\* get what they signed: whatever path a session took to its end, it settled
\* exactly what the newest state both signed says.  (In what asset the provider
\* got it is SettledPaidOnce's question.)
THEOREM HonestPartiesGetTheNewest == HonestSpec => []EndsAtNewest
  <1>1. IInv /\ HonestInv => EndsAtNewest
    BY SeenIsPaid DEF EndsAtNewest
  <1> QED
    BY HonestInductive, <1>1, PTL

-----------------------------------------------------------------------------
(***************************************************************************)
(* The newest state is always acceptable.  The chain of states says so as  *)
(* long as the session it was signed for is still the one at its PDA: a    *)
(* session whose account a payout left empty can be opened again with a    *)
(* smaller deposit, under states signed for the old one (NonePurged rules  *)
(* that out, and AccountingProofs says when it holds).                     *)
(***************************************************************************)

OwedInOrder ==
    \A u, v \in cosigned : u.session = v.session /\ u.nonce <= v.nonce =>
        u.owed_to_provider <= v.owed_to_provider

SignedIsCovered ==
    \A u \in cosigned :
        Exists(u.session) /\ u.owed_to_provider <= session[u.session].deposited

ChainInv == OwedInOrder /\ SignedIsCovered

LEMMA OwedIsNat ==
    ASSUME TypeOK
    PROVE  \A u \in cosigned : /\ u.nonce \in Nat /\ u.owed_to_provider \in Nat
                               /\ u.units_consumed \in Nat /\ u.session \in Sessions
  BY MathAssumption DEF TypeOK, StateUpdate, U64

\* A session whose account is not deleted keeps its place and its deposit.
LEMMA StaysInPlace ==
    ASSUME IInv, NonePurged, [Next]_vars, NEW s \in Sessions, Exists(s)
    PROVE  Exists(s)' /\ session'[s].deposited = session[s].deposited
  <1>1. Exists(s)'
    BY DEF NonePurged, Exists
  <1> QED
    BY <1>1, NextStep DEF GoodStep, Advances, Exists

\* A step signs at most one state.
LEMMA OneSignature ==
    ASSUME IInv, [Next]_vars
    PROVE  cosigned' = cosigned \/ \E u \in StateUpdates : CoSign(u)
  <1>1. CASE SessionHandler
    <2>1. PICK s \in Sessions :
            \/ \E mint \in Mints \cup {None}, amount \in Amounts, duration \in Durations :
                  Open(s, mint, amount, duration)
            \/ \E a \in Assets, u \in cosigned, final \in BOOLEAN : ApplyState(a, s, u, final)
            \/ \E u \in cosigned :
                  \/ \E caller \in Wallets : InitiateUnilateralClose(s, caller, u)
                  \/ Challenge(s, u)
            \/ \E a \in Assets :
                  \/ Finalize(a, s)
                  \/ \E signer \in Wallets : Cancel(a, s, signer)
                  \/ Expire(a, s)
      BY <1>1, HandlersByKind
    <2> QED
      BY <2>1
         DEF Open, ApplyState, InitiateUnilateralClose, Challenge, Finalize, Cancel, Expire, Refund
  <1>2. CASE UNCHANGED escrowVars \/ UNCHANGED vars
    BY <1>2 DEF vars, escrowVars
  <1>3. CASE Tick \/ \E signer \in Authorities, amount \in 1..ledger[SOL][FeeVault] :
                WithdrawFees(signer, amount)
    BY <1>3 DEF WithdrawFees, Tick
  <1>4. CASE OutsideStep
    BY <1>4 DEF OutsideStep, Give, CreateVault
  <1> QED
    BY <1>1, <1>2, <1>3, <1>4 DEF Next

LEMMA ChainStep ==
    ASSUME IInv, NonePurged, ChainInv, [HonestNext]_vars
    PROVE  ChainInv'
  <1>1. TypeOK /\ [Next]_vars
    BY DEF IInv, HonestNext
  <1>2. \A s \in Sessions : Exists(s) => Exists(s)' /\ session'[s].deposited = session[s].deposited
    BY <1>1, StaysInPlace
  <1>3. \A u \in cosigned : /\ u.nonce \in Nat /\ u.owed_to_provider \in Nat
                            /\ u.session \in Sessions
    BY <1>1, OwedIsNat
  <1>4. CASE cosigned' = cosigned
    BY <1>2, <1>3, <1>4 DEF ChainInv, OwedInOrder, SignedIsCovered
  <1>5. CASE \E u \in StateUpdates : CoSign(u)
    <2>1. PICK u \in StateUpdates : CoSign(u)
      BY <1>5
    <2>2. cosigned' = cosigned \cup {u} /\ u \notin cosigned /\ session' = session
      BY <2>1 DEF CoSign
    <2>3. Follows(u)
      BY <2>2 DEF HonestNext, SignsChain, vars, escrowVars
    <2>4. u.nonce \in Nat /\ u.owed_to_provider \in Nat
      BY EscrowAssumption, MathAssumption DEF StateUpdate, U64
    <2>5. SignedIsCovered'
      BY <2>2, <2>3 DEF ChainInv, SignedIsCovered, Follows, HasStatus, Exists
    <2>6. \A w \in SignedFor(u.session) :
              w.owed_to_provider <= u.owed_to_provider /\ w.nonce < u.nonce
      <3>1. CASE SignedFor(u.session) = {}
        BY <3>1
      <3>2. CASE SignedFor(u.session) # {}
        <4>1. PICK v \in SignedFor(u.session) :
                 IsNewest(v) /\ u.nonce = v.nonce + 1 /\ u.owed_to_provider >= v.owed_to_provider
          BY <2>3, <3>2 DEF Follows
        <4>2. ASSUME NEW w \in SignedFor(u.session)
              PROVE  w.owed_to_provider <= v.owed_to_provider /\ w.nonce <= v.nonce
          BY <4>1 DEF IsNewest, SignedFor, ChainInv, OwedInOrder
        <4>3. ASSUME NEW w \in SignedFor(u.session)
              PROVE  w.owed_to_provider \in Nat /\ w.nonce \in Nat
          BY <1>3 DEF SignedFor
        <4> QED
          BY <2>4, <4>1, <4>2, <4>3
      <3> QED
        BY <3>1, <3>2
    <2>7. ASSUME NEW v \in cosigned', NEW w \in cosigned',
                 v.session = w.session, v.nonce <= w.nonce
          PROVE  v.owed_to_provider <= w.owed_to_provider
      <3>1. CASE v \in cosigned /\ w \in cosigned
        BY <2>7, <3>1 DEF ChainInv, OwedInOrder
      <3>2. CASE v = u /\ w = u
        BY <2>4, <3>2
      <3>3. CASE v = u /\ w \in cosigned
        <4>1. w \in SignedFor(u.session)
          BY <2>7, <3>3 DEF SignedFor
        <4>2. w.nonce < u.nonce /\ w.nonce \in Nat
          BY <1>3, <2>6, <3>3, <4>1
        <4> QED
          BY <2>4, <2>7, <3>3, <4>2
      <3>4. CASE v \in cosigned /\ w = u
        <4>1. v \in SignedFor(u.session)
          BY <2>7, <3>4 DEF SignedFor
        <4> QED
          BY <2>6, <3>4, <4>1
      <3> QED
        BY <2>2, <3>1, <3>2, <3>3, <3>4
    <2> QED
      BY <2>5, <2>7 DEF ChainInv, OwedInOrder
  <1> QED
    BY <1>1, <1>4, <1>5, OneSignature

\* What the proofs of this section lean on.
HonestState == IInv /\ HonestInv /\ ChainInv

LEMMA HonestChainInductive == HonestSpec /\ [][NonePurged]_vars => []HonestState
  <1>1. Init => ChainInv
    BY DEF Init, ChainInv, OwedInOrder, SignedIsCovered
  <1>2. IInv /\ ChainInv /\ [HonestNext]_vars /\ [NonePurged]_vars => ChainInv'
    <2>1. [NonePurged]_vars => NonePurged
      BY DEF NonePurged, Exists, vars, escrowVars
    <2> QED
      BY <2>1, ChainStep
  <1> QED
    BY HonestInductive, <1>1, <1>2, PTL DEF HonestSpec, HonestState

\* The checks that a settlement, a checkpoint, a close and a challenge share.
LEMMA NewestVerifies ==
    ASSUME HonestState, NEW u \in cosigned, Live(u.session), IsNewest(u), Unseen(u.session)
    PROVE  VerifyCosignedState(u.session, u)
  <1> DEFINE s == u.session
             old == session[s]
  <1>1. /\ TypeOK /\ s \in Sessions /\ Exists(s) /\ FollowsUpdate(s)
        /\ \A v \in cosigned : v.nonce \in Nat /\ v.owed_to_provider \in Nat
    BY OwedIsNat DEF HonestState, IInv, LastStateCosigned, Live, HasStatus
  <1>2. /\ old.last_nonce \in Nat /\ old.settled_to_provider \in Nat
        /\ old.pending_payout \in Nat
    BY <1>1, SessionFields
  <1>3. u.nonce > old.last_nonce
    <2>1. PICK v \in SignedFor(s) : v.nonce > old.last_nonce
      BY DEF Unseen
    <2>2. v.nonce <= u.nonce /\ v \in cosigned
      BY <2>1 DEF IsNewest, SignedFor
    <2> QED
      BY <1>1, <1>2, <2>1, <2>2
  <1>4. u.owed_to_provider <= old.deposited
    BY DEF HonestState, ChainInv, SignedIsCovered
  <1>5. u.owed_to_provider >= old.settled_to_provider
    <2>1. CASE old.last_nonce = 0
      BY <1>1, <2>1 DEF FollowsUpdate
    <2>2. CASE old.last_nonce # 0
      <3>1. PICK v \in cosigned :
               /\ v.session = s /\ v.nonce = old.last_nonce
               /\ v.owed_to_provider = IF HasStatus(s, "Closing")
                                       THEN old.pending_payout ELSE old.settled_to_provider
        BY <1>1, <2>2 DEF FollowsUpdate
      <3>2. v.nonce <= u.nonce
        BY <1>1, <1>2, <1>3, <3>1
      <3>3. v.owed_to_provider <= u.owed_to_provider
        BY <3>1, <3>2 DEF HonestState, ChainInv, OwedInOrder
      <3>4. HasStatus(s, "Closing") => old.pending_payout >= old.settled_to_provider
        BY <1>1, <1>2 DEF HonestState, IInv, PendingWithinDeposit
      <3> QED
        BY <1>1, <1>2, <3>1, <3>3, <3>4
    <2> QED
      BY <2>1, <2>2
  <1> QED
    BY <1>3, <1>4, <1>5 DEF VerifyCosignedState

\* Whoever watches can act: the newest state is accepted as a challenge in every
\* second of the window, whatever older states, checkpoints and challenges came
\* before it, as long as the runtime deletes no session account.
THEOREM ChallengesStayOpen == HonestSpec /\ [][NonePurged]_vars => []ChallengeOpen
  <1>1. HonestState => ChallengeOpen
    BY NewestVerifies DEF ChallengeOpen, CanChallenge, Live
  <1> QED
    BY HonestChainInductive, <1>1, PTL

\* What a payment of u needs of the accounts around the session.
Collectable(u) ==
    /\ PayeesReady(u.session, {ProviderOf(u.session), FeeVault, u.session.consumer})
    /\ HasRoom(u.session, NewUnits(u.session, u))

LEMMA NewestPays ==
    ASSUME HonestState, NEW u \in cosigned, HasStatus(u.session, "Open"), IsNewest(u),
           Unseen(u.session), Collectable(u), NEW final \in BOOLEAN
    PROVE  CanApply(AssetOf(u.session), u.session, u, final)
  <1> DEFINE s == u.session
             owed == u.owed_to_provider
             units == NewUnits(s, u)
             rest == Remainder(s, u, final)
  <1>1. /\ IInv /\ TypeOK /\ s \in Sessions /\ Exists(s) /\ Live(s)
        /\ owed \in Nat /\ u.units_consumed \in Nat
    BY OwedIsNat DEF HonestState, IInv, Live, HasStatus
  <1>2. /\ session[s].deposited \in Nat /\ session[s].settled_to_provider \in Nat
        /\ session[s].pending_units \in Nat
    BY <1>1, SessionFields
  <1>3. VerifyCosignedState(s, u)
    BY <1>1, NewestVerifies
  <1>4. owed >= session[s].settled_to_provider /\ owed <= session[s].deposited
    BY <1>3 DEF VerifyCosignedState
  <1>5. units \in Nat /\ units \in 0..units
    <2>1. SaturatingSub(u.units_consumed, session[s].pending_units) \in 0..u.units_consumed
      BY <1>1, <1>2, Saturation
    <2> QED
      BY <1>1, <2>1 DEF NewUnits
  <1>6. HasRoom(s, units) /\ PayeesReady(s, {ProviderOf(s), FeeVault, s.consumer})
    BY DEF Collectable
  <1>7. rest \in Nat /\ rest <= session[s].deposited - owed
    BY <1>1, <1>2, <1>4 DEF Remainder
  <1> HIDE DEF s, owed, units, rest
  <1>8. /\ NetDue(s, owed) \in Nat /\ FeeDue(s, owed) \in Nat
        /\ NetDue(s, owed) + FeeDue(s, owed) = owed - session[s].settled_to_provider
        /\ CanCredit(s.node, units, NetDue(s, owed))
    BY <1>1, <1>4, <1>5, <1>6, NodeTakes
  <1>9. NetDue(s, owed) + FeeDue(s, owed) + rest <= Unsettled(s)
    BY <1>1, <1>2, <1>7, <1>8 DEF Unsettled
  <1>10. /\ AssetOf(s) = SOL => session[s].mint = None
         /\ PaysFrom(AssetOf(s), s)
         /\ CanPayOut(AssetOf(s), s, NetDue(s, owed), FeeDue(s, owed), rest)
    BY <1>1, <1>6, <1>7, <1>8, <1>9, EscrowPays
  <1>11. HasStatus(s, "Open")
    BY DEF s
  <1> QED
    BY <1>3, <1>8, <1>10, <1>11 DEF CanApply, s, owed, units, rest

\* A provider can always collect the newest state of an open session, in part or
\* for good, under any fee, past expiry and while the program is paused: all it
\* takes is payees that can be paid, room in the node's counters, and that the
\* runtime has deleted no session account.
THEOREM NewestIsCollectable ==
    HonestSpec /\ [][NonePurged]_vars =>
        [](\A u \in cosigned :
              HasStatus(u.session, "Open") /\ IsNewest(u) /\ Unseen(u.session) /\ Collectable(u)
              => \A final \in BOOLEAN : CanApply(AssetOf(u.session), u.session, u, final))
  <1>1. HonestState =>
          \A u \in cosigned :
              HasStatus(u.session, "Open") /\ IsNewest(u) /\ Unseen(u.session) /\ Collectable(u)
              => \A final \in BOOLEAN : CanApply(AssetOf(u.session), u.session, u, final)
    BY NewestPays
  <1> QED
    BY HonestChainInductive, <1>1, PTL

AllCollectable ==
    \A u \in cosigned :
        HasStatus(u.session, "Open") /\ IsNewest(u) /\ Unseen(u.session) => Collectable(u)

\* Where these two hold of all sessions, so does the property itself.
THEOREM SettlementsStayOpen ==
    HonestSpec /\ [][NonePurged]_vars /\ []AllCollectable => []SettleOpen
  <1>1. HonestState /\ AllCollectable => SettleOpen
    BY NewestPays DEF AllCollectable, SettleOpen
  <1> QED
    BY HonestChainInductive, <1>1, PTL

\* Where the rent of a session is more than any deposit, or no token is offered,
\* a challenge with the newest state is accepted in every execution.
THEOREM ChallengesOpenBelowRent ==
    ASSUME DepositsBelowRent
    PROVE  HonestSpec => []ChallengeOpen
  <1>1. [HonestNext]_vars => [Next]_vars
    BY DEF HonestNext
  <1>2. HonestSpec => Spec
    BY <1>1, PTL DEF HonestSpec, Spec
  <1> QED
    BY <1>2, AccountsKeptBelowRent, ChallengesStayOpen, PTL
=============================================================================
