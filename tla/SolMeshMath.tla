---------------------------- MODULE SolMeshMath ----------------------------
(***************************************************************************)
(* The arithmetic of the settlement program: the protocol fee, the         *)
(* reputation reward and Rust's checked / saturating operations on u64 and *)
(* u32.  The tuning values of constants.rs are CONSTANTS here, so that a   *)
(* model can scale them down while the theorems hold for every value.      *)
(***************************************************************************)
EXTENDS Integers

CONSTANTS
    BPS_DENOMINATOR,  \* 10_000 in the code
    MAX_FEE_BPS,      \* 1_000 in the code: a fee of at most 10%
    REP_BASE_REWARD,  \* 1 in the code
    REP_UNIT_SCALE,   \* 1_000 in the code
    REP_MAX_BONUS,    \* 10 in the code
    MAX_U64,          \* u64::MAX
    MAX_U32           \* u32::MAX

ASSUME MathAssumption ==
    /\ BPS_DENOMINATOR \in Nat \ {0}
    /\ MAX_FEE_BPS \in 0..BPS_DENOMINATOR
    /\ REP_BASE_REWARD \in Nat
    /\ REP_UNIT_SCALE \in Nat \ {0}
    /\ REP_MAX_BONUS \in Nat
    /\ MAX_U64 \in Nat
    /\ MAX_U32 \in Nat

U64 == 0..MAX_U64
U32 == 0..MAX_U32

\* Wrong on purpose, like every definition whose name ends in _Wrong: a slip
\* that the properties must notice.  Here: the division rounds up.
FeeFor_Wrong(payout, fee_bps) ==
    (payout * fee_bps + BPS_DENOMINATOR - 1) \div BPS_DENOMINATOR

\* fee_for: the product is taken in u128, so only the division rounds (down).
FeeFor(payout, fee_bps) == (payout * fee_bps) \div BPS_DENOMINATOR

\* reputation_reward: the base, and one point per REP_UNIT_SCALE units, capped.
ReputationReward(units) ==
    LET bonus == units \div REP_UNIT_SCALE
    IN  REP_BASE_REWARD + (IF bonus < REP_MAX_BONUS THEN bonus ELSE REP_MAX_BONUS)

\* u32 wrapping addition.
SaturatingAddU32_Wrong(a, b) == (a + b) % (MAX_U32 + 1)

\* u64::saturating_sub and u32::saturating_add.
SaturatingSub(a, b) == IF a > b THEN a - b ELSE 0
SaturatingAddU32(a, b) == IF a + b < MAX_U32 THEN a + b ELSE MAX_U32
=============================================================================
