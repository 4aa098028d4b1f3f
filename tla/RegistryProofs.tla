--------------------------- MODULE RegistryProofs ---------------------------
(***************************************************************************)
(* What the program's arithmetic guarantees, the registry's invariant and  *)
(* the guarantees that rest on it, proved for all sets of nodes,           *)
(* providers, authorities and inputs.  The lemmas are stated per action,   *)
(* because Escrow runs the same actions in its own steps and EscrowProofs  *)
(* cites them there.                                                       *)
(***************************************************************************)
EXTENDS Registry, TLAPS

-----------------------------------------------------------------------------
(***************************************************************************)
(* The arithmetic of the settlement program, for every value of its tuning *)
(* constants.                                                              *)
(***************************************************************************)

\* Rust's integer division of unsigned numbers rounds down and stays unsigned.
LEMMA DivisionFloors ==
    ASSUME NEW x \in Nat, NEW d \in Nat \ {0}
    PROVE  /\ x \div d \in Nat
           /\ d * (x \div d) <= x
           /\ x < d * (x \div d) + d
  <1> DEFINE q == x \div d
             r == x % d
  <1>1. x = d * q + r /\ r \in 0..(d - 1) /\ q \in Int
    BY SMT
  <1>2. q \in Nat
    <2> SUFFICES ASSUME q < 0 PROVE FALSE
      BY <1>1
    <2>1. d * q <= - d
      BY <1>1, SMT
    <2> QED
      BY <1>1, <2>1
  <1> QED
    BY <1>1, <1>2

\* The protocol fee of a payout never exceeds the payout, nor the capped rate.
THEOREM FeeBounded ==
    ASSUME NEW payout \in Nat, NEW fee_bps \in 0..MAX_FEE_BPS
    PROVE  /\ FeeFor(payout, fee_bps) \in 0..payout
           /\ FeeFor(payout, fee_bps) * BPS_DENOMINATOR <= payout * MAX_FEE_BPS
  <1> USE MathAssumption
  <1> DEFINE q == FeeFor(payout, fee_bps)
             product == payout * fee_bps
  <1>1. product \in Nat /\ product <= payout * MAX_FEE_BPS
    BY SMT
  <1>2. payout * MAX_FEE_BPS <= payout * BPS_DENOMINATOR
    BY SMT
  <1>3. q \in Nat /\ BPS_DENOMINATOR * q <= product
    BY <1>1, DivisionFloors DEF FeeFor
  <1>4. q * BPS_DENOMINATOR <= payout * BPS_DENOMINATOR
    BY <1>1, <1>2, <1>3, SMT
  <1>5. q <= payout
    BY <1>3, <1>4, SMT
  <1> QED
    BY <1>1, <1>3, <1>5, SMT

\* The reward of a settlement lies between the base and the base plus the cap.
THEOREM RewardBounded ==
    ASSUME NEW units \in Nat
    PROVE  ReputationReward(units) \in REP_BASE_REWARD..(REP_BASE_REWARD + REP_MAX_BONUS)
  BY MathAssumption, DivisionFloors DEF ReputationReward

\* The saturating operations stay in the type and are monotone where the
\* handlers rely on it: a reputation never falls.
LEMMA Saturation ==
    /\ \A a, b \in Nat : SaturatingSub(a, b) \in 0..a
    /\ \A a \in U32, b \in Nat : SaturatingAddU32(a, b) \in U32 /\ SaturatingAddU32(a, b) >= a
  BY MathAssumption DEF SaturatingSub, SaturatingAddU32, U32

-----------------------------------------------------------------------------
(***************************************************************************)
(* The registry.                                                           *)
(***************************************************************************)

RegistryInv == RegistryTypeOK /\ NftNeverAhead

\* What a registry step may do to the nodes.
NodesKept ==
    \A n \in Nodes : Registered(n) =>
        /\ node'[n] # Null
        /\ node'[n].provider = node[n].provider
        /\ node'[n].reputation >= node[n].reputation
        /\ node'[n].total_units >= node[n].total_units
        /\ node'[n].total_settled >= node[n].total_settled

ConfigKept == config # Null => config' # Null

\* The guards on the inputs leave values of the fields' types.
LEMMA InputsTyped ==
    /\ \A fee \in FeeRates : FeeAllowed(fee) => fee \in 0..MAX_FEE_BPS
    /\ \A window \in Windows : WindowAllowed(window) => window \in Nat \ {0}
    /\ \A capacity \in Capacities : capacity > 0 => capacity \in U64 \ {0}
  <1>1. FeeRates \subseteq Nat /\ Windows \subseteq Int /\ Capacities \subseteq U64
    BY RegistryAssumption
  <1>2. MAX_FEE_BPS \in Nat /\ MAX_U64 \in Nat
    BY MathAssumption
  <1> QED
    BY <1>1, <1>2 DEF FeeAllowed, WindowAllowed, U64

LEMMA ConfigHandlers ==
    ASSUME RegistryInv,
           NEW signer \in Authorities,
           \/ \E fee \in FeeRates, window \in Windows : InitializeConfig(signer, fee, window)
           \/ \E fee \in FeeRates \cup {None}, window \in Windows \cup {None} :
                 UpdateConfig(signer, fee, window)
           \/ \E paused \in BOOLEAN : SetPaused(signer, paused)
    PROVE  RegistryInv' /\ NodesKept /\ ConfigKept
  <1> USE RegistryAssumption, MathAssumption DEF RegistryInv, RegistryTypeOK
  <1>1. config' \in Config
    <2>1. CASE \E fee \in FeeRates, window \in Windows : InitializeConfig(signer, fee, window)
      <3>1. PICK fee \in FeeRates, window \in Windows : InitializeConfig(signer, fee, window)
        BY <2>1
      <3>2. fee \in 0..MAX_FEE_BPS /\ window \in Nat \ {0}
        BY <3>1, InputsTyped DEF InitializeConfig
      <3> QED
        BY <3>1, <3>2 DEF InitializeConfig, Config
    <2>2. CASE \E fee \in FeeRates \cup {None}, window \in Windows \cup {None} :
                 UpdateConfig(signer, fee, window)
      <3>1. PICK fee \in FeeRates \cup {None}, window \in Windows \cup {None} :
                UpdateConfig(signer, fee, window)
        BY <2>2
      <3>2. config \in Config
        BY <3>1 DEF UpdateConfig, Authorized
      <3>3. fee # None => fee \in 0..MAX_FEE_BPS
        BY <3>1, InputsTyped DEF UpdateConfig
      <3>4. window # None => window \in Nat \ {0}
        BY <3>1, InputsTyped DEF UpdateConfig
      <3> QED
        BY <3>1, <3>2, <3>3, <3>4 DEF UpdateConfig, Config
    <2>3. CASE \E paused \in BOOLEAN : SetPaused(signer, paused)
      BY <2>3 DEF SetPaused, Authorized, Config
    <2> QED
      BY <2>1, <2>2, <2>3
  <1>2. UNCHANGED <<node, attributes>>
    BY DEF InitializeConfig, UpdateConfig, SetPaused
  <1>3. NftNeverAhead'
    BY <1>2 DEF NftNeverAhead, Registered
  <1>4. NodesKept
    BY <1>2 DEF NodesKept, Registered, Node, U32, U64
  <1> QED
    BY <1>1, <1>2, <1>3, <1>4, NullAssumption DEF ConfigKept

LEMMA RegisterNodeStep ==
    ASSUME RegistryInv,
           NEW n \in Nodes, NEW signer \in Providers,
           NEW capacity \in Capacities, NEW geo \in Geos, NEW rep \in InitReputations,
           RegisterNode(n, signer, capacity, geo, rep)
    PROVE  RegistryInv' /\ NodesKept /\ ConfigKept
  <1> USE RegistryAssumption, MathAssumption DEF RegistryInv, RegistryTypeOK
  <1> DEFINE nd == [provider |-> signer, capacity |-> capacity, geo |-> geo,
                    reputation |-> rep, total_units |-> 0,
                    total_sessions |-> 0, total_settled |-> 0, active |-> TRUE]
             at == [capacity |-> capacity, geo |-> geo, reputation |-> rep, total_units |-> 0]
  <1>1. nd \in Node /\ at \in Attributes
    BY DEF RegisterNode, CreateNodeAsset, Node, Attributes, U64, U32
  <1>2. /\ node' = [node EXCEPT ![n] = nd]
        /\ attributes' = [attributes EXCEPT ![n] = at]
        /\ UNCHANGED config /\ ~Registered(n)
    BY DEF RegisterNode, CreateNodeAsset
  <1>3. RegistryTypeOK'
    BY <1>1, <1>2
  <1>4. NftNeverAhead'
    <2>1. node'[n] = nd /\ attributes'[n] = at
      BY <1>2
    <2>2. \A m \in Nodes \ {n} : node'[m] = node[m] /\ attributes'[m] = attributes[m]
      BY <1>2
    <2> QED
      BY <1>1, <2>1, <2>2, NullAssumption DEF NftNeverAhead, Registered, U64, U32
  <1>5. NodesKept
    BY <1>2 DEF NodesKept, Registered, Node, U64, U32
  <1> QED
    BY <1>2, <1>3, <1>4, <1>5 DEF ConfigKept

LEMMA UpdateNodeMetaStep ==
    ASSUME RegistryInv,
           NEW n \in Nodes, NEW signer \in Providers,
           NEW capacity \in Capacities \cup {None}, NEW geo \in Geos \cup {None},
           NEW active \in BOOLEAN \cup {None},
           UpdateNodeMeta(n, signer, capacity, geo, active)
    PROVE  RegistryInv' /\ NodesKept /\ ConfigKept
  <1> USE RegistryAssumption DEF RegistryInv, RegistryTypeOK
  <1> DEFINE nd == EditedNode(n, capacity, geo, active)
             at == [capacity |-> nd.capacity, geo |-> nd.geo,
                    reputation |-> nd.reputation, total_units |-> nd.total_units]
  <1>1. node[n] \in Node
    BY DEF UpdateNodeMeta, Registered
  <1>2. nd \in Node /\ at \in Attributes
    <2>1. capacity # None => capacity \in U64 \ {0}
      BY InputsTyped DEF UpdateNodeMeta
    <2>2. geo # None => geo \in Geos \ LongGeos
      BY DEF UpdateNodeMeta
    <2>3. nd \in Node
      BY <1>1, <2>1, <2>2 DEF EditedNode, Node
    <2> QED
      BY <2>3 DEF Node, Attributes
  <1>3. node' = [node EXCEPT ![n] = nd] /\ UNCHANGED config
    BY DEF UpdateNodeMeta
  <1>4. attributes' = [attributes EXCEPT ![n] = at]
    BY <1>3 DEF UpdateNodeMeta, SetReputation
  <1>5. nd.provider = node[n].provider /\ nd.reputation = node[n].reputation
        /\ nd.total_units = node[n].total_units /\ nd.total_settled = node[n].total_settled
    BY <1>1 DEF EditedNode, Node
  <1>6. RegistryTypeOK'
    BY <1>2, <1>3, <1>4
  <1>7. NftNeverAhead'
    BY <1>2, <1>3, <1>4, NullAssumption DEF NftNeverAhead, Registered, Node, U64, U32
  <1>8. NodesKept
    BY <1>2, <1>3, <1>5, NullAssumption DEF NodesKept, Registered, Node, U64, U32
  <1> QED
    BY <1>3, <1>6, <1>7, <1>8 DEF ConfigKept

LEMMA CreditNodeStep ==
    ASSUME RegistryInv,
           NEW n \in Nodes, NEW newUnits \in Nat, NEW earningUnits \in Nat, NEW amount \in Nat,
           CreditNode(n, newUnits, earningUnits, amount)
    PROVE  RegistryInv' /\ NodesKept /\ ConfigKept
  <1> USE MathAssumption DEF RegistryInv, RegistryTypeOK
  <1> DEFINE reward == ReputationReward(earningUnits)
             nd == [node[n] EXCEPT !.reputation = SaturatingAddU32(@, reward),
                                   !.total_units = @ + newUnits,
                                   !.total_settled = @ + amount]
  <1>1. node[n] \in Node
    BY DEF CreditNode, Registered, CanCredit
  <1>2. reward \in Nat
    BY RewardBounded
  <1>3. SaturatingAddU32(node[n].reputation, reward) \in U32
        /\ SaturatingAddU32(node[n].reputation, reward) >= node[n].reputation
    BY <1>1, <1>2, Saturation DEF Node
  <1>4. /\ nd \in Node
        /\ nd.provider = node[n].provider /\ nd.reputation >= node[n].reputation
        /\ nd.total_units >= node[n].total_units /\ nd.total_settled >= node[n].total_settled
        /\ nd.capacity = node[n].capacity /\ nd.geo = node[n].geo
    <2>1. node[n].total_units + newUnits \in U64 /\ node[n].total_settled + amount \in U64
      BY <1>1 DEF CreditNode, Node, U64, CanCredit
    <2>2. nd \in Node
      BY <1>1, <1>3, <2>1 DEF Node
    <2>3. node[n].total_units \in Nat /\ node[n].total_settled \in Nat
      BY <1>1 DEF Node, U64
    <2> QED
      BY <1>1, <1>3, <2>2, <2>3 DEF Node
  <1>5. node' = [node EXCEPT ![n] = nd] /\ UNCHANGED <<config, attributes>>
    BY DEF CreditNode, CanCredit
  <1>6. RegistryTypeOK'
    BY <1>4, <1>5
  <1>7. NftNeverAhead'
    <2>1. node'[n] = nd /\ \A m \in Nodes \ {n} : node'[m] = node[m]
      BY <1>5
    <2>2. attributes[n] \in Attributes /\ nd # Null
      BY <1>1, <1>4, NullAssumption DEF NftNeverAhead, Registered
    <2>3. /\ attributes[n].reputation <= node[n].reputation
          /\ attributes[n].total_units <= node[n].total_units
      BY <1>1, NullAssumption DEF NftNeverAhead, Registered
    <2>4. /\ attributes[n].reputation \in Int /\ attributes[n].total_units \in Int
          /\ node[n].reputation \in Int /\ node[n].total_units \in Int
          /\ nd.reputation \in Int /\ nd.total_units \in Int
      <3> HIDE DEF nd
      <3>1. \A x \in Node : x.reputation \in Int /\ x.total_units \in Int
        BY DEF Node, U64, U32
      <3>2. \A x \in Attributes : x.reputation \in Int /\ x.total_units \in Int
        BY DEF Attributes, U64, U32
      <3> QED
        BY <1>1, <1>4, <2>2, <3>1, <3>2
    <2>5. /\ attributes[n].reputation <= nd.reputation
          /\ attributes[n].total_units <= nd.total_units
      BY <1>4, <2>3, <2>4
    <2> QED
      BY <1>1, <1>4, <1>5, <2>1, <2>2, <2>5, NullAssumption DEF NftNeverAhead, Registered
  <1>8. NodesKept
    <2>1. node'[n] = nd /\ \A m \in Nodes \ {n} : node'[m] = node[m]
      BY <1>5
    <2>2. \A m \in Nodes : Registered(m) =>
              /\ node[m].reputation \in Int /\ node[m].total_units \in Int
              /\ node[m].total_settled \in Int
      BY DEF Registered, Node, U64, U32
    <2>3. nd # Null
      BY <1>4, NullAssumption
    <2>4. \A m \in Nodes \ {n} : Registered(m) =>
              /\ node'[m] = node[m]
              /\ node'[m].reputation >= node[m].reputation
              /\ node'[m].total_units >= node[m].total_units
              /\ node'[m].total_settled >= node[m].total_settled
      BY <2>1, <2>2
    <2> QED
      BY <1>4, <2>1, <2>3, <2>4 DEF NodesKept, Registered
  <1> QED
    BY <1>5, <1>6, <1>7, <1>8 DEF ConfigKept

LEMMA RegistryHandlerStep ==
    ASSUME RegistryInv, RegistryHandler
    PROVE  RegistryInv' /\ NodesKept /\ ConfigKept
  BY ConfigHandlers, RegisterNodeStep, UpdateNodeMetaStep DEF RegistryHandler

LEMMA RegistryStutter ==
    ASSUME RegistryInv, UNCHANGED registryVars
    PROVE  RegistryInv' /\ NodesKept /\ ConfigKept
  BY DEF registryVars, RegistryInv, RegistryTypeOK, NftNeverAhead, NodesKept, ConfigKept,
         Registered, Node, U64, U32

LEMMA RegistryInitInv == RegistryInit => RegistryInv
  BY DEF RegistryInit, RegistryInv, RegistryTypeOK, NftNeverAhead, Registered

LEMMA RegistryStep ==
    ASSUME RegistryInv, [RegistryNext]_registryVars
    PROVE  RegistryInv' /\ NodesKept /\ ConfigKept
  <1>1. CASE RegistryHandler
    BY <1>1, RegistryHandlerStep
  <1>2. CASE \E n \in Nodes, newUnits, earningUnits \in UnitCounts, amount \in Earnings :
                CreditNode(n, newUnits, earningUnits, amount)
    BY <1>2, CreditNodeStep, RegistryAssumption, MathAssumption DEF U64
  <1>3. CASE UNCHANGED registryVars
    BY <1>3, RegistryStutter
  <1> QED
    BY <1>1, <1>2, <1>3 DEF RegistryNext

\* The registry's accounts keep their types: no sequence of registrations,
\* edits, config changes and settlements takes a counter or a setting out of
\* the range its field and the handlers' checks allow.
THEOREM RegistryTyped == RegistrySpec => []RegistryTypeOK
  <1>1. RegistryInv /\ [RegistryNext]_registryVars => RegistryInv'
    BY RegistryStep
  <1> QED
    BY RegistryInitInv, <1>1, PTL DEF RegistrySpec, RegistryInv

\* The registry's accounts keep their types and the NFT never claims more than
\* its Node account has earned.
THEOREM RegistryInvariant == RegistrySpec => [](RegistryTypeOK /\ NftNeverAhead)
  <1>1. RegistryInv /\ [RegistryNext]_registryVars => RegistryInv'
    BY RegistryStep
  <1>2. RegistryInv => RegistryTypeOK /\ NftNeverAhead
    BY DEF RegistryInv
  <1> QED
    BY RegistryInitInv, <1>1, <1>2, PTL DEF RegistrySpec

\* No handler lowers a node's track record, moves the node to another provider
\* or forgets it.
THEOREM TrackRecordIsKept == RegistrySpec => TrackRecordKept
  <1>1. RegistryInv /\ [RegistryNext]_registryVars => RegistryInv'
    BY RegistryStep
  <1>2. RegistryInv /\ [RegistryNext]_registryVars => [NodesKept]_registryVars
    BY RegistryStep
  <1> QED
    BY RegistryInitInv, <1>1, <1>2, PTL DEF RegistrySpec, TrackRecordKept, NodesKept
=============================================================================
