------------------------------ MODULE Registry ------------------------------
(***************************************************************************)
(* The protocol's registry: the singleton Config account, one Node account *)
(* per Metaplex Core asset, and the Attributes plugin the asset carries.   *)
(* The handlers are initialize_config, register_node, update_config,       *)
(* set_paused and update_node_meta; CreditNode is what every settlement    *)
(* handler does to the Node account.  An instruction that fails leaves no  *)
(* trace (the runtime discards the transaction), so each require! of a     *)
(* handler is a guard of its action.                                       *)
(***************************************************************************)
EXTENDS SolMeshMath

CONSTANTS
    Null,          \* an account that does not exist
    None,          \* Rust's Option::None
    Nodes,         \* Core asset keys; the Node PDA is derived from the key
    Providers,
    Authorities,   \* keys that may call the admin instructions
    \* Inputs a run offers to the handlers.
    FeeRates,      \* fee_bps arguments
    Windows,       \* challenge_window_secs arguments
    Capacities,
    Geos,
    LongGeos,      \* the members of Geos longer than MAX_STRING
    InitReputations,
    UnitCounts,    \* units a settlement counts, or rewards
    Earnings       \* amounts a settlement pays the provider

ASSUME RegistryAssumption ==
    /\ FeeRates \subseteq Nat
    /\ Windows \subseteq Int
    /\ Capacities \subseteq U64
    /\ InitReputations \subseteq U32
    /\ LongGeos \subseteq Geos
    /\ UnitCounts \subseteq U64
    /\ Earnings \subseteq U64
    /\ None \notin FeeRates /\ None \notin Windows
    /\ None \notin Capacities /\ None \notin Geos /\ None \notin BOOLEAN

VARIABLES
    config,        \* the Config account, or Null
    node,          \* the Node account of each asset, or Null
    attributes     \* the Attributes plugin of each asset, or Null

registryVars == <<config, node, attributes>>

Config == [authority: Authorities,
           fee_bps: 0..MAX_FEE_BPS,
           challenge_window_secs: Nat \ {0},
           paused: BOOLEAN]

Node == [provider: Providers,
         capacity: U64 \ {0},
         geo: Geos \ LongGeos,
         reputation: U32,
         total_units: U64,
         total_sessions: U64,
         total_settled: U64,
         active: BOOLEAN]

Attributes == [capacity: U64, geo: Geos, reputation: U32, total_units: U64]

ASSUME NullAssumption == Null \notin Config \cup Node \cup Attributes

RegistryTypeOK ==
    /\ config \in Config \cup {Null}
    /\ node \in [Nodes -> Node \cup {Null}]
    /\ attributes \in [Nodes -> Attributes \cup {Null}]

RegistryInit ==
    /\ config = Null
    /\ node = [n \in Nodes |-> Null]
    /\ attributes = [n \in Nodes |-> Null]

Registered(n) == node[n] # Null

-----------------------------------------------------------------------------
(***************************************************************************)
(* Admin handlers.                                                         *)
(***************************************************************************)

\* The bound a fee of 100% passes.
FeeAllowed_Wrong(fee) == fee <= BPS_DENOMINATOR

\* FEE_TOO_HIGH and BAD_DURATION: what both config handlers require.
FeeAllowed(fee) == fee <= MAX_FEE_BPS
WindowAllowed(window) == window > 0

\* Whoever creates the singleton becomes its authority.
InitializeConfig(signer, fee, window) ==
    /\ config = Null
    /\ FeeAllowed(fee)
    /\ WindowAllowed(window)
    /\ config' = [authority |-> signer, fee_bps |-> fee,
                  challenge_window_secs |-> window, paused |-> FALSE]
    /\ UNCHANGED <<node, attributes>>

Authorized(signer) == config # Null /\ signer = config.authority

\* Both arguments are Options: None leaves the field alone.
UpdateConfig(signer, fee, window) ==
    /\ Authorized(signer)
    /\ fee # None => FeeAllowed(fee)
    /\ window # None => WindowAllowed(window)
    /\ config' = [config EXCEPT
          !.fee_bps = IF fee = None THEN @ ELSE fee,
          !.challenge_window_secs = IF window = None THEN @ ELSE window]
    /\ UNCHANGED <<node, attributes>>

SetPaused(signer, paused) ==
    /\ Authorized(signer)
    /\ config' = [config EXCEPT !.paused = paused]
    /\ UNCHANGED <<node, attributes>>

-----------------------------------------------------------------------------
(***************************************************************************)
(* Node handlers.  The asset is a fresh keypair, so a node is registered   *)
(* once; name and uri only have a length bound and are left out.           *)
(***************************************************************************)

\* create_node_asset: the asset starts with its four attributes.
CreateNodeAsset(n, capacity, geo, initReputation) ==
    attributes' = [attributes EXCEPT ![n] =
        [capacity |-> capacity, geo |-> geo,
         reputation |-> initReputation, total_units |-> 0]]

RegisterNode(n, signer, capacity, geo, initReputation) ==
    /\ config # Null /\ ~config.paused
    /\ ~Registered(n)
    /\ geo \notin LongGeos
    /\ capacity > 0
    /\ CreateNodeAsset(n, capacity, geo, initReputation)
    /\ node' = [node EXCEPT ![n] =
          [provider |-> signer, capacity |-> capacity, geo |-> geo,
           reputation |-> initReputation, total_units |-> 0,
           total_sessions |-> 0, total_settled |-> 0, active |-> TRUE]]
    /\ UNCHANGED config

\* The edited Node account: each Option that is None keeps its field.
EditedNode(n, capacity, geo, active) ==
    [node[n] EXCEPT !.capacity = IF capacity = None THEN @ ELSE capacity,
                    !.geo = IF geo = None THEN @ ELSE geo,
                    !.active = IF active = None THEN @ ELSE active]

\* The plugin is written from the account as it was before the edit.
SetReputation_Wrong(n, nd) ==
    attributes' = [attributes EXCEPT ![n] =
        [capacity |-> node[n].capacity, geo |-> node[n].geo,
         reputation |-> node[n].reputation, total_units |-> node[n].total_units]]

\* set_reputation: the Attributes plugin is overwritten from the Node account.
SetReputation(n, nd) ==
    attributes' = [attributes EXCEPT ![n] =
        [capacity |-> nd.capacity, geo |-> nd.geo,
         reputation |-> nd.reputation, total_units |-> nd.total_units]]

UpdateNodeMeta(n, signer, capacity, geo, active) ==
    /\ config # Null
    /\ Registered(n) /\ signer = node[n].provider
    /\ capacity # None => capacity > 0
    /\ geo \notin LongGeos
    /\ node' = [node EXCEPT ![n] = EditedNode(n, capacity, geo, active)]
    /\ SetReputation(n, node'[n])
    /\ UNCHANGED config

\* The last payment overwrites the sum of the earlier ones.
CreditNode_Wrong(n, newUnits, earningUnits, amount) ==
    /\ Registered(n)
    /\ node[n].total_units + newUnits <= MAX_U64
    /\ node' = [node EXCEPT
          ![n].reputation = SaturatingAddU32(@, ReputationReward(earningUnits)),
          ![n].total_units = @ + newUnits,
          ![n].total_settled = amount]
    /\ UNCHANGED <<config, attributes>>

\* The checked additions of a payment to the counters of a node.
CanCredit(n, newUnits, amount) ==
    /\ Registered(n)
    /\ node[n].total_units + newUnits <= MAX_U64
    /\ node[n].total_settled + amount <= MAX_U64

(***************************************************************************)
(* What settle, checkpoint and finalize do to the Node account: the units  *)
(* not yet counted, the reward for the units that earn it, and the amount  *)
(* paid.  The additions are checked, the reputation saturates.  The Core   *)
(* asset is not touched (its update is commented out in the handlers).     *)
(***************************************************************************)
CreditNode(n, newUnits, earningUnits, amount) ==
    /\ CanCredit(n, newUnits, amount)
    /\ node' = [node EXCEPT
          ![n].reputation = SaturatingAddU32(@, ReputationReward(earningUnits)),
          ![n].total_units = @ + newUnits,
          ![n].total_settled = @ + amount]
    /\ UNCHANGED <<config, attributes>>

-----------------------------------------------------------------------------
\* The instructions of the registry itself.
RegistryHandler ==
    \/ \E signer \in Authorities :
          \/ \E fee \in FeeRates, window \in Windows :
                InitializeConfig(signer, fee, window)
          \/ \E fee \in FeeRates \cup {None}, window \in Windows \cup {None} :
                UpdateConfig(signer, fee, window)
          \/ \E paused \in BOOLEAN : SetPaused(signer, paused)
    \/ \E n \in Nodes, signer \in Providers :
          \/ \E capacity \in Capacities, geo \in Geos, rep \in InitReputations :
                RegisterNode(n, signer, capacity, geo, rep)
          \/ \E capacity \in Capacities \cup {None}, geo \in Geos \cup {None},
                active \in BOOLEAN \cup {None} :
                UpdateNodeMeta(n, signer, capacity, geo, active)

RegistryNext ==
    \/ RegistryHandler
    \/ \E n \in Nodes, newUnits, earningUnits \in UnitCounts, amount \in Earnings :
          CreditNode(n, newUnits, earningUnits, amount)

RegistrySpec == RegistryInit /\ [][RegistryNext]_registryVars

-----------------------------------------------------------------------------
(***************************************************************************)
(* Properties.                                                             *)
(***************************************************************************)

\* The NFT's Attributes plugin never claims more than the Node account has
\* earned, and its capacity and geo are the Node's: update_node_meta rewrites
\* all four attributes from the account, and settlements only raise the account.
NftNeverAhead ==
    \A n \in Nodes :
        IF Registered(n)
        THEN /\ attributes[n] # Null
             /\ attributes[n].capacity = node[n].capacity
             /\ attributes[n].geo = node[n].geo
             /\ attributes[n].reputation <= node[n].reputation
             /\ attributes[n].total_units <= node[n].total_units
        ELSE attributes[n] = Null

\* A node's track record survives everything its provider, the authority and
\* the settlements do: no handler lowers reputation, total_units or
\* total_settled, hands the node to another provider or forgets it.
TrackRecordKept ==
    [][\A n \in Nodes : Registered(n) =>
          /\ node'[n] # Null
          /\ node'[n].provider = node[n].provider
          /\ node'[n].reputation >= node[n].reputation
          /\ node'[n].total_units >= node[n].total_units
          /\ node'[n].total_settled >= node[n].total_settled]_registryVars
=============================================================================
