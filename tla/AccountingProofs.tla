-------------------------- MODULE AccountingProofs --------------------------
(***************************************************************************)
(* The books of the settlement program balance, for every instance: no     *)
(* number of sessions, checkpoints, disputes, refunds and withdrawals      *)
(* makes money out of nothing, pays a unit twice, forgets a refund or      *)
(* rewards a state twice.                                                  *)
(*                                                                         *)
(* The books are sums, so the first part shows what a sum over a finite    *)
(* set is: it may be taken in any order, and it changes by what one entry  *)
(* changes.  Induction over finite sets is had without an induction        *)
(* theorem, by looking at a minimal set among those that fail.             *)
(***************************************************************************)
EXTENDS EscrowAccounting, EscrowProofs, FiniteSetTheorems, WellFoundedInduction

-----------------------------------------------------------------------------
(***************************************************************************)
(* Sums over finite sets.                                                  *)
(***************************************************************************)

\* A nonempty set of finite sets has a minimal member.
LEMMA MinimalSet ==
    ASSUME NEW S, NEW T \in SUBSET FiniteSubsetsOf(S), T # {}
    PROVE  \E U \in T : \A V \in SUBSET U : V # U => V \notin T
  <1>1. PICK U \in T : \A V \in T : ~ (<<V, U>> \in StrictSubsetOrdering(S))
    BY FS_StrictSubsetOrderingWellFounded, WFMin
  <1> QED
    BY <1>1 DEF StrictSubsetOrdering, FiniteSubsetsOf

\* The order in which a fold of the Functions module takes the elements.
Pick(s) == CHOOSE x \in s : TRUE

IsSum(g, f, S) ==
    g = [s \in SUBSET S |-> IF s = {} THEN 0 ELSE f[Pick(s)] + g[s \ {Pick(s)}]]

\* The function that a sum over S evaluates at S.
TheSum(f, S) == CHOOSE g : IsSum(g, f, S)

\* The definition of the library, unfolded.
LEMMA SumUnfolds ==
    ASSUME NEW f, NEW S
    PROVE  SumFunctionOnSet(f, S) = TheSum(f, S)[S]
  BY DEF SumFunctionOnSet, FoldFunctionOnSet, MapThenFoldSet, IsSum, TheSum, Pick

\* One step of the recursion.
LEMMA SumValue ==
    ASSUME NEW f, NEW S, NEW g, IsSum(g, f, S), NEW s \in SUBSET S
    PROVE  g[s] = IF s = {} THEN 0 ELSE f[Pick(s)] + g[s \ {Pick(s)}]
  BY DEF IsSum

\* Two such functions agree wherever both are defined.
LEMMA SumUnique ==
    ASSUME NEW f, NEW S, NEW T, NEW g, NEW h, IsSum(g, f, S), IsSum(h, f, T),
           NEW U \in SUBSET (S \cap T), IsFiniteSet(U)
    PROVE  g[U] = h[U]
  <1> DEFINE Bad == {s \in FiniteSubsetsOf(U) : g[s] # h[s]}
  <1>1. SUFFICES Bad = {}
    BY FS_Subset DEF FiniteSubsetsOf
  <1>2. SUFFICES ASSUME Bad # {} PROVE FALSE
    OBVIOUS
  <1>3. PICK s \in Bad : \A t \in SUBSET s : t # s => t \notin Bad
    BY <1>2, MinimalSet
  <1>4. /\ s \in SUBSET S /\ s \in SUBSET T /\ s \in SUBSET U /\ IsFiniteSet(s)
        /\ g[s] # h[s]
    BY <1>3 DEF FiniteSubsetsOf
  <1>5. /\ g[s] = IF s = {} THEN 0 ELSE f[Pick(s)] + g[s \ {Pick(s)}]
        /\ h[s] = IF s = {} THEN 0 ELSE f[Pick(s)] + h[s \ {Pick(s)}]
    BY <1>4, SumValue
  <1>6. s # {}
    BY <1>4, <1>5
  <1>7. Pick(s) \in s
    BY <1>6 DEF Pick
  <1> DEFINE rest == s \ {Pick(s)}
  <1>8. rest \in FiniteSubsetsOf(U) /\ rest \notin Bad
    <2>1. rest \in SUBSET s /\ rest # s /\ IsFiniteSet(rest)
      BY <1>4, <1>7, FS_Subset
    <2> QED
      BY <1>3, <1>4, <2>1 DEF FiniteSubsetsOf
  <1> QED
    BY <1>4, <1>5, <1>6, <1>8

\* There is such a function for every finite set.
LEMMA SumExists ==
    ASSUME NEW f, NEW S, IsFiniteSet(S)
    PROVE  IsSum(TheSum(f, S), f, S)
  <1> DEFINE Bad == {U \in FiniteSubsetsOf(S) : ~ \E g : IsSum(g, f, U)}
  <1>1. SUFFICES Bad = {}
    BY DEF FiniteSubsetsOf, TheSum
  <1>2. SUFFICES ASSUME Bad # {} PROVE FALSE
    OBVIOUS
  <1>3. PICK U \in Bad : \A V \in SUBSET U : V # U => V \notin Bad
    BY <1>2, MinimalSet
  <1>4. U \in SUBSET S /\ IsFiniteSet(U)
    BY <1>3 DEF FiniteSubsetsOf
  <1>5. ASSUME NEW t \in SUBSET U, t # U
        PROVE  IsFiniteSet(t) /\ IsSum(TheSum(f, t), f, t)
    <2>1. IsFiniteSet(t) /\ t \in FiniteSubsetsOf(S)
      BY <1>4, FS_Subset DEF FiniteSubsetsOf
    <2> QED
      BY <1>3, <1>5, <2>1 DEF TheSum
  <1> DEFINE val(s) == TheSum(f, s)[s]
             h == [s \in SUBSET U |->
                      IF s = {} THEN 0 ELSE f[Pick(s)] + val(s \ {Pick(s)})]
  <1>6. ASSUME NEW t \in SUBSET U, t # U
        PROVE  val(t) = h[t]
    <2>1. val(t) = IF t = {} THEN 0 ELSE f[Pick(t)] + TheSum(f, t)[t \ {Pick(t)}]
      <3> DEFINE g == TheSum(f, t)
      <3>1. IsSum(g, f, t) /\ t \in SUBSET t
        BY <1>5, <1>6
      <3> HIDE DEF g
      <3>2. g[t] = IF t = {} THEN 0 ELSE f[Pick(t)] + g[t \ {Pick(t)}]
        BY <3>1, SumValue
      <3> QED
        BY <3>2 DEF g
    <2>2. CASE t = {}
      BY <2>1, <2>2
    <2>3. CASE t # {}
      <3> DEFINE r == t \ {Pick(t)}
      <3>1. Pick(t) \in t
        BY <2>3 DEF Pick
      <3>2. r \in SUBSET U /\ r # U /\ r \in SUBSET t
        BY <1>6, <3>1
      <3>3. TheSum(f, t)[r] = TheSum(f, r)[r]
        <4>1. IsFiniteSet(r) /\ IsSum(TheSum(f, r), f, r) /\ IsSum(TheSum(f, t), f, t)
          BY <1>5, <1>6, <3>2
        <4>2. r \in SUBSET (t \cap r)
          OBVIOUS
        <4> HIDE DEF r
        <4> QED
          BY <4>1, <4>2, SumUnique
      <3> QED
        BY <2>1, <2>3, <3>3
    <2> QED BY <2>2, <2>3
  <1>7. IsSum(h, f, U)
    <2>1. ASSUME NEW s \in SUBSET U, s # {}
          PROVE  val(s \ {Pick(s)}) = h[s \ {Pick(s)}]
      <3>1. Pick(s) \in s
        BY <2>1 DEF Pick
      <3>2. s \ {Pick(s)} \in SUBSET U /\ s \ {Pick(s)} # U
        BY <3>1
      <3> HIDE DEF val, h
      <3> QED
        BY <1>6, <3>2
    <2>2. h = [s \in SUBSET U |-> IF s = {} THEN 0 ELSE f[Pick(s)] + h[s \ {Pick(s)}]]
      <3> HIDE DEF val
      <3>1. \A s \in SUBSET U : h[s] = IF s = {} THEN 0 ELSE f[Pick(s)] + h[s \ {Pick(s)}]
        <4>1. \A s \in SUBSET U : h[s] = IF s = {} THEN 0 ELSE f[Pick(s)] + val(s \ {Pick(s)})
          OBVIOUS
        <4> HIDE DEF h
        <4> QED BY <2>1, <4>1
      <3> DEFINE k == [s \in SUBSET U |-> IF s = {} THEN 0 ELSE f[Pick(s)] + h[s \ {Pick(s)}]]
      <3>2. \A s \in SUBSET U : k[s] = h[s]
        <4> HIDE DEF h
        <4> QED BY <3>1
      <3>3. h = [s \in SUBSET U |-> h[s]] /\ k = [s \in SUBSET U |-> k[s]]
        OBVIOUS
      <3> HIDE DEF h, k
      <3>4. h = k
        BY <3>2, <3>3
      <3> QED BY <3>4 DEF k
    <2> QED
      BY <2>2 DEF IsSum
  <1> QED
    BY <1>3, <1>7

\* The empty sum.
LEMMA SumEmpty ==
    ASSUME NEW f
    PROVE  SumFunctionOnSet(f, {}) = 0
  <1>1. IsSum(TheSum(f, {}), f, {})
    BY SumExists, FS_EmptySet
  <1> QED
    BY <1>1, SumValue, SumUnfolds

\* The element that the fold takes first.
LEMMA SumPicked ==
    ASSUME NEW f, NEW S, IsFiniteSet(S), S # {}
    PROVE  /\ Pick(S) \in S
           /\ SumFunctionOnSet(f, S) = f[Pick(S)] + SumFunctionOnSet(f, S \ {Pick(S)})
  <1> DEFINE r == S \ {Pick(S)}
  <1>1. Pick(S) \in S
    BY DEF Pick
  <1>2. IsFiniteSet(r)
    BY FS_Subset
  <1>3. IsSum(TheSum(f, S), f, S) /\ IsSum(TheSum(f, r), f, r)
    BY <1>2, SumExists
  <1>4. TheSum(f, S)[S] = f[Pick(S)] + TheSum(f, S)[r]
    BY <1>3, SumValue
  <1>5. TheSum(f, S)[r] = TheSum(f, r)[r]
    <2>1. r \in SUBSET (S \cap r)
      OBVIOUS
    <2> HIDE DEF r
    <2> QED BY <1>2, <1>3, <2>1, SumUnique
  <1> QED
    BY <1>1, <1>4, <1>5, SumUnfolds

\* Any element can be taken out of a sum first.
LEMMA SumSplits ==
    ASSUME NEW f, NEW S, IsFiniteSet(S), \A x \in S : f[x] \in Int
    PROVE  /\ SumFunctionOnSet(f, S) \in Int
           /\ \A x \in S : SumFunctionOnSet(f, S) = f[x] + SumFunctionOnSet(f, S \ {x})
  <1> DEFINE Sum(U) == SumFunctionOnSet(f, U)
             Splits(U) == Sum(U) \in Int /\ \A x \in U : Sum(U) = f[x] + Sum(U \ {x})
             Bad == {U \in FiniteSubsetsOf(S) : ~ Splits(U)}
  <1>1. SUFFICES Bad = {}
    BY DEF FiniteSubsetsOf
  <1>2. SUFFICES ASSUME Bad # {} PROVE FALSE
    OBVIOUS
  <1>3. PICK U \in Bad : \A V \in SUBSET U : V # U => V \notin Bad
    <2> HIDE DEF Splits
    <2> QED BY <1>2, MinimalSet
  <1>4. U \in SUBSET S /\ IsFiniteSet(U) /\ ~ Splits(U)
    BY <1>3 DEF FiniteSubsetsOf
  <1>5. ASSUME NEW x \in U
        PROVE  Splits(U \ {x})
    <2>1. U \ {x} \in SUBSET U /\ U \ {x} # U /\ U \ {x} \in FiniteSubsetsOf(S)
      BY <1>4, FS_Subset DEF FiniteSubsetsOf
    <2> HIDE DEF Splits
    <2> QED BY <1>3, <2>1
  <1>6. U # {}
    BY <1>4, SumEmpty
  <1> DEFINE y == Pick(U)
  <1>7. y \in U /\ Sum(U) = f[y] + Sum(U \ {y})
    BY <1>4, <1>6, SumPicked
  <1> HIDE DEF Sum, y
  <1>8. Sum(U) \in Int
    BY <1>4, <1>5, <1>7
  <1>9. ASSUME NEW x \in U, x # y
        PROVE  Sum(U) = f[x] + Sum(U \ {x})
    <2>1. Sum(U \ {y}) = f[x] + Sum((U \ {y}) \ {x})
      BY <1>5, <1>7, <1>9
    <2>2. Sum(U \ {x}) = f[y] + Sum((U \ {x}) \ {y})
      BY <1>5, <1>7, <1>9
    <2>3. (U \ {y}) \ {x} = (U \ {x}) \ {y}
      OBVIOUS
    <2>4. /\ f[x] \in Int /\ f[y] \in Int
          /\ Sum(U \ {x}) \in Int /\ Sum(U \ {y}) \in Int
      BY <1>4, <1>5, <1>7
    <2>5. Sum((U \ {x}) \ {y}) \in Int
      <3>1. Splits(U \ {x}) /\ Splits((U \ {x}) \ {y})
        <4>1. (U \ {x}) \ {y} \in SUBSET U /\ (U \ {x}) \ {y} # U
              /\ (U \ {x}) \ {y} \in FiniteSubsetsOf(S)
          BY <1>4, FS_Subset DEF FiniteSubsetsOf
        <4> HIDE DEF Splits
        <4> QED BY <1>3, <1>5, <4>1
      <3> QED BY <3>1
    <2> DEFINE q == Sum((U \ {x}) \ {y})
    <2>6. Sum(U \ {y}) = f[x] + q /\ Sum(U \ {x}) = f[y] + q /\ q \in Int
      BY <2>1, <2>2, <2>3, <2>5
    <2> HIDE DEF q
    <2> QED BY <1>7, <2>4, <2>6
  <1> QED
    BY <1>4, <1>7, <1>8, <1>9

\* Functions that agree have the same sum.
LEMMA SumAgrees ==
    ASSUME NEW f, NEW g, NEW S, IsFiniteSet(S), \A x \in S : f[x] = g[x]
    PROVE  SumFunctionOnSet(f, S) = SumFunctionOnSet(g, S)
  <1> DEFINE Bad == {U \in FiniteSubsetsOf(S) :
                        SumFunctionOnSet(f, U) # SumFunctionOnSet(g, U)}
  <1>1. SUFFICES Bad = {}
    BY DEF FiniteSubsetsOf
  <1>2. SUFFICES ASSUME Bad # {} PROVE FALSE
    OBVIOUS
  <1>3. PICK U \in Bad : \A V \in SUBSET U : V # U => V \notin Bad
    BY <1>2, MinimalSet
  <1>4. /\ U \in SUBSET S /\ IsFiniteSet(U)
        /\ SumFunctionOnSet(f, U) # SumFunctionOnSet(g, U)
    BY <1>3 DEF FiniteSubsetsOf
  <1>5. U # {}
    BY <1>4, SumEmpty
  <1>6. /\ Pick(U) \in U
        /\ SumFunctionOnSet(f, U) = f[Pick(U)] + SumFunctionOnSet(f, U \ {Pick(U)})
        /\ SumFunctionOnSet(g, U) = g[Pick(U)] + SumFunctionOnSet(g, U \ {Pick(U)})
    BY <1>4, <1>5, SumPicked
  <1>7. U \ {Pick(U)} \in FiniteSubsetsOf(S) /\ U \ {Pick(U)} \notin Bad
    <2>1. U \ {Pick(U)} \in SUBSET U /\ U \ {Pick(U)} # U
          /\ U \ {Pick(U)} \in FiniteSubsetsOf(S)
      BY <1>4, <1>6, FS_Subset DEF FiniteSubsetsOf
    <2> QED BY <1>3, <2>1
  <1> QED
    BY <1>4, <1>6, <1>7

\* A function that is c on T and 0 elsewhere.
LEMMA SumOfIndicator ==
    ASSUME NEW S, NEW T, NEW c \in Int, NEW f \in [S -> Int], IsFiniteSet(S),
           \A x \in S \cap T : f[x] = c,
           \A x \in S \ T : f[x] = 0
    PROVE  SumFunctionOnSet(f, S) = c * Cardinality(S \cap T)
  <1> DEFINE Bad == {U \in FiniteSubsetsOf(S) :
                        SumFunctionOnSet(f, U) # c * Cardinality(U \cap T)}
  <1>1. SUFFICES Bad = {}
    BY DEF FiniteSubsetsOf
  <1>2. SUFFICES ASSUME Bad # {} PROVE FALSE
    OBVIOUS
  <1>3. PICK U \in Bad : \A V \in SUBSET U : V # U => V \notin Bad
    BY <1>2, MinimalSet
  <1>4. /\ U \in SUBSET S /\ IsFiniteSet(U)
        /\ SumFunctionOnSet(f, U) # c * Cardinality(U \cap T)
    BY <1>3 DEF FiniteSubsetsOf
  <1>5. U # {}
    <2> SUFFICES ASSUME U = {} PROVE FALSE
      OBVIOUS
    <2>1. U \cap T = {} /\ Cardinality({}) = 0
      BY FS_EmptySet
    <2> QED
      BY <1>4, <2>1, SumEmpty
  <1> DEFINE y == Pick(U)
             r == U \ {y}
  <1>6. y \in U /\ SumFunctionOnSet(f, U) = f[y] + SumFunctionOnSet(f, r)
    BY <1>4, <1>5, SumPicked
  <1> HIDE DEF y
  <1>7. SumFunctionOnSet(f, r) = c * Cardinality(r \cap T) /\ IsFiniteSet(r)
    <2>1. r \in SUBSET U /\ r # U /\ r \in FiniteSubsetsOf(S) /\ IsFiniteSet(r)
      BY <1>4, <1>6, FS_Subset DEF FiniteSubsetsOf
    <2> QED BY <1>3, <2>1
  <1>8. IsFiniteSet(r \cap T) /\ Cardinality(r \cap T) \in Nat
    BY <1>7, FS_Subset, FS_CardinalityType
  <1>9. CASE y \in T
    <2>1. U \cap T = (r \cap T) \cup {y} /\ y \notin r \cap T
      BY <1>6, <1>9
    <2>2. Cardinality(U \cap T) = Cardinality(r \cap T) + 1
      BY <1>8, <2>1, FS_AddElement
    <2>3. f[y] = c
      BY <1>4, <1>6, <1>9
    <2>4. c * (Cardinality(r \cap T) + 1) = c + c * Cardinality(r \cap T)
      BY <1>8, SMT
    <2> QED
      BY <1>4, <1>6, <1>7, <2>2, <2>3, <2>4
  <1>10. CASE y \notin T
    <2>1. U \cap T = r \cap T
      BY <1>10
    <2>2. f[y] = 0
      BY <1>4, <1>6, <1>10
    <2> DEFINE q == c * Cardinality(r \cap T)
    <2>3. q \in Int
      BY <1>8, SMT
    <2>4. SumFunctionOnSet(f, U) = 0 + q /\ SumFunctionOnSet(f, U) # q
      BY <1>4, <1>6, <1>7, <2>1, <2>2, Zenon
    <2> HIDE DEF q
    <2> QED
      BY <2>3, <2>4
  <1> QED BY <1>9, <1>10

\* Changing one entry changes the sum by as much.
LEMMA SumChanges ==
    ASSUME NEW f, NEW g, NEW S, IsFiniteSet(S), NEW y \in S,
           \A x \in S : f[x] \in Int /\ g[x] \in Int,
           \A x \in S \ {y} : g[x] = f[x]
    PROVE  /\ SumFunctionOnSet(f, S) \in Int /\ SumFunctionOnSet(g, S) \in Int
           /\ SumFunctionOnSet(g, S) = SumFunctionOnSet(f, S) + (g[y] - f[y])
  <1> DEFINE r == S \ {y}
  <1>1. IsFiniteSet(r)
    BY FS_Subset
  <1>2. /\ SumFunctionOnSet(f, S) \in Int /\ SumFunctionOnSet(g, S) \in Int
        /\ SumFunctionOnSet(f, S) = f[y] + SumFunctionOnSet(f, r)
        /\ SumFunctionOnSet(g, S) = g[y] + SumFunctionOnSet(g, r)
    BY SumSplits
  <1>3. SumFunctionOnSet(f, r) = SumFunctionOnSet(g, r)
    BY <1>1, SumAgrees
  <1>4. SumFunctionOnSet(f, r) \in Int
    BY <1>1, SumSplits
  <1> QED
    BY <1>2, <1>3, <1>4

\* The same two facts of functions and their domains.
LEMMA SumTyped ==
    ASSUME NEW S, IsFiniteSet(S), NEW f \in [S -> Int]
    PROVE  SumFunction(f) \in Int
  <1>1. SumFunction(f) = SumFunctionOnSet(f, S) /\ \A x \in S : f[x] \in Int
    BY DEF SumFunction
  <1> QED
    BY <1>1, SumSplits

LEMMA OneEntry ==
    ASSUME NEW S, IsFiniteSet(S), NEW f \in [S -> Int], NEW g \in [S -> Int],
           NEW y \in S, \A x \in S \ {y} : g[x] = f[x]
    PROVE  SumFunction(g) = SumFunction(f) + (g[y] - f[y])
  <1>1. /\ SumFunction(f) = SumFunctionOnSet(f, S) /\ SumFunction(g) = SumFunctionOnSet(g, S)
        /\ \A x \in S : f[x] \in Int /\ g[x] \in Int
    BY DEF SumFunction
  <1> QED
    BY <1>1, SumChanges

\* Entries that are all 0.
LEMMA ZeroEntries ==
    ASSUME NEW S, IsFiniteSet(S), NEW f \in [S -> Int], \A x \in S : f[x] = 0
    PROVE  SumFunctionOnSet(f, S) = 0
  <1> DEFINE none == {}
             zero == 0
  <1>1. zero \in Int /\ (\A x \in S \cap none : f[x] = zero) /\ (\A x \in S \ none : f[x] = 0)
    OBVIOUS
  <1>2. S \cap none = {} /\ zero = 0
    OBVIOUS
  <1> HIDE DEF none, zero
  <1> DEFINE k == Cardinality(S \cap none)
  <1>3. SumFunctionOnSet(f, S) = zero * k
    BY <1>1, SumOfIndicator
  <1>4. k = 0
    BY <1>2, FS_EmptySet
  <1> HIDE DEF k
  <1> QED
    BY <1>2, <1>3, <1>4

\* A function that is 0 everywhere.
LEMMA SumOfZeros ==
    ASSUME NEW S, IsFiniteSet(S), NEW f, f = [x \in S |-> 0]
    PROVE  SumFunction(f) = 0
  <1>1. /\ SumFunction(f) = SumFunctionOnSet(f, S)
        /\ f \in [S -> Int] /\ \A x \in S : f[x] = 0
    BY DEF SumFunction
  <1> QED
    BY <1>1, ZeroEntries

-----------------------------------------------------------------------------
(***************************************************************************)
(* What the books are summed over.                                         *)
(***************************************************************************)

LEMMA FiniteBooks ==
    /\ IsFiniteSet(Sessions) /\ IsFiniteSet(Assets) /\ IsFiniteSet(Accounts)
    /\ IsFiniteSet(Providers) /\ IsFiniteSet(Providers \cup Consumers)
  <1> DEFINE Triples == (Nodes \X Consumers) \X Seeds
             key == [s \in Sessions |-> <<<<s.node, s.consumer>>, s.seed>>]
  <1>1. IsFiniteSet(Nodes \X Consumers)
    BY FiniteAssumption, FS_Product
  <1>2. IsFiniteSet(Triples)
    BY <1>1, FiniteAssumption, FS_Product
  <1>3. key \in Injection(Sessions, Triples)
    <2>1. key \in [Sessions -> Triples]
      BY DEF Sessions
    <2>2. \A s, t \in Sessions : key[s] = key[t] => s = t
      BY DEF Sessions
    <2> QED
      BY <2>1, <2>2 DEF Injection, IsInjective
  <1>4. IsFiniteSet(Sessions)
    BY <1>2, <1>3, FS_Injection
  <1>5. IsFiniteSet(Assets)
    BY FiniteAssumption, FS_AddElement DEF Assets
  <1>6. IsFiniteSet(Providers \cup Consumers)
    BY FiniteAssumption, FS_Union
  <1>7. IsFiniteSet(Wallets)
    BY <1>6, FS_AddElement DEF Wallets
  <1>8. IsFiniteSet(Accounts)
    <2>1. IsFiniteSet(Sessions \cup Wallets)
      BY <1>4, <1>7, FS_Union
    <2>2. IsFiniteSet({FeeVault, Outsider})
      <3>1. IsFiniteSet({FeeVault}) /\ {FeeVault, Outsider} = {FeeVault} \cup {Outsider}
        BY FS_Singleton
      <3> QED
        BY <3>1, FS_AddElement
    <2> QED
      BY <2>1, <2>2, FS_Union DEF Accounts
  <1> QED
    BY <1>4, <1>5, <1>6, <1>8, FiniteAssumption

\* The accounts of the books are different accounts.
LEMMA Roles ==
    /\ \A p \in Providers : p \in Accounts /\ p \notin Consumers /\ p # FeeVault /\ p # Treasury
                            /\ p # Outsider
    /\ \A c \in Consumers : c \in Accounts /\ c # FeeVault /\ c # Treasury /\ c # Outsider
    /\ \A s \in Sessions : s \in Accounts /\ s \notin Wallets /\ s # FeeVault /\ s.consumer \in Consumers
                           /\ s.node \in Nodes /\ s # Outsider
    /\ Outsider \in Accounts /\ Outsider # FeeVault /\ Outsider # Treasury
    /\ FeeVault # Treasury /\ Treasury \in Wallets /\ Providers \subseteq Wallets /\ Consumers \subseteq Wallets
    /\ FeeVault \in Accounts /\ Treasury \in Accounts /\ SOL \in Assets /\ Mints \subseteq Assets
  BY EscrowAssumption, RolesAssumption DEF Accounts, Wallets, Sessions, Assets

\* The entries of the books are integers.
BooksTyped ==
    /\ \A a \in Assets : ledger[a] \in [Accounts -> Int]
    /\ \A a \in Assets, acc \in Accounts : ledger[a][acc] \in Nat
    /\ \A a \in Assets : GainsIn(a) \in [Providers -> Int]
    /\ \A p \in Providers : GainsOf(p) \in [Assets -> Int]
    /\ \A a \in Assets : SettledIn(a) \in [Sessions -> Int]
    /\ \A c \in Consumers, a \in Assets :
          OutlaysOf(c, a) \in [Sessions -> Int] /\ RentsOf(c, a) \in [Sessions -> Int]
    /\ \A p \in Providers : ShownBy(p) \in [Nodes -> Int]
    /\ \A n \in Nodes : UnitsAt(n) \in [Sessions -> Int]

LEMMA BookTypes == TypeOK => BooksTyped
  <1> SUFFICES ASSUME TypeOK PROVE BooksTyped
    OBVIOUS
  <1>1. /\ \A a \in Assets : ledger[a] \in [Accounts -> Int]
        /\ \A a \in Assets, acc \in Accounts : ledger[a][acc] \in Nat
    BY DEF TypeOK
  <1>2. \A a \in Assets, p \in Providers : Gained(a, p) \in Int
    BY <1>1, Roles, EscrowAssumption DEF Gained
  <1>3. \A s \in Sessions : Exists(s) =>
            /\ session[s].deposited \in Int /\ session[s].settled_to_provider \in Int
            /\ session[s].pending_units \in Int
    BY SessionFields
  <1>4. \A s \in Sessions : Exists(s) => \A a : Outlay(a, s) \in Int
    BY <1>3, EscrowAssumption DEF Outlay
  <1>5. \A n \in Nodes : Registered(n) => node[n].total_settled \in Int
    BY MathAssumption DEF TypeOK, RegistryTypeOK, Registered, Node, U64
  <1>6. \A a \in Assets : GainsIn(a) \in [Providers -> Int]
    BY <1>2 DEF GainsIn
  <1>7. \A p \in Providers : GainsOf(p) \in [Assets -> Int]
    BY <1>2 DEF GainsOf
  <1>8. \A a \in Assets : SettledIn(a) \in [Sessions -> Int]
    BY <1>3 DEF SettledIn
  <1>9. \A c \in Consumers, a \in Assets :
            OutlaysOf(c, a) \in [Sessions -> Int] /\ RentsOf(c, a) \in [Sessions -> Int]
    BY <1>4, EscrowAssumption DEF OutlaysOf, RentsOf
  <1>10. \A p \in Providers : ShownBy(p) \in [Nodes -> Int]
    BY <1>5 DEF ShownBy
  <1>11. \A n \in Nodes : UnitsAt(n) \in [Sessions -> Int]
    BY <1>3 DEF UnitsAt
  <1> QED
    BY <1>1, <1>6, <1>7, <1>8, <1>9, <1>10, <1>11 DEF BooksTyped

LEMMA BookTypesNext == TypeOK' => BooksTyped'
  BY BookTypes, PTL

-----------------------------------------------------------------------------
(***************************************************************************)
(* What the steps do to the ledger, entry by entry and in total.           *)
(***************************************************************************)

\* A transfer neither makes nor loses money.
LEMMA TransferConserves ==
    ASSUME NEW l \in Ledgers, NEW a \in Assets, NEW from \in Accounts, NEW to \in Accounts,
           NEW x \in Int, NEW b \in Assets
    PROVE  /\ Moved(l, a, from, to, x) \in Ledgers
           /\ SumFunction(Moved(l, a, from, to, x)[b]) = SumFunction(l[b])
  <1> DEFINE m == Moved(l, a, from, to, x)
             k == [l[b] EXCEPT ![from] = @ - (IF b = a THEN x ELSE 0)]
  <1>1. m \in Ledgers /\ \A t \in Accounts : m[b][t] = Balance(l, a, from, to, x, b, t)
    BY MovedEffect
  <1> HIDE DEF m
  <1>2. l[b] \in [Accounts -> Int] /\ m[b] \in [Accounts -> Int]
    BY <1>1 DEF Ledgers
  <1>3. k \in [Accounts -> Int] /\ k[from] = l[b][from] - (IF b = a THEN x ELSE 0)
        /\ \A t \in Accounts \ {from} : k[t] = l[b][t]
    BY <1>2
  <1> HIDE DEF k
  <1>4. \A t \in Accounts : m[b][t] = k[t] + (IF b = a /\ t = to THEN x ELSE 0)
    BY <1>1, <1>2, <1>3 DEF Balance
  <1>5. \A t \in Accounts \ {to} : m[b][t] = k[t]
    BY <1>3, <1>4
  <1>6. SumFunction(k) = SumFunction(l[b]) + (k[from] - l[b][from])
    BY <1>2, <1>3, FiniteBooks, OneEntry
  <1>7. SumFunction(m[b]) = SumFunction(k) + (m[b][to] - k[to])
    BY <1>2, <1>3, <1>5, FiniteBooks, OneEntry
  <1>8. SumFunction(l[b]) \in Int /\ SumFunction(k) \in Int
    BY <1>2, <1>3, FiniteBooks, SumTyped
  <1>9. SumFunction(k) = SumFunction(l[b]) - (IF b = a THEN x ELSE 0)
    <2>1. k[from] \in Int /\ l[b][from] \in Int
      BY <1>2, <1>3
    <2> QED
      BY <1>3, <1>6, <1>8, <2>1
  <1>10. SumFunction(m[b]) = SumFunction(k) + (IF b = a THEN x ELSE 0)
    <2>1. k[to] \in Int /\ m[b][to] = k[to] + (IF b = a THEN x ELSE 0)
      BY <1>3, <1>4
    <2> QED
      BY <1>7, <1>8, <2>1
  <1> QED
    BY <1>1, <1>8, <1>9, <1>10 DEF m

LEMMA PayOutShares ==
    ASSUME TypeOK, NEW a \in Assets, NEW s \in Sessions, ProviderOf(s) \in Providers,
           NEW p \in Nat, NEW f \in Nat, NEW r \in Nat, PayOut(a, s, p, f, r)
    PROVE  /\ \A b \in Assets, t \in Accounts :
                 ledger'[b][t] = ledger[b][t] + (IF b = a THEN Share(s, p, f, r, t) ELSE 0)
           /\ \A b \in Assets : SumFunction(ledger'[b]) = SumFunction(ledger[b])
  <1> DEFINE pr == ProviderOf(s)
             c == s.consumer
             l1 == Moved(ledger, a, s, pr, p)
             l2 == Moved(l1, a, s, FeeVault, f)
             l3 == Moved(l2, a, s, c, r)
  <1>1. ledger \in Ledgers /\ \A b \in Assets, t \in Accounts : ledger[b][t] \in Int
    BY DEF TypeOK, Ledgers
  <1>2. /\ pr \in Accounts /\ FeeVault \in Accounts /\ c \in Accounts /\ s \in Accounts
        /\ p \in Int /\ f \in Int /\ r \in Int
    BY AccountSets
  <1>3. ledger' = l3
    BY DEF PayOut, CanPayOut, AfterPayOut
  <1> HIDE DEF pr, c
  <1>4. l1 \in Ledgers /\ \A b \in Assets, t \in Accounts : l1[b][t] = Balance(ledger, a, s, pr, p, b, t)
    <2>1. ASSUME NEW l \in Ledgers, NEW to \in Accounts
          PROVE  /\ Moved(l, a, s, to, p) \in Ledgers
                 /\ \A b \in Assets, t \in Accounts :
                       Moved(l, a, s, to, p)[b][t] = Balance(l, a, s, to, p, b, t)
      BY <1>2, MovedEffect
    <2> QED
      BY <1>1, <1>2, <2>1
  <1>5. \A b \in Assets : SumFunction(l1[b]) = SumFunction(ledger[b])
    BY <1>1, <1>2, TransferConserves
  <1> HIDE DEF l1
  <1>6. l2 \in Ledgers /\ \A b \in Assets, t \in Accounts : l2[b][t] = Balance(l1, a, s, FeeVault, f, b, t)
    BY <1>2, <1>4, MovedEffect
  <1>7. \A b \in Assets : SumFunction(l2[b]) = SumFunction(l1[b])
    BY <1>2, <1>4, TransferConserves
  <1> HIDE DEF l2
  <1>8. \A b \in Assets, t \in Accounts : l3[b][t] = Balance(l2, a, s, c, r, b, t)
    BY <1>2, <1>6, MovedEffect
  <1>9. \A b \in Assets : SumFunction(l3[b]) = SumFunction(l2[b])
    BY <1>2, <1>6, TransferConserves
  <1> HIDE DEF l3
  <1>10. \A b \in Assets, t \in Accounts :
             ledger'[b][t] = ledger[b][t] + (IF b = a THEN Share(s, p, f, r, t) ELSE 0)
    BY AfterPayOutShares DEF PayOut
  <1> QED
    BY <1>3, <1>5, <1>7, <1>9, <1>10

-----------------------------------------------------------------------------
(***************************************************************************)
(* The payouts, seen by the books.                                         *)
(***************************************************************************)

MaxReward == REP_BASE_REWARD + REP_MAX_BONUS

\* The node of s is credited with the amount p and some units, and is rewarded.
Credits(s, p, units, reward) ==
    \A n \in Nodes :
        /\ Registered(n)' <=> Registered(n)
        /\ Registered(n) =>
              /\ node'[n].provider = node[n].provider
              /\ node'[n].total_settled = node[n].total_settled + (IF n = s.node THEN p ELSE 0)
              /\ node'[n].total_units = node[n].total_units + (IF n = s.node THEN units ELSE 0)
              /\ node'[n].reputation <= node[n].reputation + (IF n = s.node THEN reward ELSE 0)

\* A reward is for an update that the session had not settled before.
Deserved(s, reward, record) ==
    \/ reward = 0
    \/ /\ reward = MaxReward
       /\ \E u \in cosigned :
             /\ u.session = s /\ u.nonce = record.last_nonce
             /\ HasStatus(s, "Closing") \/ u.nonce > session[s].last_nonce

\* The session s pays p to its provider, f to the fee vault and r to its consumer
\* and becomes record.
Pays(a, s, p, f, r, units, reward, record) ==
    LET old == session[s]
    IN  /\ Live(s) /\ PaysFrom(a, s) /\ PayOut(a, s, p, f, r) /\ Store(s, record)
        /\ p \in Nat /\ f \in Nat /\ r \in Nat /\ units \in Nat /\ reward \in Nat
        /\ record \in Session /\ record.mint = old.mint /\ record.deposited = old.deposited
        /\ record.settled_to_provider = old.settled_to_provider + (p + f)
        /\ f * BPS_DENOMINATOR <= MAX_FEE_BPS * (p + f)
        /\ record.status # "Closing"
        /\ p + f + r <= Unsettled(s)
        /\ IF record.status = "Open"
           THEN r = 0 /\ (a = SOL => old.mint = None)
           ELSE p + f + r = Unsettled(s)
        /\ record.pending_units <=
              units + (IF HasStatus(s, "Closing") THEN 0 ELSE old.pending_units)
        /\ record.last_nonce >= old.last_nonce
        /\ Credits(s, p, units, reward)
        /\ Deserved(s, reward, record)
        /\ UNCHANGED cosigned

LEMMA CreditNodeCredits ==
    ASSUME TypeOK, NEW s \in Sessions, NEW p \in Nat, NEW units \in Nat, NEW earning \in Nat,
           CreditNode(s.node, units, earning, p)
    PROVE  Credits(s, p, units, MaxReward)
  <1> DEFINE m == s.node
             reward == ReputationReward(earning)
             nd == [node[m] EXCEPT !.reputation = SaturatingAddU32(@, reward),
                                   !.total_units = @ + units,
                                   !.total_settled = @ + p]
  <1>1. m \in Nodes /\ node[m] \in Node
    BY AccountSets DEF CreditNode, Registered, TypeOK, RegistryTypeOK, CanCredit
  <1>2. reward \in Nat /\ reward <= MaxReward /\ MaxReward \in Nat
    BY RewardBounded, MathAssumption DEF MaxReward
  <1>3. node[m].reputation \in U32 /\ node[m].reputation \in Nat
    BY <1>1, MathAssumption DEF Node, U32
  <1>4. /\ SaturatingAddU32(node[m].reputation, reward) \in U32
        /\ SaturatingAddU32(node[m].reputation, reward) <= node[m].reputation + MaxReward
    <2> HIDE DEF reward
    <2> QED
      BY <1>2, <1>3, MathAssumption DEF SaturatingAddU32, U32
  <1>5. /\ node'[m] = nd /\ \A n \in Nodes \ {m} : node'[n] = node[n]
        /\ node[m].total_units + units \in U64 /\ node[m].total_settled + p \in U64
    <2>1. node' = [node EXCEPT ![m] = nd]
      BY DEF CreditNode, CanCredit
    <2>2. /\ node[m].total_units + units <= MAX_U64 /\ node[m].total_settled + p <= MAX_U64
          /\ node[m].total_units \in Nat /\ node[m].total_settled \in Nat
      BY <1>1, MathAssumption DEF CreditNode, Node, U64, CanCredit
    <2>3. node[m].total_units + units \in U64 /\ node[m].total_settled + p \in U64
      BY <2>2, MathAssumption DEF U64
    <2>4. node \in [Nodes -> Node \cup {Null}]
      BY DEF TypeOK, RegistryTypeOK
    <2> HIDE DEF nd
    <2> QED
      BY <1>1, <2>1, <2>3, <2>4
  <1>6. /\ nd.provider = node[m].provider
        /\ nd.total_settled = node[m].total_settled + p
        /\ nd.total_units = node[m].total_units + units
        /\ nd.reputation = SaturatingAddU32(node[m].reputation, reward)
        /\ nd \in Node
    <2> HIDE DEF reward
    <2> QED
      BY <1>1, <1>4, <1>5 DEF Node
  <1>7. nd # Null /\ node[m] # Null
    BY <1>1, <1>6, NullAssumption
  <1> HIDE DEF nd, reward
  <1>8. \A n \in Nodes \ {m} : Registered(n) =>
            /\ node[n].total_settled + 0 = node[n].total_settled
            /\ node[n].total_units + 0 = node[n].total_units
            /\ node[n].reputation <= node[n].reputation + 0
    BY MathAssumption DEF TypeOK, RegistryTypeOK, Registered, Node, U64, U32
  <1>9. ASSUME NEW n \in Nodes, n # m
        PROVE  /\ Registered(n)' <=> Registered(n)
               /\ Registered(n) =>
                    /\ node'[n].provider = node[n].provider
                    /\ node'[n].total_settled = node[n].total_settled + 0
                    /\ node'[n].total_units = node[n].total_units + 0
                    /\ node'[n].reputation <= node[n].reputation + 0
    BY <1>5, <1>8, <1>9 DEF Registered
  <1>10. /\ Registered(m)' <=> Registered(m)
         /\ node'[m].provider = node[m].provider
         /\ node'[m].total_settled = node[m].total_settled + p
         /\ node'[m].total_units = node[m].total_units + units
         /\ node'[m].reputation <= node[m].reputation + MaxReward
    BY <1>4, <1>5, <1>6, <1>7 DEF Registered
  <1> QED
    BY <1>9, <1>10 DEF Credits

\* A refund credits nothing.
LEMMA NoCredit ==
    ASSUME TypeOK, NEW s \in Sessions, UNCHANGED registryVars
    PROVE  Credits(s, 0, 0, 0)
  <1>1. \A n \in Nodes : Registered(n) =>
            /\ node[n].total_settled \in Int /\ node[n].total_units \in Int
            /\ node[n].reputation \in Int
    BY MathAssumption DEF TypeOK, RegistryTypeOK, Registered, Node, U64, U32
  <1> QED
    BY <1>1 DEF registryVars, Credits, Registered

\* The fee of an amount is at most the maximal fee of it.
LEMMA FeeCapped ==
    ASSUME IInv, NEW s \in Sessions, Exists(s), NEW delta \in Nat
    PROVE  FeeFor(delta, config.fee_bps) * BPS_DENOMINATOR <= MAX_FEE_BPS * delta
  <1>1. config.fee_bps \in 0..MAX_FEE_BPS
    BY DEF IInv, SessionsAnchored, TypeOK, RegistryTypeOK, Config
  <1>2. FeeFor(delta, config.fee_bps) * BPS_DENOMINATOR <= delta * MAX_FEE_BPS
    BY <1>1, FeeBounded
  <1>3. delta * MAX_FEE_BPS = MAX_FEE_BPS * delta
    BY MathAssumption
  <1> QED
    BY <1>2, <1>3

\* The records that a settlement and an end leave behind.
Applied(s, u, final) ==
    [session[s] EXCEPT !.settled_to_provider = u.owed_to_provider,
                       !.last_nonce = u.nonce,
                       !.pending_units = u.units_consumed,
                       !.status = IF final THEN "Settled" ELSE @]

Ended(s, paid, status) ==
    [session[s] EXCEPT !.settled_to_provider = paid, !.status = status]

LEMMA ApplyStatePays ==
    ASSUME IInv, NEW a \in Assets, NEW s \in Sessions, NEW u \in cosigned,
           NEW final \in BOOLEAN, ApplyState(a, s, u, final)
    PROVE  \E p, f, r, units, reward : Pays(a, s, p, f, r, units, reward, Applied(s, u, final))
  <1> DEFINE old == session[s]
             delta == u.owed_to_provider - old.settled_to_provider
             fee == FeeFor(delta, config.fee_bps)
             remainder == IF final THEN old.deposited - u.owed_to_provider ELSE 0
             newUnits == SaturatingSub(u.units_consumed, old.pending_units)
             record == Applied(s, u, final)
  <1>1. /\ HasStatus(s, "Open") /\ (a = SOL => old.mint = None) /\ PaysFrom(a, s)
        /\ VerifyCosignedState(s, u)
        /\ PayOut(a, s, delta - fee, fee, remainder)
        /\ CreditNode(s.node, newUnits, u.units_consumed, delta - fee)
        /\ Store(s, record) /\ UNCHANGED cosigned
    BY DEF ApplyState, Applied, CanApply, NetDue, FeeDue, Remainder, NewUnits
  <1>2. TypeOK /\ Exists(s) /\ Live(s) /\ old.status = "Open" /\ ~HasStatus(s, "Closing")
    BY <1>1 DEF IInv, Live, HasStatus
  <1>3. /\ old \in Session /\ old.deposited \in Nat /\ old.settled_to_provider \in Nat
        /\ old.last_nonce \in Nat /\ old.pending_units \in Nat
    BY <1>2, SessionFields
  <1>4. /\ u.owed_to_provider \in U64 /\ u.nonce \in U64 /\ u.units_consumed \in U64
        /\ u.owed_to_provider \in Nat /\ u.nonce \in Nat /\ u.units_consumed \in Nat
    BY <1>2, MathAssumption DEF TypeOK, StateUpdate, U64
  <1>5. /\ u.nonce > old.last_nonce /\ u.session = s
        /\ u.owed_to_provider <= old.deposited
        /\ u.owed_to_provider >= old.settled_to_provider
    BY <1>1 DEF VerifyCosignedState
  <1>6. delta \in Nat /\ remainder \in Nat
    BY <1>3, <1>4, <1>5
  <1>7. /\ fee \in Nat /\ delta - fee \in Nat
        /\ fee * BPS_DENOMINATOR <= MAX_FEE_BPS * delta
    <2> HIDE DEF delta
    <2> QED BY <1>2, <1>6, FeeSplit, FeeCapped
  <1>8. newUnits \in Nat /\ u.units_consumed <= newUnits + old.pending_units
    BY <1>3, <1>4 DEF SaturatingSub
  <1>9. Credits(s, delta - fee, newUnits, MaxReward)
    <2> HIDE DEF delta, fee, newUnits
    <2> QED BY <1>1, <1>2, <1>4, <1>7, <1>8, CreditNodeCredits
  <1>10. record \in Session
    BY <1>3, <1>4 DEF Session, SessionStatus, Applied
  <1>11. /\ record.mint = old.mint /\ record.deposited = old.deposited
         /\ record.settled_to_provider = u.owed_to_provider
         /\ record.last_nonce = u.nonce /\ record.pending_units = u.units_consumed
         /\ record.status = IF final THEN "Settled" ELSE "Open"
    BY <1>2, <1>3 DEF Session, Applied
  <1> HIDE DEF record, fee
  <1>12. (delta - fee) + fee = delta
    BY <1>6, <1>7
  <1>13. record.settled_to_provider = old.settled_to_provider + ((delta - fee) + fee)
    BY <1>3, <1>4, <1>11, <1>12
  <1>14. IF record.status = "Open"
         THEN remainder = 0 /\ (a = SOL => old.mint = None)
         ELSE (delta - fee) + fee + remainder = Unsettled(s)
    <2>1. CASE final
      <3>1. delta + remainder = Unsettled(s)
        BY <1>3, <1>4, <2>1 DEF Unsettled
      <3> HIDE DEF delta, remainder, old
      <3> QED BY <1>11, <1>12, <2>1, <3>1
    <2>2. CASE ~final
      BY <1>1, <1>11, <2>2
    <2> QED BY <2>1, <2>2
  <1>15. Deserved(s, MaxReward, record)
    BY <1>5, <1>11 DEF Deserved
  <1>16. MaxReward \in Nat /\ (delta - fee) + fee + remainder <= Unsettled(s)
    <2>1. delta + remainder <= Unsettled(s)
      BY <1>3, <1>4, <1>5 DEF Unsettled
    <2> HIDE DEF delta, remainder, old
    <2> QED BY <1>12, <2>1, MathAssumption DEF MaxReward
  <1> HIDE DEF delta, remainder, newUnits
  <1>17. /\ record.pending_units <=
               newUnits + (IF HasStatus(s, "Closing") THEN 0 ELSE old.pending_units)
         /\ record.last_nonce >= old.last_nonce
         /\ record.status # "Closing"
         /\ fee * BPS_DENOMINATOR <= MAX_FEE_BPS * ((delta - fee) + fee)
    BY <1>2, <1>3, <1>4, <1>5, <1>7, <1>8, <1>11, <1>12
  <1>18. Pays(a, s, delta - fee, fee, remainder, newUnits, MaxReward, record)
    BY <1>1, <1>2, <1>6, <1>7, <1>8, <1>9, <1>10, <1>11, <1>13, <1>14, <1>15, <1>16, <1>17
       DEF Pays
  <1> QED
    BY <1>18 DEF record

LEMMA FinalizePays ==
    ASSUME IInv, NEW a \in Assets, NEW s \in Sessions, Finalize(a, s)
    PROVE  \E p, f, r, units, reward :
              Pays(a, s, p, f, r, units, reward, Ended(s, session[s].pending_payout, "Settled"))
  <1> DEFINE old == session[s]
             owed == old.pending_payout
             delta == owed - old.settled_to_provider
             fee == FeeFor(delta, config.fee_bps)
             remainder == old.deposited - owed
             units == old.pending_units
             record == Ended(s, owed, "Settled")
  <1>1. /\ HasStatus(s, "Closing") /\ PaysFrom(a, s)
        /\ PayOut(a, s, delta - fee, fee, remainder)
        /\ CreditNode(s.node, units, units, delta - fee)
        /\ Store(s, record) /\ UNCHANGED cosigned
    BY DEF Finalize, Ended, CanFinalize, NetDue, FeeDue
  <1>2. TypeOK /\ Exists(s) /\ Live(s) /\ Sound(s)
    BY <1>1, AllSound DEF IInv, Live, HasStatus
  <1>3. /\ old \in Session /\ old.deposited \in Nat /\ old.settled_to_provider \in Nat
        /\ old.last_nonce \in Nat /\ units \in Nat /\ owed \in Nat
    BY <1>2, SessionFields
  <1>4. owed \in old.settled_to_provider..old.deposited /\ FollowsUpdate(s)
    BY <1>1, <1>2 DEF Sound
  <1>5. delta \in Nat /\ remainder \in Nat
    BY <1>3, <1>4
  <1>6. /\ fee \in Nat /\ delta - fee \in Nat
        /\ fee * BPS_DENOMINATOR <= MAX_FEE_BPS * delta
    <2> HIDE DEF delta
    <2> QED BY <1>2, <1>5, FeeSplit, FeeCapped
  <1>7. Credits(s, delta - fee, units, MaxReward)
    <2> HIDE DEF delta, fee, units
    <2> QED BY <1>1, <1>2, <1>3, <1>6, CreditNodeCredits
  <1>8. record \in Session
    BY <1>3 DEF Session, SessionStatus, Ended
  <1>9. /\ record.mint = old.mint /\ record.deposited = old.deposited
        /\ record.settled_to_provider = owed
        /\ record.last_nonce = old.last_nonce /\ record.pending_units = units
        /\ record.status = "Settled"
    BY <1>3 DEF Session, Ended
  <1> HIDE DEF record, fee
  <1>10. (delta - fee) + fee = delta
    BY <1>5, <1>6
  <1>11. record.settled_to_provider = old.settled_to_provider + ((delta - fee) + fee)
    BY <1>3, <1>9, <1>10
  <1>12. (delta - fee) + fee + remainder = Unsettled(s)
    <2>1. delta + remainder = Unsettled(s)
      BY <1>3 DEF Unsettled
    <2> HIDE DEF delta, remainder, old
    <2> QED BY <1>10, <2>1
  <1>13. Deserved(s, MaxReward, record)
    <2>1. old.last_nonce # 0
      BY <1>1, <1>4 DEF FollowsUpdate
    <2> QED
      BY <1>1, <1>4, <1>9, <2>1 DEF FollowsUpdate, Deserved
  <1>14. MaxReward \in Nat /\ (delta - fee) + fee + remainder <= Unsettled(s)
    <2>1. Unsettled(s) \in Int
      BY <1>3 DEF Unsettled
    <2> HIDE DEF delta, remainder, old
    <2> QED BY <1>12, <2>1, MathAssumption DEF MaxReward
  <1> HIDE DEF delta, remainder
  <1>15. /\ record.pending_units <=
               units + (IF HasStatus(s, "Closing") THEN 0 ELSE old.pending_units)
         /\ record.last_nonce >= old.last_nonce
         /\ record.status # "Closing" /\ record.status # "Open"
         /\ fee * BPS_DENOMINATOR <= MAX_FEE_BPS * ((delta - fee) + fee)
    BY <1>1, <1>3, <1>6, <1>9, <1>10
  <1>16. Pays(a, s, delta - fee, fee, remainder, units, MaxReward, record)
    BY <1>1, <1>2, <1>3, <1>5, <1>6, <1>7, <1>8, <1>9, <1>11, <1>12, <1>13, <1>14, <1>15
       DEF Pays
  <1> QED
    BY <1>16 DEF record

LEMMA RefundPays ==
    ASSUME IInv, NEW a \in Assets, NEW s \in Sessions, HasStatus(s, "Open"),
           NEW status \in {"Cancelled", "Expired"}, Refund(a, s, status)
    PROVE  \E p, f, r, units, reward :
              Pays(a, s, p, f, r, units, reward, [session[s] EXCEPT !.status = status])
  <1> DEFINE old == session[s]
             rest == old.deposited - old.settled_to_provider
             record == [old EXCEPT !.status = status]
  <1>1. /\ old.settled_to_provider <= old.deposited /\ PaysFrom(a, s)
        /\ PayOut(a, s, 0, 0, rest)
        /\ Store(s, record) /\ UNCHANGED <<registryVars, cosigned>>
    BY DEF Refund, CanRefund
  <1>2. TypeOK /\ Exists(s) /\ Live(s) /\ ~HasStatus(s, "Closing")
    BY DEF IInv, Live, HasStatus
  <1>3. /\ old \in Session /\ old.deposited \in Nat /\ old.settled_to_provider \in Nat
        /\ old.last_nonce \in Nat /\ old.pending_units \in Nat
    BY <1>2, SessionFields
  <1>4. rest \in Nat /\ 0 + 0 + rest = Unsettled(s)
    BY <1>1, <1>3 DEF Unsettled
  <1>5. record \in Session
    BY <1>3 DEF Session, SessionStatus
  <1>6. /\ record.mint = old.mint /\ record.deposited = old.deposited
        /\ record.settled_to_provider = old.settled_to_provider
        /\ record.last_nonce = old.last_nonce /\ record.pending_units = old.pending_units
        /\ record.status = status
    BY <1>3 DEF Session
  <1> HIDE DEF record, rest
  <1>7. /\ record.pending_units <=
               0 + (IF HasStatus(s, "Closing") THEN 0 ELSE old.pending_units)
        /\ record.last_nonce >= old.last_nonce
        /\ record.status # "Closing" /\ record.status # "Open"
        /\ record.settled_to_provider = old.settled_to_provider + (0 + 0)
        /\ 0 * BPS_DENOMINATOR <= MAX_FEE_BPS * (0 + 0)
        /\ 0 + 0 + rest <= Unsettled(s)
    BY <1>2, <1>3, <1>4, <1>6, MathAssumption
  <1>8. Credits(s, 0, 0, 0) /\ Deserved(s, 0, record)
    BY <1>1, <1>2, NoCredit DEF Deserved
  <1>9. Pays(a, s, 0, 0, rest, 0, 0, record)
    BY <1>1, <1>2, <1>4, <1>5, <1>6, <1>7, <1>8 DEF Pays
  <1> QED
    BY <1>9 DEF record

\* What follows of a payout for the session and the entries of the ledger.
LEMMA PaysEffect ==
    ASSUME IInv, NEW a \in Assets, NEW s \in Sessions, NEW p, NEW f, NEW r, NEW units,
           NEW reward, NEW record, Pays(a, s, p, f, r, units, reward, record)
    PROVE  /\ ProviderOf(s) \in Providers
           /\ \A b \in Assets, t \in Accounts :
                 ledger'[b][t] = ledger[b][t] + (IF b = a THEN Share(s, p, f, r, t) ELSE 0)
           /\ \A b \in Assets : SumFunction(ledger'[b]) = SumFunction(ledger[b])
           /\ session'[s] = IF ledger'[SOL][s] = 0 THEN Null ELSE record
           /\ \A t \in Sessions : t # s => session'[t] = session[t]
           /\ RentKept(ledger')
  <1>1. TypeOK /\ Exists(s)
    BY DEF IInv, Pays, Live, HasStatus
  <1>2. ProviderOf(s) \in Providers
    BY <1>1, AccountSets
       DEF IInv, SessionsAnchored, TypeOK, RegistryTypeOK, Registered, Node, ProviderOf
  <1>3. PayOut(a, s, p, f, r) /\ Store(s, record) /\ p \in Nat /\ f \in Nat /\ r \in Nat
    BY DEF Pays
  <1>4. /\ session'[s] = IF ledger'[SOL][s] = 0 THEN Null ELSE record
        /\ \A t \in Sessions : t # s => session'[t] = session[t]
    BY <1>1, <1>3 DEF Store, TypeOK
  <1>5. RentKept(ledger')
    BY <1>3 DEF PayOut, CanPayOut, AfterPayOut
  <1> QED
    BY <1>1, <1>2, <1>3, <1>4, <1>5, PayOutShares

-----------------------------------------------------------------------------
(***************************************************************************)
(* The other steps, seen by the books.                                     *)
(***************************************************************************)

\* A session opens.
Opens(s, mint, amount, record) ==
    /\ ~Exists(s) /\ amount \in Amounts
    /\ record \in Session /\ record.mint = mint /\ record.deposited = amount
    /\ record.settled_to_provider = 0 /\ record.pending_units = 0
    /\ record.status = "Open" /\ mint \in Mints \cup {None}
    /\ session' = [session EXCEPT ![s] = record]
    /\ UNCHANGED <<registryVars, cosigned>>

\* What its consumer pays of asset b: what the rent lacks, and the deposit.
RentIn(s, b) == IF b = SOL THEN RentDue(s) ELSE 0
DepositIn(mint, amount, b) ==
    IF b = (IF mint = None THEN SOL ELSE mint) THEN amount ELSE 0
PaidIn(s, mint, amount, b) == RentIn(s, b) + DepositIn(mint, amount, b)

LEMMA RentInRange ==
    ASSUME TypeOK, NEW s \in Sessions, NEW b
    PROVE  /\ RentDue(s) \in Nat /\ RentIn(s, b) \in Nat
           /\ RentIn(s, b) <= (IF b = SOL THEN SessionRent ELSE 0)
  <1>1. ledger[SOL][s] \in Nat /\ SessionRent \in Nat
    BY Roles, EscrowAssumption DEF TypeOK
  <1> QED
    BY <1>1 DEF RentIn, RentDue, SaturatingSub

LEMMA PaidInIsInt ==
    ASSUME TypeOK, NEW s \in Sessions, NEW mint, NEW amount \in Amounts, NEW b
    PROVE  /\ amount \in Nat /\ PaidIn(s, mint, amount, b) \in Nat
           /\ RentIn(s, b) \in Nat /\ DepositIn(mint, amount, b) \in Nat
  <1>1. amount \in Nat
    BY EscrowAssumption, MathAssumption DEF U64
  <1> QED
    BY <1>1, RentInRange DEF PaidIn, DepositIn

LEMMA OpenOpens ==
    ASSUME IInv, NEW s \in Sessions, NEW mint \in Mints \cup {None},
           NEW amount \in Amounts, NEW duration \in Durations,
           Open(s, mint, amount, duration)
    PROVE  /\ \E record : Opens(s, mint, amount, record)
           /\ \A b \in Assets, t \in Accounts :
                 ledger'[b][t] = ledger[b][t]
                                 + (IF t = s THEN PaidIn(s, mint, amount, b) ELSE 0)
                                 - (IF t = s.consumer THEN PaidIn(s, mint, amount, b) ELSE 0)
           /\ \A b \in Assets : SumFunction(ledger'[b]) = SumFunction(ledger[b])
  <1> DEFINE a == IF mint = None THEN SOL ELSE mint
             c == s.consumer
             rent == RentDue(s)
             rented == Moved(ledger, SOL, c, s, rent)
             record == [status |-> "Open", mint |-> mint, deposited |-> amount,
                        settled_to_provider |-> 0, last_nonce |-> 0,
                        expiry |-> now + duration, challenge_deadline |-> 0,
                        pending_payout |-> 0, pending_units |-> 0]
  <1>1. /\ ~Exists(s) /\ duration \in MIN_DURATION_SECS..MAX_DURATION_SECS
        /\ now + duration <= HORIZON
        /\ ledger' = Moved(rented, a, c, s, amount)
        /\ session' = [session EXCEPT ![s] = record]
        /\ UNCHANGED <<registryVars, cosigned>>
    BY DEF Open
  <1>2. /\ TypeOK /\ ledger \in Ledgers
        /\ \A b \in Assets, t \in Accounts : ledger[b][t] \in Int
    BY DEF IInv, TypeOK, Ledgers
  <1>3. /\ amount \in Nat /\ rent \in Nat /\ amount \in U64
        /\ amount \in Int /\ rent \in Int
    BY <1>2, RentInRange, EscrowAssumption, MathAssumption DEF U64
  <1>4. record \in Session
    <2>1. now + duration \in Times /\ 0 \in Times
      BY <1>1, <1>2, EscrowAssumption DEF TypeOK, Times
    <2>2. 0 \in U64
      BY MathAssumption DEF U64
    <2> QED
      BY <1>3, <2>1, <2>2 DEF Session, SessionStatus
  <1>5. Opens(s, mint, amount, record)
    BY <1>1, <1>4 DEF Opens
  <1>6. /\ SOL \in Assets /\ a \in Assets /\ c \in Accounts /\ s \in Accounts
    BY AccountSets
  <1> HIDE DEF c, a, rent
  <1>7. /\ rented \in Ledgers
        /\ \A b \in Assets, t \in Accounts :
              rented[b][t] = Balance(ledger, SOL, c, s, rent, b, t)
    BY <1>2, <1>3, <1>6, MovedEffect
  <1>8. \A b \in Assets : SumFunction(rented[b]) = SumFunction(ledger[b])
    BY <1>2, <1>3, <1>6, TransferConserves
  <1> HIDE DEF rented
  <1>9. \A b \in Assets, t \in Accounts :
            ledger'[b][t] = Balance(rented, a, c, s, amount, b, t)
    BY <1>1, <1>3, <1>6, <1>7, MovedEffect
  <1>10. \A b \in Assets : SumFunction(ledger'[b]) = SumFunction(rented[b])
    BY <1>1, <1>3, <1>6, <1>7, TransferConserves
  <1>11. ASSUME NEW b \in Assets, NEW t \in Accounts
         PROVE  ledger'[b][t] = ledger[b][t]
                                 + (IF t = s THEN PaidIn(s, mint, amount, b) ELSE 0)
                                 - (IF t = c THEN PaidIn(s, mint, amount, b) ELSE 0)
    <2>1. /\ rented[b][t] = Balance(ledger, SOL, c, s, rent, b, t)
          /\ ledger'[b][t] = Balance(rented, a, c, s, amount, b, t)
          /\ ledger[b][t] \in Int
      BY <1>2, <1>7, <1>9
    <2>2. PaidIn(s, mint, amount, b) =
             (IF b = SOL THEN rent ELSE 0) + (IF b = a THEN amount ELSE 0)
      BY DEF PaidIn, RentIn, DepositIn, a, rent
    <2> QED
      BY <1>3, <2>1, <2>2 DEF Balance
  <1> QED
    BY <1>5, <1>8, <1>10, <1>11 DEF c

\* Fees go from the vault to the treasury.
Withdraws(amount) ==
    /\ amount \in Int
    /\ ledger' = Moved(ledger, SOL, FeeVault, Treasury, amount)
    /\ UNCHANGED <<registryVars, session, cosigned>>

LEMMA WithdrawsEffect ==
    ASSUME IInv, NEW amount, Withdraws(amount)
    PROVE  /\ \A b \in Assets, t \in Accounts \ {FeeVault, Treasury} : ledger'[b][t] = ledger[b][t]
           /\ \A b \in Assets : Fees(b)' = Fees(b)
           /\ \A b \in Assets : SumFunction(ledger'[b]) = SumFunction(ledger[b])
  <1>1. /\ ledger \in Ledgers /\ \A b \in Assets, t \in Accounts : ledger[b][t] \in Int
    BY DEF IInv, TypeOK, Ledgers
  <1>2. amount \in Int /\ ledger' = Moved(ledger, SOL, FeeVault, Treasury, amount)
    BY DEF Withdraws
  <1>3. \A b \in Assets, t \in Accounts :
            ledger'[b][t] = Balance(ledger, SOL, FeeVault, Treasury, amount, b, t)
    BY <1>1, <1>2, Roles, MovedEffect
  <1>4. \A b \in Assets : SumFunction(ledger'[b]) = SumFunction(ledger[b])
    <2> SUFFICES ASSUME NEW b \in Assets
                 PROVE  SumFunction(ledger'[b]) = SumFunction(ledger[b])
      OBVIOUS
    <2>1. SOL \in Assets /\ FeeVault \in Accounts /\ Treasury \in Accounts
      BY Roles
    <2>2. SumFunction(Moved(ledger, SOL, FeeVault, Treasury, amount)[b]) = SumFunction(ledger[b])
      BY <1>1, <1>2, <2>1, TransferConserves
    <2> QED
      BY <1>2, <2>2
  <1>5. \A b \in Assets, t \in Accounts \ {FeeVault, Treasury} : ledger'[b][t] = ledger[b][t]
    BY <1>1, <1>2, <1>3, Roles DEF Balance
  <1>6. \A b \in Assets : Fees(b)' = Fees(b)
    BY <1>1, <1>2, <1>3, Roles DEF Balance, Fees
  <1> QED
    BY <1>4, <1>5, <1>6

\* Somebody gives a session what it never asked for.
Gives(a, s, amount) ==
    /\ amount \in Nat
    /\ ledger' = Moved(ledger, a, Outsider, s, amount)
    /\ UNCHANGED <<registryVars, session, cosigned>>

LEMMA GivesEffect ==
    ASSUME IInv, NEW a \in Assets, NEW s \in Sessions, NEW amount, Gives(a, s, amount)
    PROVE  /\ \A b \in Assets, t \in Accounts \ {Outsider, s} : ledger'[b][t] = ledger[b][t]
           /\ \A b \in Assets, t \in Sessions : ledger'[b][t] >= ledger[b][t]
           /\ \A b \in Assets : Fees(b)' = Fees(b)
           /\ \A b \in Assets : SumFunction(ledger'[b]) = SumFunction(ledger[b])
  <1>1. /\ ledger \in Ledgers /\ \A b \in Assets, t \in Accounts : ledger[b][t] \in Int
    BY DEF IInv, TypeOK, Ledgers
  <1>2. /\ amount \in Nat /\ amount \in Int /\ s \in Accounts
        /\ ledger' = Moved(ledger, a, Outsider, s, amount)
    BY Roles DEF Gives
  <1>3. \A b \in Assets, t \in Accounts :
            ledger'[b][t] = Balance(ledger, a, Outsider, s, amount, b, t)
    BY <1>1, <1>2, Roles, MovedEffect
  <1>4. \A b \in Assets : SumFunction(ledger'[b]) = SumFunction(ledger[b])
    BY <1>1, <1>2, Roles, TransferConserves
  <1>5. \A b \in Assets, t \in Accounts \ {Outsider, s} : ledger'[b][t] = ledger[b][t]
    BY <1>1, <1>2, <1>3 DEF Balance
  <1>6. \A b \in Assets, t \in Sessions : ledger'[b][t] >= ledger[b][t]
    BY <1>1, <1>2, <1>3, Roles DEF Balance
  <1>7. \A b \in Assets : Fees(b)' = Fees(b)
    BY <1>5, Roles DEF Fees
  <1> QED
    BY <1>4, <1>5, <1>6, <1>7

\* A unilateral close begins, or a challenge replaces what it will pay.
Disputes(s, record) ==
    /\ Live(s) /\ record \in Session /\ record.status = "Closing"
    /\ record.mint = session[s].mint /\ record.deposited = session[s].deposited
    /\ record.settled_to_provider = session[s].settled_to_provider
    /\ record.last_nonce > session[s].last_nonce
    /\ session' = [session EXCEPT ![s] = record]
    /\ UNCHANGED <<registryVars, ledger, cosigned>>

LEMMA DisputedDisputes ==
    ASSUME IInv, NEW s \in Sessions, NEW u \in cosigned, Live(s), VerifyCosignedState(s, u),
           NEW deadline \in Times,
           session' = [session EXCEPT ![s] = Disputed(s, u, deadline)],
           UNCHANGED <<registryVars, ledger, cosigned>>
    PROVE  Disputes(s, Disputed(s, u, deadline))
  <1> DEFINE old == session[s]
             new == Disputed(s, u, deadline)
  <1>1. TypeOK /\ Exists(s)
    BY DEF IInv, Live, HasStatus
  <1>2. /\ old \in Session /\ old.last_nonce \in Nat
    BY <1>1, SessionFields
  <1>3. /\ u.owed_to_provider \in U64 /\ u.nonce \in U64 /\ u.units_consumed \in U64
    BY <1>1 DEF TypeOK, StateUpdate
  <1>4. u.nonce > old.last_nonce
    BY DEF VerifyCosignedState
  <1>5. "Closing" \in SessionStatus
    BY DEF SessionStatus
  <1> HIDE DEF old
  <1>6. new \in Session
    BY <1>2, <1>3, <1>5 DEF Disputed, Session, old
  <1>7. /\ new.mint = old.mint /\ new.deposited = old.deposited
        /\ new.settled_to_provider = old.settled_to_provider
        /\ new.status = "Closing" /\ new.last_nonce = u.nonce
    BY <1>2 DEF Disputed, Session, old
  <1> HIDE DEF new
  <1>8. Disputes(s, new)
    BY <1>4, <1>6, <1>7 DEF Disputes, old, new
  <1> QED
    BY <1>8 DEF new

LEMMA DisputeSteps ==
    ASSUME IInv, NEW s \in Sessions, NEW u \in cosigned,
           \/ \E caller \in Wallets : InitiateUnilateralClose(s, caller, u)
           \/ Challenge(s, u)
    PROVE  \E record : Disputes(s, record)
  <1>1. CASE \E caller \in Wallets : InitiateUnilateralClose(s, caller, u)
    <2> DEFINE deadline == now + config.challenge_window_secs
    <2>1. /\ HasStatus(s, "Open") /\ VerifyCosignedState(s, u) /\ deadline <= HORIZON
          /\ UNCHANGED <<registryVars, ledger, cosigned>>
      BY <1>1 DEF InitiateUnilateralClose
    <2>2. TypeOK /\ Live(s) /\ Exists(s) /\ session[s] \in Session
      BY <2>1, SessionFields DEF IInv, Live, HasStatus
    <2>3. deadline \in Times
      <3>1. config.challenge_window_secs \in Nat
        BY <2>2 DEF IInv, SessionsAnchored, TypeOK, RegistryTypeOK, Config
      <3>2. now \in Nat /\ HORIZON \in Nat
        BY <2>2, EscrowAssumption DEF TypeOK
      <3> QED
        BY <2>1, <3>1, <3>2 DEF Times
    <2>4. session' = [session EXCEPT ![s] = Disputed(s, u, deadline)]
      BY <1>1, <2>2 DEF InitiateUnilateralClose, Disputed, TypeOK, Session
    <2> HIDE DEF deadline
    <2> QED
      BY <2>1, <2>2, <2>3, <2>4, DisputedDisputes
  <1>2. CASE Challenge(s, u)
    <2> DEFINE deadline == session[s].challenge_deadline
    <2>1. /\ HasStatus(s, "Closing") /\ VerifyCosignedState(s, u)
          /\ UNCHANGED <<registryVars, ledger, cosigned>>
      BY <1>2 DEF Challenge, CanChallenge
    <2>2. TypeOK /\ Live(s) /\ session[s] \in Session /\ session[s].status = "Closing"
      BY <2>1, SessionFields DEF IInv, Live, HasStatus
    <2>3. deadline \in Times
      BY <2>2 DEF Session
    <2>4. session' = [session EXCEPT ![s] = Disputed(s, u, deadline)]
      BY <1>2, <2>2 DEF Challenge, Disputed, TypeOK, Session, CanChallenge
    <2> HIDE DEF deadline
    <2> QED
      BY <2>1, <2>2, <2>3, <2>4, DisputedDisputes
  <1> QED
    BY <1>1, <1>2

\* A registered node keeps its counters; a new one starts with none.
NodesFresh ==
    \A n \in Nodes :
        IF Registered(n)
        THEN /\ Registered(n)' /\ node'[n].provider = node[n].provider
             /\ node'[n].total_settled = node[n].total_settled
             /\ node'[n].total_units = node[n].total_units
             /\ node'[n].reputation = node[n].reputation
        ELSE Registered(n)' =>
                /\ node'[n].total_settled = 0 /\ node'[n].total_units = 0
                /\ node'[n].reputation \in InitReputations

\* A registry handler, a signature, a token account, a tick of the clock or
\* nothing at all.
MovesNothing ==
    /\ UNCHANGED <<session, ledger>>
    /\ NodesFresh
    /\ cosigned' = cosigned \/ \E u : cosigned' = cosigned \cup {u}

LEMMA RegistryFresh ==
    ASSUME IInv, RegistryHandler \/ UNCHANGED registryVars
    PROVE  NodesFresh
  <1> USE DEF IInv, TypeOK, RegistryTypeOK
  <1>1. CASE UNCHANGED node
    BY <1>1 DEF NodesFresh, Registered
  <1>2. CASE \E n \in Nodes, signer \in Providers, capacity \in Capacities, geo \in Geos,
                rep \in InitReputations : RegisterNode(n, signer, capacity, geo, rep)
    <2>1. PICK n \in Nodes, signer \in Providers, capacity \in Capacities, geo \in Geos,
               rep \in InitReputations : RegisterNode(n, signer, capacity, geo, rep)
      BY <1>2
    <2>2. /\ ~Registered(n) /\ \A m \in Nodes \ {n} : node'[m] = node[m]
          /\ node'[n].total_settled = 0 /\ node'[n].total_units = 0
          /\ node'[n].reputation = rep
      BY <2>1 DEF RegisterNode
    <2> QED
      BY <2>2 DEF NodesFresh, Registered
  <1>3. CASE \E n \in Nodes, signer \in Providers, capacity \in Capacities \cup {None},
                geo \in Geos \cup {None}, active \in BOOLEAN \cup {None} :
                UpdateNodeMeta(n, signer, capacity, geo, active)
    <2>1. PICK n \in Nodes, signer \in Providers, capacity \in Capacities \cup {None},
               geo \in Geos \cup {None}, active \in BOOLEAN \cup {None} :
               UpdateNodeMeta(n, signer, capacity, geo, active)
      BY <1>3
    <2> DEFINE nd == EditedNode(n, capacity, geo, active)
    <2>2. node[n] \in Node /\ node' = [node EXCEPT ![n] = nd]
      BY <2>1 DEF UpdateNodeMeta, Registered
    <2>3. /\ nd.provider = node[n].provider /\ nd.reputation = node[n].reputation
          /\ nd.total_units = node[n].total_units /\ nd.total_settled = node[n].total_settled
      BY <2>2 DEF EditedNode, Node
    <2>4. node'[n] # Null /\ Registered(n)
      <3>1. NodesKept
        BY <1>3, RegistryHandlerStep DEF RegistryHandler, RegistryInv
      <3> QED
        BY <2>1, <3>1 DEF NodesKept, UpdateNodeMeta
    <2> QED
      BY <2>2, <2>3, <2>4 DEF NodesFresh, Registered
  <1> QED
    BY <1>1, <1>2, <1>3 DEF RegistryHandler, registryVars, InitializeConfig, UpdateConfig, SetPaused

\* The kinds of steps that the books tell apart.
PaysStep == \E a \in Assets, s \in Sessions : \E p, f, r, units, reward, record :
                Pays(a, s, p, f, r, units, reward, record)

OpensStep == \E s \in Sessions, mint \in Mints \cup {None}, amount \in Amounts,
                duration \in Durations : Open(s, mint, amount, duration)

WithdrawsStep == \E amount : Withdraws(amount)

GivesStep == \E a \in Assets, s \in Sessions : \E amount : Gives(a, s, amount)

DisputesStep == \E s \in Sessions : \E record : Disputes(s, record)

LEMMA StepKinds ==
    ASSUME IInv, [Next]_vars
    PROVE  \/ PaysStep \/ OpensStep \/ WithdrawsStep \/ GivesStep
           \/ DisputesStep \/ MovesNothing
  <1>1. CASE SessionHandler
    <2>1. PICK s \in Sessions :
            \/ \E mint \in Mints \cup {None}, amount \in Amounts, duration \in Durations :
                  Open(s, mint, amount, duration)
            \/ \E a \in Assets, u \in cosigned, final \in BOOLEAN : ApplyState(a, s, u, final)
            \/ \E u \in cosigned :
                  \/ \E caller \in Wallets : InitiateUnilateralClose(s, caller, u)
                  \/ Challenge(s, u)
            \/ \E a \in Assets :
                  \/ Finalize(a, s)
                  \/ \E signer \in Wallets : Cancel(a, s, signer)
                  \/ Expire(a, s)
      BY <1>1, HandlersByKind
    <2>2. CASE \E mint \in Mints \cup {None}, amount \in Amounts, duration \in Durations :
                  Open(s, mint, amount, duration)
      BY <2>2 DEF OpensStep
    <2>3. CASE \E a \in Assets, u \in cosigned, final \in BOOLEAN : ApplyState(a, s, u, final)
      BY <2>3, ApplyStatePays DEF PaysStep
    <2>4. CASE \E u \in cosigned :
                  \/ \E caller \in Wallets : InitiateUnilateralClose(s, caller, u)
                  \/ Challenge(s, u)
      BY <2>4, DisputeSteps DEF DisputesStep
    <2>5. CASE \E a \in Assets :
                  \/ Finalize(a, s)
                  \/ \E signer \in Wallets : Cancel(a, s, signer)
                  \/ Expire(a, s)
      BY <2>5, FinalizePays, RefundPays DEF PaysStep, Cancel, Expire, CanExpire
    <2> QED
      BY <2>1, <2>2, <2>3, <2>4, <2>5
  <1>2. CASE \E signer \in Authorities, amount \in 1..ledger[SOL][FeeVault] :
                WithdrawFees(signer, amount)
    BY <1>2 DEF WithdrawFees, WithdrawsStep, Withdraws
  <1>3. CASE \/ RegistryHandler /\ UNCHANGED escrowVars
             \/ \E u \in StateUpdates : CoSign(u)
             \/ \E s \in Sessions, mint \in Mints : CreateVault(s, mint)
             \/ Tick
             \/ UNCHANGED vars
    <2>1. RegistryHandler \/ UNCHANGED registryVars
      BY <1>3 DEF CoSign, CreateVault, Tick, vars
    <2>2. NodesFresh
      BY <2>1, RegistryFresh
    <2> QED
      BY <1>3, <2>2 DEF MovesNothing, CoSign, CreateVault, Tick, vars, escrowVars
  <1>4. CASE \E a \in Assets, s \in Sessions : \E amount \in 1..ledger[a][Outsider] :
                Give(a, s, amount)
    <2>1. PICK a \in Assets, s \in Sessions : \E amount \in 1..ledger[a][Outsider] :
                Give(a, s, amount)
      BY <1>4
    <2>2. PICK amount \in 1..ledger[a][Outsider] : Give(a, s, amount)
      BY <2>1
    <2>3. amount \in Nat
      BY Roles DEF IInv, TypeOK
    <2> QED
      BY <2>2, <2>3 DEF Give, GivesStep, Gives
  <1>5. CASE OutsideStep
    <2> QED
      BY <1>3, <1>4, <1>5 DEF OutsideStep
  <1> QED
    BY <1>1, <1>2, <1>3, <1>5 DEF Next

-----------------------------------------------------------------------------
(***************************************************************************)
(* The books that always balance.                                          *)
(***************************************************************************)

\* No step changes what there is of an asset.
LEMMA TotalsKept ==
    ASSUME IInv, [Next]_vars
    PROVE  \A b \in Assets : SumFunction(ledger'[b]) = SumFunction(ledger[b])
  <1>1. CASE PaysStep
    BY <1>1, PaysEffect DEF PaysStep
  <1>2. CASE OpensStep
    BY <1>2, OpenOpens DEF OpensStep
  <1>3. CASE WithdrawsStep
    BY <1>3, WithdrawsEffect DEF WithdrawsStep
  <1>4. CASE UNCHANGED ledger
    BY <1>4
  <1>5. CASE GivesStep
    BY <1>5, GivesEffect DEF GivesStep
  <1> QED
    BY <1>1, <1>2, <1>3, <1>4, <1>5, StepKinds DEF DisputesStep, Disputes, MovesNothing

LEMMA ConservationInit == Init => Conservation
  <1> SUFFICES ASSUME Init, NEW a \in Assets
               PROVE  SumFunction(ledger[a]) =
                      Funds * Cardinality(Providers \cup Consumers) + OutsideFunds[a]
    BY DEF Conservation
  <1> DEFINE T == Providers \cup Consumers
             ours == [acc \in Accounts |-> IF acc \in T THEN Funds ELSE 0]
  <1>1. /\ Funds \in Int /\ OutsideFunds[a] \in Int
        /\ T \subseteq Accounts /\ Outsider \in Accounts /\ Outsider \notin T
    BY Roles, EscrowAssumption
  <1>2. ledger[a] = [acc \in Accounts |-> IF acc \in T THEN Funds
                                         ELSE IF acc = Outsider THEN OutsideFunds[a] ELSE 0]
    BY DEF Init
  <1>3. Accounts \cap T = T
    BY <1>1
  <1> HIDE DEF T
  <1>4. /\ ours \in [Accounts -> Int] /\ DOMAIN ours = Accounts
        /\ \A acc \in Accounts \cap T : ours[acc] = Funds
        /\ \A acc \in Accounts \ T : ours[acc] = 0
        /\ ours[Outsider] = 0
    BY <1>1
  <1>5. /\ ledger[a] \in [Accounts -> Int] /\ ledger[a][Outsider] = OutsideFunds[a]
        /\ \A acc \in Accounts \ {Outsider} : ledger[a][acc] = ours[acc]
    BY <1>1, <1>2
  <1> HIDE DEF ours
  <1>6. SumFunction(ours) = SumFunctionOnSet(ours, Accounts)
    BY <1>4 DEF SumFunction
  <1>7. ASSUME NEW c \in Int, c = Funds
        PROVE  SumFunctionOnSet(ours, Accounts) = c * Cardinality(Accounts \cap T)
    <2>1. /\ ours \in [Accounts -> Int] /\ IsFiniteSet(Accounts)
          /\ \A acc \in Accounts \cap T : ours[acc] = c
          /\ \A acc \in Accounts \ T : ours[acc] = 0
      BY <1>4, <1>7, FiniteBooks
    <2> QED
      BY <2>1, SumOfIndicator
  <1>8. SumFunction(ledger[a]) = SumFunction(ours) + (ledger[a][Outsider] - ours[Outsider])
    BY <1>1, <1>4, <1>5, FiniteBooks, OneEntry
  <1>9. SumFunction(ledger[a]) = SumFunction(ours) + OutsideFunds[a]
    <2>1. ledger[a][Outsider] - ours[Outsider] = OutsideFunds[a]
      BY <1>1, <1>4, <1>5
    <2> QED
      BY <1>8, <2>1
  <1>10. SumFunction(ours) = Funds * Cardinality(T)
    BY <1>1, <1>3, <1>6, <1>7
  <1> QED
    BY <1>9, <1>10 DEF T

-----------------------------------------------------------------------------
(***************************************************************************)
(* Earnings.                                                               *)
(***************************************************************************)

\* g is f with d added at y.
Shifts(S, f, g, y, d) ==
    /\ f \in [S -> Int] /\ g \in [S -> Int] /\ y \in S /\ d \in Int
    /\ \A x \in S : g[x] = f[x] + (IF x = y THEN d ELSE 0)

LEMMA SumShifts ==
    ASSUME NEW S, IsFiniteSet(S), NEW f, NEW g, NEW y, NEW d, Shifts(S, f, g, y, d)
    PROVE  /\ SumFunction(f) \in Int /\ SumFunction(g) \in Int
           /\ SumFunction(g) = SumFunction(f) + d
  <1>1. /\ f \in [S -> Int] /\ g \in [S -> Int] /\ y \in S /\ d \in Int
        /\ g[y] = f[y] + d /\ f[y] \in Int
        /\ \A x \in S \ {y} : g[x] = f[x]
    BY DEF Shifts
  <1>2. SumFunction(f) \in Int /\ SumFunction(g) \in Int
    BY <1>1, SumTyped
  <1>3. SumFunction(g) = SumFunction(f) + (g[y] - f[y])
    BY <1>1, OneEntry
  <1>4. g[y] - f[y] = d
    BY <1>1
  <1> QED
    BY <1>2, <1>3, <1>4

LEMMA EarningsInit == Init => EarningsShown
  <1> SUFFICES ASSUME Init, NEW p \in Providers
               PROVE  SumFunction(ShownBy(p)) = SumFunction(GainsOf(p))
    BY DEF EarningsShown
  <1>1. \A n \in Nodes : ~Registered(n)
    BY DEF Init, RegistryInit, Registered
  <1>2. ShownBy(p) = [n \in Nodes |-> 0]
    BY <1>1 DEF ShownBy
  <1>3. \A a \in Assets : Gained(a, p) = 0
    BY Roles, EscrowAssumption DEF Init, Gained
  <1>4. GainsOf(p) = [a \in Assets |-> 0]
    BY <1>3 DEF GainsOf
  <1>5. SumFunction(ShownBy(p)) = 0
    BY <1>2, FiniteAssumption, SumOfZeros
  <1>6. SumFunction(GainsOf(p)) = 0
    BY <1>4, FiniteBooks, SumOfZeros
  <1> QED
    BY <1>5, <1>6

\* Whatever is not a payout leaves earnings and gains alone.
LEMMA EarningsUntouched ==
    ASSUME IInv, NodesFresh, NEW p \in Providers,
           \A b \in Assets : ledger'[b][p] = ledger[b][p]
    PROVE  ShownBy(p)' = ShownBy(p) /\ GainsOf(p)' = GainsOf(p)
  <1>1. ASSUME NEW n \in Nodes
        PROVE  (IF Registered(n)' /\ node'[n].provider = p THEN node'[n].total_settled ELSE 0)
               = (IF Registered(n) /\ node[n].provider = p THEN node[n].total_settled ELSE 0)
    BY DEF NodesFresh
  <1>2. ShownBy(p)' = ShownBy(p)
    BY <1>1 DEF ShownBy
  <1>3. GainsOf(p)' = GainsOf(p)
    BY DEF GainsOf, Gained
  <1> QED
    BY <1>2, <1>3

LEMMA EarningsKept ==
    ASSUME IInv, IInv', EarningsShown, [Next]_vars
    PROVE  EarningsShown'
  <1> SUFFICES ASSUME NEW q \in Providers
               PROVE  SumFunction(ShownBy(q)') = SumFunction(GainsOf(q)')
    BY DEF EarningsShown
  <1>1. /\ TypeOK /\ TypeOK'
        /\ SumFunction(ShownBy(q)) = SumFunction(GainsOf(q))
    BY DEF EarningsShown, IInv
  <1>2. /\ ShownBy(q) \in [Nodes -> Int] /\ ShownBy(q)' \in [Nodes -> Int]
        /\ GainsOf(q) \in [Assets -> Int] /\ GainsOf(q)' \in [Assets -> Int]
    BY <1>1, BookTypes, BookTypesNext DEF BooksTyped
  <1>3. CASE PaysStep
    <2>1. PICK a \in Assets, s \in Sessions : \E p, f, r, units, reward, record :
              Pays(a, s, p, f, r, units, reward, record)
      BY <1>3 DEF PaysStep
    <2>2. PICK p, f, r, units, reward, record : Pays(a, s, p, f, r, units, reward, record)
      BY <2>1
    <2>3. /\ \A b \in Assets, t \in Accounts :
                ledger'[b][t] = ledger[b][t] + (IF b = a THEN Share(s, p, f, r, t) ELSE 0)
          /\ p \in Nat /\ f \in Nat /\ r \in Nat /\ Exists(s)
          /\ Credits(s, p, units, reward)
      <3>1. Live(s) /\ p \in Nat /\ f \in Nat /\ r \in Nat /\ Credits(s, p, units, reward)
        BY <2>2 DEF Pays
      <3>2. Exists(s)
        BY <3>1 DEF Live, HasStatus
      <3> QED
        BY <2>2, <3>1, <3>2, PaysEffect
    <2> DEFINE d == IF q = ProviderOf(s) THEN p ELSE 0
    <2>4. d \in Int /\ s.node \in Nodes /\ Registered(s.node)
      BY <2>3, AccountSets DEF IInv, SessionsAnchored
    <2>5. Shifts(Nodes, ShownBy(q), ShownBy(q)', s.node, d)
      <3>1. ASSUME NEW n \in Nodes
            PROVE  ShownBy(q)'[n] = ShownBy(q)[n] + (IF n = s.node THEN d ELSE 0)
        <4>1. /\ ShownBy(q)'[n] = IF Registered(n)' /\ node'[n].provider = q
                                  THEN node'[n].total_settled ELSE 0
              /\ ShownBy(q)[n] = IF Registered(n) /\ node[n].provider = q
                                 THEN node[n].total_settled ELSE 0
          BY DEF ShownBy
        <4>2. ShownBy(q)[n] \in Int
          BY <1>2
        <4>3. CASE ~Registered(n)
          BY <2>3, <2>4, <4>1, <4>3 DEF Credits
        <4>4. CASE Registered(n)
          <5>1. /\ Registered(n)' /\ node'[n].provider = node[n].provider
                /\ node'[n].total_settled
                      = node[n].total_settled + (IF n = s.node THEN p ELSE 0)
            BY <2>3, <4>4 DEF Credits
          <5>2. n = s.node => ProviderOf(s) = node[n].provider
            BY DEF ProviderOf
          <5> QED
            BY <2>3, <4>1, <4>2, <4>4, <5>1, <5>2
        <4> QED BY <4>3, <4>4
      <3> HIDE DEF d
      <3> QED
        BY <1>2, <2>4, <3>1 DEF Shifts
    <2>6. Shifts(Assets, GainsOf(q), GainsOf(q)', a, d)
      <3>1. Share(s, p, f, r, q) = d
        BY <2>3, Roles DEF Share
      <3>2. ASSUME NEW b \in Assets
            PROVE  GainsOf(q)'[b] = GainsOf(q)[b] + (IF b = a THEN d ELSE 0)
        <4>1. ledger'[b][q] = ledger[b][q] + (IF b = a THEN d ELSE 0)
          BY <2>3, <3>1, Roles
        <4>2. ledger[b][q] \in Int /\ Funds \in Int
          BY <1>1, BookTypes, Roles, EscrowAssumption DEF BooksTyped
        <4>3. GainsOf(q)'[b] = ledger'[b][q] - Funds /\ GainsOf(q)[b] = ledger[b][q] - Funds
          BY DEF GainsOf, Gained
        <4> HIDE DEF d
        <4> QED
          BY <2>4, <4>1, <4>2, <4>3
      <3> HIDE DEF d
      <3> QED
        BY <1>2, <2>4, <3>2 DEF Shifts
    <2> HIDE DEF d
    <2>7. SumFunction(ShownBy(q)') = SumFunction(ShownBy(q)) + d
      BY <2>5, FiniteAssumption, SumShifts
    <2>8. SumFunction(GainsOf(q)') = SumFunction(GainsOf(q)) + d
      BY <2>6, FiniteBooks, SumShifts
    <2> QED
      BY <1>1, <2>7, <2>8
  <1>4. ASSUME NodesFresh, \A b \in Assets : ledger'[b][q] = ledger[b][q]
        PROVE  SumFunction(ShownBy(q)') = SumFunction(GainsOf(q)')
    BY <1>1, <1>4, EarningsUntouched
  <1>5. CASE OpensStep
    <2>1. PICK s \in Sessions, mint \in Mints \cup {None}, amount \in Amounts,
               duration \in Durations : Open(s, mint, amount, duration)
      BY <1>5 DEF OpensStep
    <2>2. /\ UNCHANGED registryVars
          /\ \A b \in Assets, t \in Accounts :
                ledger'[b][t] = ledger[b][t]
                                + (IF t = s THEN PaidIn(s, mint, amount, b) ELSE 0)
                                - (IF t = s.consumer THEN PaidIn(s, mint, amount, b) ELSE 0)
      BY <2>1, OpenOpens DEF Opens
    <2>3. q \in Accounts /\ q # s /\ q # s.consumer /\ \A b \in Assets : ledger[b][q] \in Int
      BY <1>1, Roles, BookTypes DEF BooksTyped
    <2>4. \A b \in Assets : ledger'[b][q] = ledger[b][q]
      BY <2>2, <2>3
    <2> QED
      BY <1>4, <2>2, <2>4, RegistryFresh
  <1>6. CASE WithdrawsStep
    <2>1. PICK amount : Withdraws(amount)
      BY <1>6 DEF WithdrawsStep
    <2>2. /\ UNCHANGED registryVars
          /\ \A b \in Assets, t \in Accounts \ {FeeVault, Treasury} : ledger'[b][t] = ledger[b][t]
      BY <2>1, WithdrawsEffect DEF Withdraws
    <2> QED
      BY <1>4, <2>2, Roles, RegistryFresh
  <1>7. CASE DisputesStep
    <2>1. UNCHANGED <<registryVars, ledger>>
      BY <1>7 DEF DisputesStep, Disputes
    <2> QED
      BY <1>4, <2>1, RegistryFresh
  <1>8. CASE MovesNothing
    BY <1>4, <1>8 DEF MovesNothing
  <1>9. CASE GivesStep
    <2>1. PICK a \in Assets, s \in Sessions : \E amount : Gives(a, s, amount)
      BY <1>9 DEF GivesStep
    <2>2. PICK amount : Gives(a, s, amount)
      BY <2>1
    <2>3. /\ UNCHANGED registryVars
          /\ \A b \in Assets, t \in Accounts \ {Outsider, s} : ledger'[b][t] = ledger[b][t]
      BY <2>2, GivesEffect DEF Gives
    <2>4. q \in Accounts \ {Outsider, s}
      BY Roles
    <2> QED
      BY <1>4, <2>3, <2>4, RegistryFresh
  <1> QED
    BY <1>3, <1>5, <1>6, <1>7, <1>8, <1>9, StepKinds

-----------------------------------------------------------------------------
(***************************************************************************)
(* Units.                                                                  *)
(***************************************************************************)

LEMMA UnitsInit == Init => UnitsCovered
  BY DEF Init, RegistryInit, Registered, UnitsCovered

\* A step that changes one session, whose units of n rise by at most what n is
\* credited.
LEMMA UnitsOfOneSession ==
    ASSUME IInv, IInv', NEW n \in Nodes, Registered(n), Registered(n)',
           node[n].total_units >= SumFunction(UnitsAt(n)),
           NEW s \in Sessions, \A t \in Sessions : t # s => session'[t] = session[t],
           NEW x \in Nat, UnitsAt(n)'[s] <= UnitsAt(n)[s] + x,
           node'[n].total_units = node[n].total_units + x
    PROVE  node'[n].total_units >= SumFunction(UnitsAt(n)')
  <1>1. UnitsAt(n) \in [Sessions -> Int] /\ UnitsAt(n)' \in [Sessions -> Int]
    BY BookTypes, BookTypesNext DEF IInv, BooksTyped
  <1> DEFINE d == UnitsAt(n)'[s] - UnitsAt(n)[s]
  <1>2. d \in Int /\ d <= x
    BY <1>1
  <1>3. ASSUME NEW t \in Sessions
        PROVE  UnitsAt(n)'[t] = UnitsAt(n)[t] + (IF t = s THEN d ELSE 0)
    <2>1. t # s => UnitsAt(n)'[t] = UnitsAt(n)[t]
      BY DEF UnitsAt, Exists, HasStatus
    <2> QED
      BY <1>1, <2>1
  <1> HIDE DEF d
  <1>4. Shifts(Sessions, UnitsAt(n), UnitsAt(n)', s, d)
    BY <1>1, <1>2, <1>3 DEF Shifts
  <1>5. /\ SumFunction(UnitsAt(n)) \in Int
        /\ SumFunction(UnitsAt(n)') = SumFunction(UnitsAt(n)) + d
    BY <1>4, FiniteBooks, SumShifts
  <1>6. node[n].total_units \in Int
    BY MathAssumption DEF IInv, TypeOK, RegistryTypeOK, Registered, Node, U64
  <1> QED
    BY <1>2, <1>5, <1>6

LEMMA UnitsKept ==
    ASSUME IInv, IInv', UnitsCovered, [Next]_vars
    PROVE  UnitsCovered'
  <1> SUFFICES ASSUME NEW n \in Nodes, Registered(n)'
               PROVE  node'[n].total_units >= SumFunction(UnitsAt(n)')
    BY DEF UnitsCovered
  <1>1. TypeOK /\ (Registered(n) => node[n].total_units >= SumFunction(UnitsAt(n)))
    BY DEF IInv, UnitsCovered
  <1>2. \A s \in Sessions : Exists(s) => session[s].pending_units \in Nat
    BY <1>1, SessionFields
  <1>3. Registered(n) => node[n].total_units \in Int
    BY <1>1, MathAssumption DEF TypeOK, RegistryTypeOK, Registered, Node, U64
  <1>4. CASE PaysStep
    <2>1. PICK a \in Assets, s \in Sessions : \E p, f, r, units, reward, record :
              Pays(a, s, p, f, r, units, reward, record)
      BY <1>4 DEF PaysStep
    <2>2. PICK p, f, r, units, reward, record : Pays(a, s, p, f, r, units, reward, record)
      BY <2>1
    <2>3. /\ session'[s] = IF ledger'[SOL][s] = 0 THEN Null ELSE record
          /\ \A t \in Sessions : t # s => session'[t] = session[t]
      BY <2>2, PaysEffect
    <2>4. /\ Live(s) /\ Credits(s, p, units, reward) /\ units \in Nat
          /\ record \in Session /\ record.status # "Closing"
          /\ record.pending_units <=
                units + (IF HasStatus(s, "Closing") THEN 0 ELSE session[s].pending_units)
      BY <2>2 DEF Pays
    <2>5. Exists(s)
      BY <2>4 DEF Live, HasStatus
    <2> DEFINE x == IF n = s.node THEN units ELSE 0
    <2>6. /\ Registered(n) /\ x \in Nat
          /\ node'[n].total_units = node[n].total_units + x
      BY <2>4 DEF Credits
    <2>7. UnitsAt(n)'[s] <= UnitsAt(n)[s] + x
      <3>1. /\ UnitsAt(n)'[s] = IF s.node = n /\ Exists(s)' /\ ~HasStatus(s, "Closing")'
                                THEN session'[s].pending_units ELSE 0
            /\ UnitsAt(n)[s] = IF s.node = n /\ ~HasStatus(s, "Closing")
                               THEN session[s].pending_units ELSE 0
        BY <2>5 DEF UnitsAt
      <3>2. /\ session[s].pending_units \in Nat /\ record.pending_units \in Nat
        BY <1>2, <2>4, <2>5, MathAssumption DEF Session, U64
      <3>3. CASE s.node # n
        BY <3>1, <3>3
      <3>4. CASE s.node = n /\ session'[s] = record
        BY <2>4, <3>1, <3>2, <3>4
      <3>5. CASE s.node = n /\ session'[s] = Null
        BY <2>4, <3>1, <3>2, <3>5 DEF Exists
      <3> QED
        BY <2>3, <3>3, <3>4, <3>5
    <2> HIDE DEF x
    <2> QED
      BY <1>1, <2>3, <2>6, <2>7, UnitsOfOneSession
  <1>5. ASSUME NEW s \in Sessions, \A t \in Sessions : t # s => session'[t] = session[t],
               UNCHANGED registryVars, UnitsAt(n)'[s] = 0
        PROVE  node'[n].total_units >= SumFunction(UnitsAt(n)')
    <2>1. Registered(n) /\ node'[n] = node[n]
      BY <1>5 DEF registryVars, Registered
    <2>2. 0 <= UnitsAt(n)[s]
      BY <1>2 DEF UnitsAt
    <2>3. UnitsAt(n)[s] \in Int
      BY <1>1, BookTypes DEF BooksTyped
    <2> DEFINE x == 0
    <2>4. UnitsAt(n)'[s] <= UnitsAt(n)[s] + x /\ x \in Nat
      BY <1>5, <2>2, <2>3
    <2>5. node'[n].total_units = node[n].total_units + x
      BY <1>3, <2>1
    <2> HIDE DEF x
    <2> QED
      BY <1>1, <1>5, <2>1, <2>4, <2>5, UnitsOfOneSession
  <1>6. CASE OpensStep
    <2>1. PICK s \in Sessions, mint \in Mints \cup {None}, amount \in Amounts,
               duration \in Durations : Open(s, mint, amount, duration)
      BY <1>6 DEF OpensStep
    <2>2. PICK record : Opens(s, mint, amount, record)
      BY <2>1, OpenOpens
    <2>3. /\ session'[s] = record /\ record.pending_units = 0 /\ UNCHANGED registryVars
          /\ \A t \in Sessions : t # s => session'[t] = session[t]
      BY <1>1, <2>2 DEF Opens, TypeOK
    <2>4. UnitsAt(n)'[s] = 0
      BY <2>3 DEF UnitsAt
    <2> QED
      BY <1>5, <2>3, <2>4
  <1>7. CASE DisputesStep
    <2>1. PICK s \in Sessions : \E record : Disputes(s, record)
      BY <1>7 DEF DisputesStep
    <2>2. PICK record : Disputes(s, record)
      BY <2>1
    <2>3. /\ session'[s] = record /\ record.status = "Closing" /\ UNCHANGED registryVars
          /\ \A t \in Sessions : t # s => session'[t] = session[t]
      BY <1>1, <2>2 DEF Disputes, TypeOK
    <2>4. UnitsAt(n)'[s] = 0
      BY <2>3 DEF UnitsAt, Exists, HasStatus
    <2> QED
      BY <1>5, <2>3, <2>4
  <1>8. CASE NodesFresh /\ UNCHANGED session
    <2>1. UnitsAt(n)' = UnitsAt(n)
      BY <1>8 DEF UnitsAt, Exists, HasStatus
    <2>2. CASE Registered(n)
      BY <1>1, <1>8, <2>1, <2>2 DEF NodesFresh
    <2>3. CASE ~Registered(n)
      <3>1. \A s \in Sessions : s.node = n => ~Exists(s)
        BY <2>3 DEF IInv, SessionsAnchored
      <3>2. UnitsAt(n) = [s \in Sessions |-> 0]
        BY <3>1 DEF UnitsAt
      <3>3. SumFunction(UnitsAt(n)) = 0
        BY <3>2, FiniteBooks, SumOfZeros
      <3>4. node'[n].total_units = 0
        BY <1>8, <2>3 DEF NodesFresh
      <3> QED
        BY <2>1, <3>3, <3>4
    <2> QED BY <2>2, <2>3
  <1>9. CASE WithdrawsStep \/ GivesStep
    <2>1. UNCHANGED registryVars /\ UNCHANGED session
      BY <1>9 DEF WithdrawsStep, Withdraws, GivesStep, Gives
    <2> QED
      BY <1>8, <2>1, RegistryFresh
  <1> QED
    BY <1>4, <1>6, <1>7, <1>8, <1>9, StepKinds DEF MovesNothing

\* Nothing is minted or lost: at any time the balances of each asset add up to
\* what the wallets began with, whatever instructions were executed.
THEOREM MoneyConserved == Spec => []Conservation
  <1>1. IInv /\ Conservation /\ [Next]_vars => Conservation'
    BY TotalsKept DEF Conservation
  <1> QED
    BY Inductive, ConservationInit, <1>1, PTL DEF Spec

\* The nodes of a provider show the earnings that the provider's wallets got, no
\* more and no less, over all assets and all its nodes.
THEOREM EarningsAreReal == Spec => []EarningsShown
  <1>1. IInv /\ IInv' /\ EarningsShown /\ [Next]_vars => EarningsShown'
    BY EarningsKept
  <1> QED
    BY Inductive, EarningsInit, <1>1, PTL DEF Spec

\* Every unit that a session which is not in dispute has settled is counted by
\* its node.
THEOREM UnitsAreCovered == Spec => []UnitsCovered
  <1>1. IInv /\ IInv' /\ UnitsCovered /\ [Next]_vars => UnitsCovered'
    BY UnitsKept
  <1> QED
    BY Inductive, UnitsInit, <1>1, PTL DEF Spec

-----------------------------------------------------------------------------
(***************************************************************************)
(* Fees.                                                                   *)
(***************************************************************************)

\* What each step does, in asset b, to what the providers and the protocol got.
FeesMove(b, x, y) ==
    /\ SumFunction(GainsIn(b)') = SumFunction(GainsIn(b)) + x
    /\ Fees(b)' = Fees(b) + y
    /\ x \in Nat /\ y \in Nat /\ y * BPS_DENOMINATOR <= MAX_FEE_BPS * (x + y)

\* A payout in asset a moves p and f.
LEMMA PayoutMovesFees ==
    ASSUME IInv, IInv', NEW a \in Assets, NEW b \in Assets, NEW s \in Sessions,
           ProviderOf(s) \in Providers,
           NEW p \in Nat, NEW f \in Nat, NEW r \in Nat,
           f * BPS_DENOMINATOR <= MAX_FEE_BPS * (p + f),
           \A t \in Accounts :
              ledger'[b][t] = ledger[b][t] + (IF b = a THEN Share(s, p, f, r, t) ELSE 0)
    PROVE  FeesMove(b, IF b = a THEN p ELSE 0, IF b = a THEN f ELSE 0)
  <1> DEFINE x == IF b = a THEN p ELSE 0
             y == IF b = a THEN f ELSE 0
  <1>1. /\ BooksTyped /\ BooksTyped'
    BY BookTypes, BookTypesNext DEF IInv
  <1>2. /\ GainsIn(b) \in [Providers -> Int] /\ GainsIn(b)' \in [Providers -> Int]
        /\ \A t \in Accounts : ledger[b][t] \in Int
        /\ Funds \in Int
    BY <1>1, Roles, EscrowAssumption DEF BooksTyped
  <1>3. x \in Nat /\ y \in Nat /\ y * BPS_DENOMINATOR <= MAX_FEE_BPS * (x + y)
    <2>1. CASE b = a
      BY <2>1
    <2>2. CASE b # a
      BY <2>2, MathAssumption
    <2> QED BY <2>1, <2>2
  <1>4. /\ \A q \in Providers : Share(s, p, f, r, q) = IF q = ProviderOf(s) THEN p ELSE 0
        /\ Share(s, p, f, r, FeeVault) = f /\ Share(s, p, f, r, Treasury) = 0
    BY Roles DEF Share
  <1>5. Shifts(Providers, GainsIn(b), GainsIn(b)', ProviderOf(s), x)
    <2>1. ASSUME NEW q \in Providers
          PROVE  GainsIn(b)'[q] = GainsIn(b)[q] + (IF q = ProviderOf(s) THEN x ELSE 0)
      <3>1. GainsIn(b)'[q] = ledger'[b][q] - Funds /\ GainsIn(b)[q] = ledger[b][q] - Funds
        BY DEF GainsIn, Gained
      <3>2. ledger'[b][q] = ledger[b][q] + (IF q = ProviderOf(s) THEN x ELSE 0)
        BY <1>2, <1>4, Roles
      <3>3. ledger[b][q] \in Int /\ x \in Int
        BY <1>2, <1>3, Roles
      <3> HIDE DEF x
      <3> QED
        BY <1>2, <3>1, <3>2, <3>3
    <2> HIDE DEF x
    <2> QED
      BY <1>2, <1>3, <2>1 DEF Shifts
  <1>6. Fees(b)' = Fees(b) + y
    <2>1. ledger'[b][FeeVault] = ledger[b][FeeVault] + y
      BY <1>4, Roles
    <2>2. ledger'[b][Treasury] = ledger[b][Treasury] + 0
      BY <1>4, Roles
    <2>3. y \in Int /\ ledger[b][FeeVault] \in Int /\ ledger[b][Treasury] \in Int
      BY <1>2, <1>3, Roles
    <2> HIDE DEF y
    <2> QED
      BY <2>1, <2>2, <2>3 DEF Fees
  <1> HIDE DEF x, y
  <1>7. SumFunction(GainsIn(b)') = SumFunction(GainsIn(b)) + x
    BY <1>5, FiniteBooks, SumShifts
  <1>8. FeesMove(b, x, y)
    BY <1>3, <1>6, <1>7 DEF FeesMove
  <1> QED
    BY <1>8 DEF x, y

\* No other step gives a provider anything or takes a fee.
LEMMA FeesUntouched ==
    ASSUME IInv, OpensStep \/ WithdrawsStep \/ GivesStep \/ DisputesStep \/ MovesNothing,
           NEW b \in Assets
    PROVE  GainsIn(b)' = GainsIn(b) /\ Fees(b)' = Fees(b)
  <1>1. /\ TypeOK /\ \A t \in Accounts : ledger[b][t] \in Int
    BY DEF IInv, TypeOK
  <1>2. ASSUME \A q \in Providers : ledger'[b][q] = ledger[b][q]
        PROVE  GainsIn(b)' = GainsIn(b)
    BY <1>2 DEF GainsIn, Gained
  <1>3. CASE OpensStep
    <2>1. PICK s \in Sessions, mint \in Mints \cup {None}, amount \in Amounts,
               duration \in Durations : Open(s, mint, amount, duration)
      BY <1>3 DEF OpensStep
    <2>2. \A t \in Accounts :
             ledger'[b][t] = ledger[b][t]
                             + (IF t = s THEN PaidIn(s, mint, amount, b) ELSE 0)
                             - (IF t = s.consumer THEN PaidIn(s, mint, amount, b) ELSE 0)
      BY <2>1, OpenOpens
    <2>3. \A t \in Accounts : t # s /\ t # s.consumer => ledger'[b][t] = ledger[b][t]
      BY <1>1, <2>2
    <2> QED
      BY <1>2, <2>3, Roles DEF Fees
  <1>4. CASE WithdrawsStep
    <2>1. PICK amount : Withdraws(amount)
      BY <1>4 DEF WithdrawsStep
    <2>2. /\ Fees(b)' = Fees(b)
          /\ \A t \in Accounts \ {FeeVault, Treasury} : ledger'[b][t] = ledger[b][t]
      BY <2>1, WithdrawsEffect
    <2> QED
      BY <1>2, <2>2, Roles
  <1>5. CASE GivesStep
    <2>1. PICK a \in Assets, s \in Sessions : \E amount : Gives(a, s, amount)
      BY <1>5 DEF GivesStep
    <2>2. PICK amount : Gives(a, s, amount)
      BY <2>1
    <2>3. /\ Fees(b)' = Fees(b)
          /\ \A t \in Accounts \ {Outsider, s} : ledger'[b][t] = ledger[b][t]
      BY <2>2, GivesEffect
    <2>4. \A q \in Providers : q \in Accounts \ {Outsider, s}
      BY Roles
    <2> QED
      BY <1>2, <2>3, <2>4
  <1>6. CASE UNCHANGED ledger
    BY <1>2, <1>6 DEF Fees
  <1> QED
    BY <1>3, <1>4, <1>5, <1>6 DEF DisputesStep, Disputes, MovesNothing

LEMMA FeesMoveStep ==
    ASSUME IInv, IInv', [Next]_vars, NEW b \in Assets
    PROVE  \E x, y : FeesMove(b, x, y)
  <1>1. CASE PaysStep
    <2>1. PICK a \in Assets, s \in Sessions : \E p, f, r, units, reward, record :
              Pays(a, s, p, f, r, units, reward, record)
      BY <1>1 DEF PaysStep
    <2>2. PICK p, f, r, units, reward, record : Pays(a, s, p, f, r, units, reward, record)
      BY <2>1
    <2>3. /\ p \in Nat /\ f \in Nat /\ r \in Nat
          /\ f * BPS_DENOMINATOR <= MAX_FEE_BPS * (p + f)
      BY <2>2 DEF Pays
    <2>4. /\ ProviderOf(s) \in Providers
          /\ \A t \in Accounts :
                ledger'[b][t] = ledger[b][t] + (IF b = a THEN Share(s, p, f, r, t) ELSE 0)
      BY <2>2, PaysEffect
    <2>5. FeesMove(b, IF b = a THEN p ELSE 0, IF b = a THEN f ELSE 0)
      BY <2>3, <2>4, PayoutMovesFees
    <2> QED
      BY <2>5
  <1>2. ASSUME GainsIn(b)' = GainsIn(b), Fees(b)' = Fees(b)
        PROVE  FeesMove(b, 0, 0)
    <2>1. /\ BooksTyped /\ GainsIn(b) \in [Providers -> Int]
      BY BookTypes DEF IInv, BooksTyped
    <2>2. Fees(b) \in Int
      BY <2>1, Roles DEF BooksTyped, Fees
    <2>3. SumFunction(GainsIn(b)) \in Int
      BY <2>1, FiniteBooks, SumTyped
    <2> QED
      BY <1>2, <2>2, <2>3, MathAssumption DEF FeesMove
  <1>3. CASE OpensStep \/ WithdrawsStep \/ GivesStep \/ DisputesStep \/ MovesNothing
    BY <1>2, <1>3, FeesUntouched
  <1> QED
    BY <1>1, <1>3, StepKinds

LEMMA FeesInit == Init => FeesWithinCap
  <1> SUFFICES ASSUME Init, NEW b \in Assets
               PROVE  Fees(b) * BPS_DENOMINATOR <=
                      MAX_FEE_BPS * (Fees(b) + SumFunction(GainsIn(b)))
    BY DEF FeesWithinCap
  <1>1. \A p \in Providers : Gained(b, p) = 0
    BY Roles, EscrowAssumption DEF Init, Gained
  <1>2. GainsIn(b) = [p \in Providers |-> 0]
    BY <1>1 DEF GainsIn
  <1>3. Fees(b) = 0
    BY Roles DEF Init, Fees
  <1>4. SumFunction(GainsIn(b)) = 0
    BY <1>2, FiniteBooks, SumOfZeros
  <1> QED
    BY <1>3, <1>4, MathAssumption

LEMMA FeesKept ==
    ASSUME IInv, IInv', FeesWithinCap, [Next]_vars
    PROVE  FeesWithinCap'
  <1> SUFFICES ASSUME NEW b \in Assets
               PROVE  Fees(b)' * BPS_DENOMINATOR <=
                      MAX_FEE_BPS * (Fees(b)' + SumFunction(GainsIn(b)'))
    BY DEF FeesWithinCap
  <1> DEFINE gains == SumFunction(GainsIn(b))
             fees == Fees(b)
             total == fees + gains
  <1>1. PICK x, y : FeesMove(b, x, y)
    BY FeesMoveStep
  <1>2. gains \in Int /\ fees \in Int
    <2>1. BooksTyped
      BY BookTypes DEF IInv
    <2>2. GainsIn(b) \in [Providers -> Int] /\ Fees(b) \in Int
      BY <2>1, Roles DEF BooksTyped, Fees
    <2> QED
      BY <2>2, FiniteBooks, SumTyped
  <1>3. fees * BPS_DENOMINATOR <= MAX_FEE_BPS * total
    BY DEF FeesWithinCap
  <1>4. /\ SumFunction(GainsIn(b)') = gains + x /\ Fees(b)' = fees + y
        /\ x \in Nat /\ y \in Nat /\ y * BPS_DENOMINATOR <= MAX_FEE_BPS * (x + y)
    BY <1>1 DEF FeesMove
  <1>5. Fees(b)' + SumFunction(GainsIn(b)') = total + (x + y) /\ total \in Int
    <2> HIDE DEF gains, fees
    <2> QED
      BY <1>2, <1>4
  <1> HIDE DEF gains, fees, total
  <1>6. ASSUME NEW z \in Int, y * BPS_DENOMINATOR <= MAX_FEE_BPS * z
        PROVE  (fees + y) * BPS_DENOMINATOR <= MAX_FEE_BPS * (total + z)
    <2>1. /\ (fees + y) * BPS_DENOMINATOR = fees * BPS_DENOMINATOR + y * BPS_DENOMINATOR
          /\ MAX_FEE_BPS * (total + z) = MAX_FEE_BPS * total + MAX_FEE_BPS * z
      BY <1>2, <1>4, <1>5, MathAssumption
    <2>2. /\ fees * BPS_DENOMINATOR \in Int /\ y * BPS_DENOMINATOR \in Int
          /\ MAX_FEE_BPS * total \in Int /\ MAX_FEE_BPS * z \in Int
      BY <1>2, <1>4, <1>5, MathAssumption
    <2> QED
      BY <1>3, <1>6, <2>1, <2>2
  <1>7. x + y \in Int
    BY <1>4
  <1> QED
    BY <1>4, <1>5, <1>6, <1>7

\* The protocol's share stays within the maximal fee, in every asset that is paid
\* out, also when the authority changes the fee between a deposit and its
\* settlements, and when a session is paid out in the wrong asset.
THEOREM FeesAreCapped == Spec => []FeesWithinCap
  <1>1. IInv /\ IInv' /\ FeesWithinCap /\ [Next]_vars => FeesWithinCap'
    BY FeesKept
  <1> QED
    BY Inductive, FeesInit, <1>1, PTL DEF Spec

-----------------------------------------------------------------------------
(***************************************************************************)
(* The books that balance as long as every session is paid out in the      *)
(* asset it was opened with.  The program does not see to that: its SOL    *)
(* handlers take any session, and its SPL handlers any token account of    *)
(* the vault authority.  A payout in the wrong asset leaves what the       *)
(* session really holds behind.                                            *)
(***************************************************************************)

\* What a step may lean on while the condition holds.
InKind == IInv /\ AllPaidInKind

LEMMA InKindStep == IInv /\ [Next /\ AllPaidInKind]_vars => InKind /\ [Next]_vars
  <1> SUFFICES ASSUME IInv, [Next /\ AllPaidInKind]_vars PROVE InKind /\ [Next]_vars
    OBVIOUS
  <1>1. CASE UNCHANGED vars
    <2>1. \A a \in Assets, s \in Sessions :
             ledger[a][s] \in Nat /\ ledger'[a][s] = ledger[a][s]
      BY <1>1, Roles DEF IInv, TypeOK, vars, escrowVars
    <2>2. \A a \in Assets, s \in Sessions : ~(ledger'[a][s] < ledger[a][s])
      BY <2>1
    <2> QED
      BY <1>1, <2>2 DEF InKind, AllPaidInKind, PaidInKind
  <1> QED
    BY <1>1 DEF InKind

\* A payout in kind is made in the asset of its session, if it moves anything, and
\* leaves the account in place.
LEMMA CleanPayout ==
    ASSUME IInv,
           NEW a \in Assets, NEW s \in Sessions, NEW p, NEW f, NEW r, NEW units,
           NEW reward, NEW record, Pays(a, s, p, f, r, units, reward, record),
           PaidInKind(s)
    PROVE  /\ session'[s] = record /\ record # Null
           /\ \A t \in Sessions : t # s => session'[t] = session[t]
           /\ AssetOf(s) \in Assets /\ ProviderOf(s) \in Providers
           /\ \A b \in Assets, t \in Accounts :
                 ledger'[b][t] = ledger[b][t]
                                 + (IF b = AssetOf(s) THEN Share(s, p, f, r, t) ELSE 0)
  <1> DEFINE old == session[s]
             paid == p + f + r
  <1>1. /\ ProviderOf(s) \in Providers
        /\ \A b \in Assets, t \in Accounts :
              ledger'[b][t] = ledger[b][t] + (IF b = a THEN Share(s, p, f, r, t) ELSE 0)
        /\ session'[s] = IF ledger'[SOL][s] = 0 THEN Null ELSE record
        /\ \A t \in Sessions : t # s => session'[t] = session[t]
    BY PaysEffect
  <1>2. /\ Live(s) /\ p \in Nat /\ f \in Nat /\ r \in Nat
        /\ record \in Session /\ p + f + r <= Unsettled(s)
    BY DEF Pays
  <1>3. Exists(s) /\ record # Null
    BY <1>2, EscrowAssumption DEF Live, HasStatus
  <1>4. /\ TypeOK /\ SOL \in Assets /\ s \in Accounts /\ SOL \notin Mints
        /\ old.mint \in Mints \cup {None} /\ SessionRent \in Nat \ {0}
        /\ old.deposited \in Nat /\ old.settled_to_provider \in Nat
    BY <1>3, SessionFields, Roles, EscrowAssumption DEF IInv
  <1>5. /\ \A b \in Assets, t \in Accounts : ledger[b][t] \in Nat
        /\ ledger[SOL][s] \in Nat /\ Unsettled(s) \in Int /\ paid \in Nat
        /\ AssetOf(s) \in Assets /\ ledger[a][s] \in Nat
    BY <1>2, <1>4, BookTypes, Roles DEF BooksTyped, Unsettled, AssetOf
  <1>6. Share(s, p, f, r, s) = - paid
    BY <1>1, <1>2, Roles DEF Share
  <1>7. /\ ledger'[SOL][s] = ledger[SOL][s] - (IF a = SOL THEN paid ELSE 0)
        /\ ledger'[a][s] = ledger[a][s] - paid
    <2> HIDE DEF paid
    <2> QED
      BY <1>1, <1>4, <1>5, <1>6
  <1>8. ledger[SOL][s] >= SessionRent
    BY <1>3 DEF IInv, EscrowBacked, Backed
  <1>9. CASE paid = 0
    <2>1. p = 0 /\ f = 0 /\ r = 0
      BY <1>2, <1>9
    <2>2. \A t : Share(s, p, f, r, t) = 0
      BY <2>1 DEF Share
    <2>3. \A b \in Assets, t \in Accounts :
             ledger'[b][t] = ledger[b][t]
                             + (IF b = AssetOf(s) THEN Share(s, p, f, r, t) ELSE 0)
      BY <1>1, <2>2
    <2>4. ledger'[SOL][s] # 0
      BY <1>4, <1>5, <1>7, <1>8, <1>9
    <2> QED
      BY <1>1, <1>3, <1>5, <2>3, <2>4
  <1>10. CASE paid > 0
    <2>1. AssetOf(s) = a
      <3>1. ledger'[a][s] < ledger[a][s]
        <4> HIDE DEF paid
        <4> QED
          BY <1>5, <1>7, <1>10
      <3> QED
        BY <1>3, <3>1 DEF PaidInKind
    <2>2. ledger'[SOL][s] # 0
      <3>1. CASE old.mint = None
        <4>1. ledger[SOL][s] >= SessionRent + Unsettled(s)
          BY <1>2, <1>3, <3>1 DEF IInv, EscrowBacked, Backed, Obligation
        <4> QED
          BY <1>2, <1>4, <1>5, <1>7, <4>1
      <3>2. CASE old.mint # None
        <4>1. a # SOL
          BY <1>4, <2>1, <3>2 DEF AssetOf
        <4> QED
          BY <1>4, <1>5, <1>7, <1>8, <4>1
      <3> QED BY <3>1, <3>2
    <2> QED
      BY <1>1, <1>3, <1>5, <2>1, <2>2
  <1> QED
    <2>1. paid = 0 \/ paid > 0
      BY <1>5
    <2> QED
      BY <1>9, <1>10, <2>1

\* A payout, as the books of one asset see it.
CleanPays(s, p, f, r, units, reward, record) ==
    /\ s \in Sessions /\ Live(s) /\ Exists(s) /\ ProviderOf(s) \in Providers
    /\ p \in Nat /\ f \in Nat /\ r \in Nat /\ units \in Nat /\ reward \in Nat
    /\ record \in Session /\ record # Null /\ session'[s] = record
    /\ record.mint = session[s].mint /\ record.deposited = session[s].deposited
    /\ record.settled_to_provider = session[s].settled_to_provider + (p + f)
    /\ f * BPS_DENOMINATOR <= MAX_FEE_BPS * (p + f)
    /\ record.status # "Closing"
    /\ IF record.status = "Open" THEN r = 0 ELSE p + f + r = Unsettled(s)
    /\ record.last_nonce >= session[s].last_nonce
    /\ Credits(s, p, units, reward) /\ Deserved(s, reward, record)
    /\ UNCHANGED cosigned
    /\ \A t \in Sessions : t # s => session'[t] = session[t]
    /\ \A b \in Assets, t \in Accounts :
          ledger'[b][t] = ledger[b][t] + (IF b = AssetOf(s) THEN Share(s, p, f, r, t) ELSE 0)

LEMMA PayoutIsClean ==
    ASSUME IInv, NEW a \in Assets, NEW s \in Sessions, NEW p, NEW f, NEW r, NEW units,
           NEW reward, NEW record, Pays(a, s, p, f, r, units, reward, record),
           PaidInKind(s)
    PROVE  CleanPays(s, p, f, r, units, reward, record)
  <1>1. /\ session'[s] = record /\ record # Null /\ ProviderOf(s) \in Providers
        /\ \A t \in Sessions : t # s => session'[t] = session[t]
        /\ \A b \in Assets, t \in Accounts :
              ledger'[b][t] = ledger[b][t]
                              + (IF b = AssetOf(s) THEN Share(s, p, f, r, t) ELSE 0)
    BY CleanPayout
  <1>2. /\ Live(s) /\ p \in Nat /\ f \in Nat /\ r \in Nat /\ units \in Nat /\ reward \in Nat
        /\ record \in Session
        /\ record.mint = session[s].mint /\ record.deposited = session[s].deposited
        /\ record.settled_to_provider = session[s].settled_to_provider + (p + f)
        /\ f * BPS_DENOMINATOR <= MAX_FEE_BPS * (p + f)
        /\ record.status # "Closing"
        /\ IF record.status = "Open" THEN r = 0 ELSE p + f + r = Unsettled(s)
        /\ record.last_nonce >= session[s].last_nonce
        /\ Credits(s, p, units, reward) /\ Deserved(s, reward, record)
        /\ UNCHANGED cosigned
    BY DEF Pays
  <1>3. Exists(s)
    BY <1>2 DEF Live, HasStatus
  <1> QED
    BY <1>1, <1>2, <1>3 DEF CleanPays

LEMMA CleanPaysStep ==
    ASSUME InKind, PaysStep
    PROVE  \E s, p, f, r, units, reward, record : CleanPays(s, p, f, r, units, reward, record)
  <1>1. PICK a \in Assets, s \in Sessions : \E p, f, r, units, reward, record :
            Pays(a, s, p, f, r, units, reward, record)
    BY DEF PaysStep
  <1>2. PICK p, f, r, units, reward, record : Pays(a, s, p, f, r, units, reward, record)
    BY <1>1
  <1>3. CleanPays(s, p, f, r, units, reward, record)
    BY <1>2, PayoutIsClean DEF InKind, AllPaidInKind
  <1> QED
    BY <1>3

\* A step that settles nothing: the sessions' settled amounts and assets stay.
LEMMA SettledUntouched ==
    ASSUME NEW b \in Assets,
           \A t \in Sessions :
              \/ session'[t] = session[t]
              \/ /\ ~Exists(t) /\ session'[t].settled_to_provider = 0
              \/ /\ Exists(t) /\ Exists(t)' /\ session'[t].mint = session[t].mint
                 /\ session'[t].settled_to_provider = session[t].settled_to_provider
    PROVE  SettledIn(b)' = SettledIn(b)
  <1>1. ASSUME NEW t \in Sessions
        PROVE  (IF Exists(t)' /\ AssetOf(t)' = b THEN session'[t].settled_to_provider ELSE 0)
               = (IF Exists(t) /\ AssetOf(t) = b THEN session[t].settled_to_provider ELSE 0)
    <2>1. CASE session'[t] = session[t]
      BY <2>1 DEF Exists, AssetOf
    <2>2. CASE ~Exists(t) /\ session'[t].settled_to_provider = 0
      BY <2>2
    <2>3. CASE /\ Exists(t) /\ Exists(t)' /\ session'[t].mint = session[t].mint
               /\ session'[t].settled_to_provider = session[t].settled_to_provider
      BY <2>3 DEF AssetOf
    <2> QED BY <2>1, <2>2, <2>3
  <1> QED
    BY <1>1 DEF SettledIn

\* What each step does to the three sums that the settled value is in.
SettledMoves(b, x, y) ==
    /\ FeesMove(b, x, y)
    /\ SumFunction(SettledIn(b)') = SumFunction(SettledIn(b)) + (x + y)

LEMMA SettledMovesStep ==
    ASSUME InKind, IInv', [Next]_vars, NEW b \in Assets
    PROVE  \E x, y : SettledMoves(b, x, y)
  <1> USE DEF InKind
  <1>1. /\ TypeOK /\ BooksTyped /\ BooksTyped'
    BY BookTypes, BookTypesNext DEF IInv
  <1>2. /\ SettledIn(b) \in [Sessions -> Int] /\ SettledIn(b)' \in [Sessions -> Int]
        /\ GainsIn(b) \in [Providers -> Int] /\ Fees(b) \in Int
    BY <1>1, Roles DEF BooksTyped, Fees
  <1>3. SumFunction(GainsIn(b)) \in Int /\ SumFunction(SettledIn(b)) \in Int
    BY <1>2, FiniteBooks, SumTyped
  <1>4. ASSUME OpensStep \/ WithdrawsStep \/ GivesStep \/ DisputesStep \/ MovesNothing,
               SettledIn(b)' = SettledIn(b)
        PROVE  SettledMoves(b, 0, 0)
    <2>1. GainsIn(b)' = GainsIn(b) /\ Fees(b)' = Fees(b)
      BY <1>4, FeesUntouched
    <2> QED
      BY <1>2, <1>3, <1>4, <2>1, MathAssumption DEF SettledMoves, FeesMove
  <1>5. CASE PaysStep
    <2>1. PICK s, p, f, r, units, reward, record : CleanPays(s, p, f, r, units, reward, record)
      BY <1>5, CleanPaysStep
    <2> DEFINE x == IF b = AssetOf(s) THEN p ELSE 0
               y == IF b = AssetOf(s) THEN f ELSE 0
    <2>2. /\ s \in Sessions /\ Exists(s) /\ ProviderOf(s) \in Providers
          /\ p \in Nat /\ f \in Nat /\ r \in Nat
          /\ record # Null /\ session'[s] = record /\ record.mint = session[s].mint
          /\ record.settled_to_provider = session[s].settled_to_provider + (p + f)
          /\ f * BPS_DENOMINATOR <= MAX_FEE_BPS * (p + f)
          /\ \A t \in Sessions : t # s => session'[t] = session[t]
          /\ \A t \in Accounts :
                ledger'[b][t] = ledger[b][t]
                                + (IF b = AssetOf(s) THEN Share(s, p, f, r, t) ELSE 0)
      BY <2>1 DEF CleanPays
    <2>3. AssetOf(s) \in Assets
      BY <1>1, <2>2, SessionFields, Roles DEF AssetOf
    <2>4. FeesMove(b, x, y)
      <3> DEFINE a == AssetOf(s)
      <3>1. /\ a \in Assets
            /\ \A t \in Accounts :
                  ledger'[b][t] = ledger[b][t] + (IF b = a THEN Share(s, p, f, r, t) ELSE 0)
        BY <2>2, <2>3
      <3>2. FeesMove(b, IF b = a THEN p ELSE 0, IF b = a THEN f ELSE 0)
        <4> HIDE DEF a
        <4> QED
          BY <2>2, <3>1, PayoutMovesFees
      <3> QED
        BY <3>2
    <2>5. x \in Nat /\ y \in Nat
      BY <2>2
    <2>6. Shifts(Sessions, SettledIn(b), SettledIn(b)', s, x + y)
      <3>1. ASSUME NEW t \in Sessions
            PROVE  SettledIn(b)'[t] = SettledIn(b)[t] + (IF t = s THEN x + y ELSE 0)
        <4>1. CASE t # s
          <5>1. SettledIn(b)'[t] = SettledIn(b)[t] /\ SettledIn(b)[t] \in Int
            BY <1>2, <2>2, <4>1 DEF SettledIn, Exists, AssetOf
          <5> QED
            BY <4>1, <5>1
        <4>2. CASE t = s
          <5>1. /\ SettledIn(b)'[s] = IF AssetOf(s) = b THEN record.settled_to_provider ELSE 0
                /\ SettledIn(b)[s] = IF AssetOf(s) = b THEN session[s].settled_to_provider ELSE 0
            BY <2>2 DEF SettledIn, Exists, AssetOf
          <5>2. session[s].settled_to_provider \in Int
            BY <1>1, <2>2, SessionFields
          <5> QED
            BY <2>2, <4>2, <5>1, <5>2
        <4> QED BY <4>1, <4>2
      <3>2. x + y \in Int
        BY <2>5
      <3> HIDE DEF x, y
      <3> QED
        BY <1>2, <2>2, <3>1, <3>2 DEF Shifts
    <2> HIDE DEF x, y
    <2>7. SumFunction(SettledIn(b)') = SumFunction(SettledIn(b)) + (x + y)
      <3> DEFINE d == x + y
      <3>1. Shifts(Sessions, SettledIn(b), SettledIn(b)', s, d)
        BY <2>6
      <3> HIDE DEF d
      <3>2. SumFunction(SettledIn(b)') = SumFunction(SettledIn(b)) + d
        BY <3>1, FiniteBooks, SumShifts
      <3> QED BY <3>2 DEF d
    <2>8. SettledMoves(b, x, y)
      BY <2>4, <2>7 DEF SettledMoves
    <2> QED BY <2>8
  <1>6. CASE OpensStep
    <2>1. PICK s \in Sessions, mint \in Mints \cup {None}, amount \in Amounts,
               duration \in Durations : Open(s, mint, amount, duration)
      BY <1>6 DEF OpensStep
    <2>2. PICK record : Opens(s, mint, amount, record)
      BY <2>1, OpenOpens
    <2>3. /\ ~Exists(s) /\ session'[s] = record /\ record.settled_to_provider = 0
          /\ \A t \in Sessions : t # s => session'[t] = session[t]
      BY <1>1, <2>2 DEF Opens, IInv, TypeOK
    <2>4. SettledIn(b)' = SettledIn(b)
      BY <2>3, SettledUntouched
    <2> QED
      BY <1>4, <1>6, <2>4
  <1>7. CASE DisputesStep
    <2>1. PICK s \in Sessions : \E record : Disputes(s, record)
      BY <1>7 DEF DisputesStep
    <2>2. PICK record : Disputes(s, record)
      BY <2>1
    <2>3. /\ session'[s] = record /\ record # Null /\ record.mint = session[s].mint
          /\ record.settled_to_provider = session[s].settled_to_provider
          /\ \A t \in Sessions : t # s => session'[t] = session[t]
          /\ Live(s)
      BY <1>1, <2>2, EscrowAssumption DEF Disputes, TypeOK
    <2>4. SettledIn(b)' = SettledIn(b)
      <3>1. Exists(s) /\ Exists(s)'
        BY <2>3 DEF Live, HasStatus, Exists
      <3> QED
        BY <2>3, <3>1, SettledUntouched
    <2> QED
      BY <1>4, <1>7, <2>4
  <1>8. CASE WithdrawsStep \/ GivesStep \/ MovesNothing
    <2>1. session' = session
      BY <1>8 DEF WithdrawsStep, Withdraws, GivesStep, Gives, MovesNothing
    <2>2. SettledIn(b)' = SettledIn(b)
      BY <2>1, SettledUntouched
    <2> QED
      BY <1>4, <1>8, <2>2
  <1> QED
    BY <1>5, <1>6, <1>7, <1>8, StepKinds

LEMMA SettledInit == Init => SettledIsPaid
  <1> SUFFICES ASSUME Init, NEW b \in Assets
               PROVE  SumFunction(GainsIn(b)) + Fees(b) = SumFunction(SettledIn(b))
    BY DEF SettledIsPaid
  <1>1. \A p \in Providers : Gained(b, p) = 0
    BY Roles, EscrowAssumption DEF Init, Gained
  <1>2. GainsIn(b) = [p \in Providers |-> 0]
    BY <1>1 DEF GainsIn
  <1>3. Fees(b) = 0
    BY Roles DEF Init, Fees
  <1>4. SettledIn(b) = [s \in Sessions |-> 0]
    BY DEF Init, SettledIn, Exists
  <1>5. SumFunction(GainsIn(b)) = 0
    BY <1>2, FiniteBooks, SumOfZeros
  <1>6. SumFunction(SettledIn(b)) = 0
    BY <1>4, FiniteBooks, SumOfZeros
  <1> QED
    BY <1>3, <1>5, <1>6

LEMMA SettledKept ==
    ASSUME InKind, IInv', SettledIsPaid, [Next]_vars
    PROVE  SettledIsPaid'
  <1> SUFFICES ASSUME NEW b \in Assets
               PROVE  SumFunction(GainsIn(b)') + Fees(b)' = SumFunction(SettledIn(b)')
    BY DEF SettledIsPaid
  <1> DEFINE gains == SumFunction(GainsIn(b))
             settled == SumFunction(SettledIn(b))
  <1>1. PICK x, y : SettledMoves(b, x, y)
    BY SettledMovesStep
  <1>2. /\ gains \in Int /\ settled \in Int /\ Fees(b) \in Int
    <2>1. BooksTyped
      BY BookTypes DEF InKind, IInv
    <2>2. /\ GainsIn(b) \in [Providers -> Int] /\ SettledIn(b) \in [Sessions -> Int]
          /\ Fees(b) \in Int
      BY <2>1, Roles DEF BooksTyped, Fees
    <2> QED
      BY <2>2, FiniteBooks, SumTyped
  <1>3. gains + Fees(b) = settled
    BY DEF SettledIsPaid
  <1>4. /\ SumFunction(GainsIn(b)') = gains + x /\ Fees(b)' = Fees(b) + y
        /\ SumFunction(SettledIn(b)') = settled + (x + y)
        /\ x \in Nat /\ y \in Nat
    BY <1>1 DEF SettledMoves, FeesMove
  <1> HIDE DEF gains, settled
  <1> QED
    BY <1>2, <1>3, <1>4

-----------------------------------------------------------------------------
(***************************************************************************)
(* Consumers.                                                              *)
(***************************************************************************)

\* What c has paid besides its outlays: the rents, or less of them.
RentPaid(c, b) == - Gained(b, c) - SumFunction(OutlaysOf(c, b))

WholeIn(c, b) ==
    RentPaid(c, b) >= 0 /\ RentPaid(c, b) <= SumFunction(RentsOf(c, b))

LEMMA WholeInit == Init => ConsumerMadeWhole
  <1> SUFFICES ASSUME Init, NEW c \in Consumers, NEW b \in Assets
               PROVE  WholeIn(c, b)
    BY DEF ConsumerMadeWhole, WholeIn, RentPaid
  <1>1. Gained(b, c) = 0
    BY Roles, EscrowAssumption DEF Init, Gained
  <1>2. OutlaysOf(c, b) = [s \in Sessions |-> 0]
    BY DEF Init, OutlaysOf, Exists
  <1>3. RentsOf(c, b) = [s \in Sessions |-> 0]
    BY DEF Init, RentsOf, Exists
  <1>4. SumFunction(OutlaysOf(c, b)) = 0 /\ SumFunction(RentsOf(c, b)) = 0
    BY <1>2, <1>3, FiniteBooks, SumOfZeros
  <1> QED
    BY <1>1, <1>4 DEF WholeIn, RentPaid

\* A step that changes one session: its consumer pays d, by which the session
\* costs more in asset b, and e, at most the rent g that it opens with.
LEMMA OutlayOfOneSession ==
    ASSUME IInv, IInv', NEW c \in Consumers, NEW b \in Assets, NEW s \in Sessions,
           \A t \in Sessions : t # s => session'[t] = session[t],
           WholeIn(c, b),
           NEW d \in Int, OutlaysOf(c, b)'[s] = OutlaysOf(c, b)[s] + d,
           NEW g \in Int, RentsOf(c, b)'[s] = RentsOf(c, b)[s] + g,
           NEW e \in Nat, e <= g,
           ledger'[b][c] = ledger[b][c] - d - e
    PROVE  WholeIn(c, b)'
  <1>1. /\ OutlaysOf(c, b) \in [Sessions -> Int] /\ OutlaysOf(c, b)' \in [Sessions -> Int]
        /\ RentsOf(c, b) \in [Sessions -> Int] /\ RentsOf(c, b)' \in [Sessions -> Int]
        /\ ledger[b][c] \in Int /\ Funds \in Int
    BY BookTypes, BookTypesNext, Roles, EscrowAssumption DEF IInv, BooksTyped
  <1>2. ASSUME NEW t \in Sessions, t # s
        PROVE  /\ OutlaysOf(c, b)'[t] = OutlaysOf(c, b)[t]
               /\ RentsOf(c, b)'[t] = RentsOf(c, b)[t]
    BY <1>2 DEF OutlaysOf, RentsOf, Outlay, Exists, Live, HasStatus, AssetOf
  <1>3. /\ Shifts(Sessions, OutlaysOf(c, b), OutlaysOf(c, b)', s, d)
        /\ Shifts(Sessions, RentsOf(c, b), RentsOf(c, b)', s, g)
    BY <1>1, <1>2 DEF Shifts
  <1>4. /\ SumFunction(OutlaysOf(c, b)) \in Int
        /\ SumFunction(OutlaysOf(c, b)') = SumFunction(OutlaysOf(c, b)) + d
    BY <1>3, FiniteBooks, SumShifts
  <1>5. /\ SumFunction(RentsOf(c, b)) \in Int
        /\ SumFunction(RentsOf(c, b)') = SumFunction(RentsOf(c, b)) + g
    BY <1>3, FiniteBooks, SumShifts
  <1>6. Gained(b, c)' = Gained(b, c) - d - e /\ Gained(b, c) \in Int
    BY <1>1 DEF Gained
  <1>7. RentPaid(c, b)' = RentPaid(c, b) + e /\ RentPaid(c, b) \in Int
    BY <1>4, <1>6 DEF RentPaid
  <1> QED
    BY <1>5, <1>7 DEF WholeIn

\* A session that stays keeps its rent.
LEMMA RentsStay ==
    ASSUME NEW c \in Consumers, NEW b \in Assets, NEW s \in Sessions, Exists(s), Exists(s)',
           NEW d \in Int, IInv, IInv',
           \A t \in Sessions : t # s => session'[t] = session[t],
           WholeIn(c, b), OutlaysOf(c, b)'[s] = OutlaysOf(c, b)[s] + d,
           ledger'[b][c] = ledger[b][c] - d
    PROVE  WholeIn(c, b)'
  <1> DEFINE none == 0
  <1>1. RentsOf(c, b)'[s] = RentsOf(c, b)[s] + none
    <2>1. RentsOf(c, b)[s] \in Int
      BY BookTypes DEF IInv, BooksTyped
    <2> QED
      BY <2>1 DEF RentsOf
  <1>2. ledger'[b][c] = ledger[b][c] - d - none /\ none \in Nat /\ none \in Int /\ none <= none
    BY Roles DEF IInv, TypeOK
  <1> HIDE DEF none
  <1> QED
    BY <1>1, <1>2, OutlayOfOneSession

LEMMA WholeKept ==
    ASSUME InKind, IInv', ConsumerMadeWhole, [Next]_vars
    PROVE  ConsumerMadeWhole'
  <1> USE DEF InKind
  <1> SUFFICES ASSUME NEW c \in Consumers, NEW b \in Assets
               PROVE  WholeIn(c, b)'
    BY DEF ConsumerMadeWhole, WholeIn, RentPaid
  <1>1. /\ TypeOK /\ WholeIn(c, b)
        /\ c \in Accounts /\ ledger[b][c] \in Int /\ SessionRent \in Int
    BY BookTypes, Roles, EscrowAssumption
       DEF IInv, ConsumerMadeWhole, WholeIn, RentPaid, BooksTyped
  <1>2. CASE PaysStep
    <2>1. PICK s, p, f, r, units, reward, record : CleanPays(s, p, f, r, units, reward, record)
      BY <1>2, CleanPaysStep
    <2>2. /\ s \in Sessions /\ Exists(s) /\ Live(s) /\ ProviderOf(s) \in Providers
          /\ p \in Nat /\ f \in Nat /\ r \in Nat
          /\ record # Null /\ session'[s] = record /\ record.mint = session[s].mint
          /\ record.deposited = session[s].deposited
          /\ record.settled_to_provider = session[s].settled_to_provider + (p + f)
          /\ record.status # "Closing"
          /\ IF record.status = "Open" THEN r = 0 ELSE p + f + r = Unsettled(s)
          /\ \A t \in Sessions : t # s => session'[t] = session[t]
          /\ \A t \in Accounts :
                ledger'[b][t] = ledger[b][t]
                                + (IF b = AssetOf(s) THEN Share(s, p, f, r, t) ELSE 0)
      BY <2>1 DEF CleanPays
    <2> DEFINE d == IF b = AssetOf(s) /\ s.consumer = c THEN -r ELSE 0
    <2>3. Share(s, p, f, r, c) = IF c = s.consumer THEN r ELSE 0
      BY <2>2, Roles DEF Share
    <2>4. d \in Int /\ ledger'[b][c] = ledger[b][c] - d
      BY <1>1, <2>2, <2>3
    <2>5. OutlaysOf(c, b)'[s] = OutlaysOf(c, b)[s] + d
      <3> DEFINE old == session[s]
      <3>2. /\ OutlaysOf(c, b)[s] =
                  IF s.consumer # c \/ b # AssetOf(s) THEN 0 ELSE old.deposited
            /\ OutlaysOf(c, b)'[s] =
                  IF s.consumer # c \/ b # AssetOf(s) THEN 0
                  ELSE IF record.status = "Open" THEN record.deposited
                  ELSE record.settled_to_provider
        BY <2>2 DEF OutlaysOf, Outlay, Exists, Live, HasStatus, AssetOf
      <3>3. /\ old.deposited \in Int /\ old.settled_to_provider \in Int
            /\ record.deposited = old.deposited
            /\ record.settled_to_provider = old.settled_to_provider + (p + f)
            /\ record.status # "Open" =>
                  old.settled_to_provider + (p + f) = old.deposited + -r
        BY <1>1, <2>2, SessionFields DEF Unsettled
      <3> HIDE DEF old
      <3> QED
        BY <2>2, <3>2, <3>3
    <2> HIDE DEF d
    <2>6. Exists(s)'
      BY <2>2 DEF Exists
    <2> QED
      BY <1>1, <2>2, <2>4, <2>5, <2>6, RentsStay
  <1>3. CASE OpensStep
    <2>1. PICK s \in Sessions, mint \in Mints \cup {None}, amount \in Amounts,
               duration \in Durations : Open(s, mint, amount, duration)
      BY <1>3 DEF OpensStep
    <2>2. PICK record : Opens(s, mint, amount, record)
      BY <2>1, OpenOpens
    <2>3. /\ ~Exists(s) /\ session'[s] = record /\ record # Null
          /\ record.mint = mint /\ record.deposited = amount /\ record.status = "Open"
          /\ \A t \in Sessions : t # s => session'[t] = session[t]
      BY <1>1, <2>2, EscrowAssumption DEF Opens, TypeOK
    <2>4. \A t \in Accounts :
             ledger'[b][t] = ledger[b][t]
                             + (IF t = s THEN PaidIn(s, mint, amount, b) ELSE 0)
                             - (IF t = s.consumer THEN PaidIn(s, mint, amount, b) ELSE 0)
      BY <2>1, OpenOpens
    <2> DEFINE x == DepositIn(mint, amount, b)
               y == RentIn(s, b)
               rent == IF b = SOL THEN SessionRent ELSE 0
               d == IF s.consumer = c THEN x ELSE 0
               e == IF s.consumer = c THEN y ELSE 0
               g == IF s.consumer = c THEN rent ELSE 0
    <2>5. x \in Nat /\ y \in Nat /\ rent \in Int /\ y <= rent
          /\ PaidIn(s, mint, amount, b) = x + y
      <3>1. x \in Nat /\ y \in Nat /\ y <= rent
        BY <1>1, PaidInIsInt, RentInRange
      <3> QED
        BY <1>1, <3>1 DEF PaidIn
    <2>6. ledger'[b][c] = ledger[b][c] - d - e
      <3>1. c # s
        BY Roles
      <3>2. ledger'[b][c] = ledger[b][c] + 0 - (IF c = s.consumer THEN x + y ELSE 0)
        BY <1>1, <2>4, <2>5, <3>1
      <3> HIDE DEF x, y
      <3> QED
        BY <1>1, <2>5, <3>2
    <2>7. OutlaysOf(c, b)'[s] = OutlaysOf(c, b)[s] + d
      <3>1. OutlaysOf(c, b)[s] = 0
        BY <2>3 DEF OutlaysOf
      <3>2. OutlaysOf(c, b)'[s] = IF s.consumer = c THEN Outlay(b, s)' ELSE 0
        BY <2>3 DEF OutlaysOf, Exists
      <3>3. Outlay(b, s)' = x
        BY <2>3, <2>5 DEF Outlay, Exists, Live, HasStatus, AssetOf, DepositIn
      <3> HIDE DEF x
      <3> QED
        BY <2>5, <3>1, <3>2, <3>3
    <2>8. RentsOf(c, b)'[s] = RentsOf(c, b)[s] + g
      <3>1. RentsOf(c, b)[s] = 0
        BY <2>3 DEF RentsOf
      <3>2. RentsOf(c, b)'[s] = g
        BY <2>3 DEF RentsOf, Exists
      <3> QED
        BY <2>5, <3>1, <3>2
    <2> HIDE DEF x, y, rent
    <2>9. d \in Int /\ e \in Nat /\ g \in Int /\ e <= g
      BY <2>5
    <2> HIDE DEF d, e, g
    <2> QED
      BY <1>1, <2>3, <2>6, <2>7, <2>8, <2>9, OutlayOfOneSession
  <1>4. ASSUME session' = session, ledger'[b][c] = ledger[b][c]
        PROVE  WholeIn(c, b)'
    BY <1>1, <1>4
       DEF WholeIn, RentPaid, Gained, OutlaysOf, RentsOf, Outlay, Exists, Live, HasStatus, AssetOf
  <1>5. CASE WithdrawsStep
    <2>1. PICK amount : Withdraws(amount)
      BY <1>5 DEF WithdrawsStep
    <2>2. /\ session' = session
          /\ \A t \in Accounts \ {FeeVault, Treasury} : ledger'[b][t] = ledger[b][t]
      BY <2>1, WithdrawsEffect DEF Withdraws
    <2> QED
      BY <1>4, <2>2, Roles
  <1>6. CASE DisputesStep
    <2>1. PICK s \in Sessions : \E record : Disputes(s, record)
      BY <1>6 DEF DisputesStep
    <2>2. PICK record : Disputes(s, record)
      BY <2>1
    <2>3. /\ session'[s] = record /\ record # Null /\ record.mint = session[s].mint
          /\ record.deposited = session[s].deposited /\ record.status = "Closing"
          /\ \A t \in Sessions : t # s => session'[t] = session[t]
          /\ ledger' = ledger /\ Live(s) /\ Exists(s)
      BY <1>1, <2>2, EscrowAssumption DEF Disputes, TypeOK, Live, HasStatus
    <2>4. OutlaysOf(c, b)'[s] = OutlaysOf(c, b)[s]
      BY <2>3 DEF OutlaysOf, Outlay, Exists, Live, HasStatus, AssetOf
    <2> DEFINE d == 0
    <2>5. OutlaysOf(c, b)[s] \in Int
      BY <1>1, BookTypes DEF BooksTyped
    <2>6. d \in Int /\ OutlaysOf(c, b)'[s] = OutlaysOf(c, b)[s] + d
          /\ ledger'[b][c] = ledger[b][c] - d
      BY <1>1, <2>3, <2>4, <2>5
    <2> HIDE DEF d
    <2>7. Exists(s)'
      BY <2>3 DEF Exists
    <2> QED
      BY <1>1, <2>3, <2>6, <2>7, RentsStay
  <1>7. CASE MovesNothing
    BY <1>4, <1>7 DEF MovesNothing
  <1>8. CASE GivesStep
    <2>1. PICK a \in Assets, s \in Sessions : \E amount : Gives(a, s, amount)
      BY <1>8 DEF GivesStep
    <2>2. PICK amount : Gives(a, s, amount)
      BY <2>1
    <2>3. /\ session' = session
          /\ \A t \in Accounts \ {Outsider, s} : ledger'[b][t] = ledger[b][t]
      BY <2>2, GivesEffect DEF Gives
    <2>4. c \in Accounts \ {Outsider, s}
      BY Roles
    <2> QED
      BY <1>4, <2>3, <2>4
  <1> QED
    BY <1>2, <1>3, <1>5, <1>6, <1>7, <1>8, StepKinds

-----------------------------------------------------------------------------
(***************************************************************************)
(* Rewards.                                                                *)
(***************************************************************************)

\* The updates of n's sessions that can earn no reward any more: an update the
\* session has moved past, or has settled at.
Spent(n) ==
    {u \in cosigned :
        /\ u.session.node = n /\ Exists(u.session)
        /\ u.nonce <= session[u.session].last_nonce
        /\ ~(HasStatus(u.session, "Closing") /\ u.nonce = session[u.session].last_nonce)}

\* A node has had at most one reward for each update that is spent.
RewardsSpent ==
    \A n \in Nodes : Registered(n) =>
        \E start \in InitReputations :
            node[n].reputation <= start + MaxReward * Cardinality(Spent(n))

FinitelySigned == IsFiniteSet(cosigned)

LEMMA SpentUpdates ==
    ASSUME TypeOK, FinitelySigned, NEW n \in Nodes
    PROVE  IsFiniteSet(Spent(n)) /\ Cardinality(Spent(n)) \in Nat
  <1>1. IsFiniteSet(Spent(n))
    BY FS_Subset DEF Spent, FinitelySigned
  <1> QED
    BY <1>1, FS_CardinalityType

LEMMA RewardsInit == Init => RewardsSpent /\ FinitelySigned
  BY FS_EmptySet DEF Init, RegistryInit, Registered, RewardsSpent, FinitelySigned

LEMMA SignedKept ==
    ASSUME IInv, FinitelySigned, [Next]_vars
    PROVE  FinitelySigned'
  <1>1. CASE cosigned' = cosigned
    BY <1>1 DEF FinitelySigned
  <1>2. CASE \E u : cosigned' = cosigned \cup {u}
    BY <1>2, FS_AddElement DEF FinitelySigned
  <1>3. PaysStep \/ OpensStep \/ WithdrawsStep \/ GivesStep \/ DisputesStep
        => cosigned' = cosigned
    <2>1. PaysStep => cosigned' = cosigned
      BY DEF PaysStep, Pays
    <2>2. OpensStep => cosigned' = cosigned
      BY DEF OpensStep, Open
    <2>3. WithdrawsStep \/ GivesStep \/ DisputesStep => cosigned' = cosigned
      BY DEF WithdrawsStep, Withdraws, GivesStep, Gives, DisputesStep, Disputes
    <2> QED
      BY <2>1, <2>2, <2>3
  <1> QED
    BY <1>1, <1>2, <1>3, StepKinds DEF MovesNothing

\* What is spent stays spent when the nonce of the one session that changes does
\* not fall, and rises if the session is then in dispute.
LEMMA SpentGrows ==
    ASSUME IInv, cosigned \subseteq cosigned', NEW s \in Sessions,
           \A t \in Sessions : t # s => session'[t] = session[t],
           Exists(s) => /\ session'[s] \in Session
                        /\ session'[s].last_nonce >= session[s].last_nonce
                        /\ \/ session'[s].status # "Closing"
                           \/ session'[s].last_nonce > session[s].last_nonce,
           NEW n \in Nodes
    PROVE  Spent(n) \subseteq Spent(n)'
  <1> SUFFICES ASSUME NEW u \in Spent(n)
               PROVE  u \in Spent(n)'
    OBVIOUS
  <1>1. /\ u \in cosigned' /\ u.session.node = n /\ Exists(u.session)
        /\ u.nonce <= session[u.session].last_nonce
        /\ ~(HasStatus(u.session, "Closing") /\ u.nonce = session[u.session].last_nonce)
    BY DEF Spent
  <1>2. TypeOK /\ u.session \in Sessions /\ u.nonce \in Nat
    BY MathAssumption DEF IInv, TypeOK, StateUpdate, Spent, U64
  <1>3. CASE u.session # s
    BY <1>1, <1>2, <1>3 DEF Spent, Exists, HasStatus
  <1>4. CASE u.session = s
    <2>1. /\ session'[s] \in Session /\ session'[s].last_nonce \in Nat
          /\ session[s].last_nonce \in Nat /\ Exists(s)'
      BY <1>1, <1>2, <1>4, SessionFields, MathAssumption, EscrowAssumption
         DEF Session, U64, Exists
    <2>2. u.nonce <= session'[s].last_nonce
      BY <1>1, <1>2, <1>4, <2>1
    <2>3. ~(HasStatus(s, "Closing")' /\ u.nonce = session'[s].last_nonce)
      BY <1>1, <1>2, <1>4, <2>1 DEF HasStatus
    <2> QED
      BY <1>1, <1>4, <2>1, <2>2, <2>3 DEF Spent
  <1> QED BY <1>3, <1>4

\* A node that is not rewarded, or whose reward spends one more update.
LEMMA RewardOfOneNode ==
    ASSUME IInv, IInv', FinitelySigned, FinitelySigned', NEW n \in Nodes,
           Registered(n), Registered(n)', Spent(n) \subseteq Spent(n)',
           NEW start \in InitReputations,
           node[n].reputation <= start + MaxReward * Cardinality(Spent(n)),
           \/ node'[n].reputation <= node[n].reputation
           \/ /\ node'[n].reputation <= node[n].reputation + MaxReward
              /\ \E u \in Spent(n)' : u \notin Spent(n)
    PROVE  node'[n].reputation <= start + MaxReward * Cardinality(Spent(n)')
  <1> DEFINE k == Cardinality(Spent(n))
             l == Cardinality(Spent(n)')
  <1>1. IsFiniteSet(Spent(n)) /\ k \in Nat
    BY SpentUpdates DEF IInv
  <1>2. IsFiniteSet(Spent(n)') /\ l \in Nat
    <2>1. IsFiniteSet(Spent(n)')
      BY FS_Subset DEF Spent, FinitelySigned
    <2> QED
      BY <2>1, FS_CardinalityType
  <1>3. k <= l
    BY <1>2, FS_Subset
  <1>4. ASSUME NEW u \in Spent(n)', u \notin Spent(n)
        PROVE  k + 1 <= l
    <2>1. Cardinality(Spent(n) \cup {u}) = k + 1
      BY <1>1, <1>4, FS_AddElement
    <2>2. Spent(n) \cup {u} \subseteq Spent(n)'
      BY <1>4
    <2>3. Cardinality(Spent(n) \cup {u}) <= l
      BY <1>2, <2>2, FS_Subset
    <2> QED
      BY <2>1, <2>3
  <1>5. /\ MaxReward \in Nat /\ start \in Int
        /\ node[n].reputation \in Int /\ node'[n].reputation \in Int
    BY MathAssumption, RegistryAssumption
       DEF MaxReward, IInv, TypeOK, RegistryTypeOK, Registered, Node, U32
  <1> HIDE DEF k, l
  <1>6. MaxReward * k \in Int /\ MaxReward * l \in Int /\ MaxReward * k <= MaxReward * l
    <2>1. \A i \in Nat, j \in Nat, m \in Nat : i <= j => m * i <= m * j
      OBVIOUS
    <2> QED
      BY <1>1, <1>2, <1>3, <1>5, <2>1
  <1>7. k + 1 <= l => MaxReward * k + MaxReward <= MaxReward * l
    <2>1. \A i \in Nat, j \in Nat, m \in Nat : i + 1 <= j => m * i + m <= m * j
      OBVIOUS
    <2> QED
      BY <1>1, <1>2, <1>5, <2>1
  <1>8. node[n].reputation <= start + MaxReward * k
    BY DEF k
  <1> DEFINE x == MaxReward * k
             y == MaxReward * l
  <1>9. /\ x \in Int /\ y \in Int /\ x <= y
        /\ node[n].reputation <= start + x
        /\ \/ node'[n].reputation <= node[n].reputation
           \/ node'[n].reputation <= node[n].reputation + MaxReward /\ x + MaxReward <= y
    BY <1>4, <1>6, <1>7, <1>8
  <1> HIDE DEF x, y
  <1>10. node'[n].reputation <= start + y
    BY <1>5, <1>9
  <1> QED
    BY <1>10 DEF y, l

LEMMA RewardsKept ==
    ASSUME IInv, IInv', NonePurged, RewardsSpent, FinitelySigned, [Next]_vars
    PROVE  RewardsSpent'
  <1> SUFFICES ASSUME NEW n \in Nodes, Registered(n)'
               PROVE  \E start \in InitReputations :
                          node'[n].reputation <= start + MaxReward * Cardinality(Spent(n)')
    BY DEF RewardsSpent
  <1>1. TypeOK /\ FinitelySigned'
    BY SignedKept DEF IInv
  <1>2. ASSUME Registered(n), Spent(n) \subseteq Spent(n)',
               \/ node'[n].reputation <= node[n].reputation
               \/ /\ node'[n].reputation <= node[n].reputation + MaxReward
                  /\ \E u \in Spent(n)' : u \notin Spent(n)
        PROVE  \E start \in InitReputations :
                   node'[n].reputation <= start + MaxReward * Cardinality(Spent(n)')
    <2>1. PICK start \in InitReputations :
                   node[n].reputation <= start + MaxReward * Cardinality(Spent(n))
      BY <1>2 DEF RewardsSpent
    <2>2. node'[n].reputation <= start + MaxReward * Cardinality(Spent(n)')
      BY <1>1, <1>2, <2>1, RewardOfOneNode
    <2> QED BY <2>2
  <1>3. ASSUME UNCHANGED registryVars, cosigned' = cosigned, NEW s \in Sessions,
               \A t \in Sessions : t # s => session'[t] = session[t],
               Exists(s) => /\ session'[s] \in Session
                            /\ session'[s].last_nonce >= session[s].last_nonce
                            /\ \/ session'[s].status # "Closing"
                               \/ session'[s].last_nonce > session[s].last_nonce
        PROVE  \E start \in InitReputations :
                   node'[n].reputation <= start + MaxReward * Cardinality(Spent(n)')
    <2>1. Registered(n) /\ node'[n] = node[n]
      BY <1>3 DEF registryVars, Registered
    <2>2. node'[n].reputation <= node[n].reputation
      <3>1. node[n].reputation \in Int
        BY <1>1, <2>1, MathAssumption DEF TypeOK, RegistryTypeOK, Registered, Node, U32
      <3> QED BY <2>1, <3>1
    <2>3. Spent(n) \subseteq Spent(n)'
      BY <1>3, SpentGrows
    <2> QED
      BY <1>2, <2>1, <2>2, <2>3
  <1>4. CASE PaysStep
    <2>1. PICK a \in Assets, s \in Sessions : \E p, f, r, units, reward, record :
              Pays(a, s, p, f, r, units, reward, record)
      BY <1>4 DEF PaysStep
    <2>a. PICK p, f, r, units, reward, record : Pays(a, s, p, f, r, units, reward, record)
      BY <2>1
    <2>b. /\ Exists(s) /\ reward \in Nat /\ record \in Session /\ record # Null
          /\ record.status # "Closing" /\ record.last_nonce >= session[s].last_nonce
          /\ Credits(s, p, units, reward) /\ Deserved(s, reward, record)
          /\ cosigned' = cosigned
      BY <2>a, EscrowAssumption DEF Pays, Live, HasStatus
    <2>c. /\ session'[s] = IF ledger'[SOL][s] = 0 THEN Null ELSE record
          /\ \A t \in Sessions : t # s => session'[t] = session[t]
      BY <2>a, PaysEffect
    <2>2. /\ s \in Sessions /\ Exists(s) /\ reward \in Nat
          /\ record \in Session /\ record # Null /\ session'[s] = record
          /\ record.status # "Closing" /\ record.last_nonce >= session[s].last_nonce
          /\ Credits(s, p, units, reward) /\ Deserved(s, reward, record)
          /\ cosigned' = cosigned
          /\ \A t \in Sessions : t # s => session'[t] = session[t]
      BY <2>b, <2>c DEF NonePurged
    <2>3. Spent(n) \subseteq Spent(n)'
      BY <2>2, SpentGrows
    <2>4. /\ Registered(n)
          /\ node'[n].reputation <= node[n].reputation + (IF n = s.node THEN reward ELSE 0)
      BY <2>2 DEF Credits
    <2>5. node[n].reputation \in Int /\ node'[n].reputation \in Int
      BY <2>4, MathAssumption
         DEF IInv, TypeOK, RegistryTypeOK, Registered, Node, U32
    <2>6. CASE n # s.node \/ reward = 0
      <3>1. node'[n].reputation <= node[n].reputation
        BY <2>4, <2>5, <2>6
      <3> QED
        BY <1>2, <2>3, <2>4, <3>1
    <2>7. CASE n = s.node /\ reward # 0
      <3>1. reward = MaxReward
        BY <2>2, <2>7 DEF Deserved
      <3>2. PICK u \in cosigned :
                /\ u.session = s /\ u.nonce = record.last_nonce
                /\ HasStatus(s, "Closing") \/ u.nonce > session[s].last_nonce
        BY <2>2, <2>7 DEF Deserved
      <3>3. record.last_nonce \in Nat /\ session[s].last_nonce \in Nat
        BY <1>1, <2>2, SessionFields, MathAssumption DEF Session, U64
      <3>4. u \in Spent(n)'
        BY <2>2, <2>7, <3>2, <3>3 DEF Spent, Exists, HasStatus
      <3>5. u \notin Spent(n)
        BY <2>2, <3>2, <3>3 DEF Spent
      <3> QED
        BY <1>2, <2>3, <2>4, <2>7, <3>1, <3>4, <3>5
    <2> QED BY <2>6, <2>7
  <1>5. CASE OpensStep
    <2>1. PICK s \in Sessions, mint \in Mints \cup {None}, amount \in Amounts,
               duration \in Durations : Open(s, mint, amount, duration)
      BY <1>5 DEF OpensStep
    <2>2. PICK record : Opens(s, mint, amount, record)
      BY <2>1, OpenOpens
    <2>3. /\ ~Exists(s) /\ UNCHANGED registryVars /\ cosigned' = cosigned
          /\ \A t \in Sessions : t # s => session'[t] = session[t]
      BY <1>1, <2>2 DEF Opens, TypeOK
    <2> QED
      BY <1>3, <2>3
  <1>6. CASE DisputesStep
    <2>1. PICK s \in Sessions : \E record : Disputes(s, record)
      BY <1>6 DEF DisputesStep
    <2>2. PICK record : Disputes(s, record)
      BY <2>1
    <2>3. /\ session'[s] = record /\ record \in Session /\ Exists(s)
          /\ record.last_nonce > session[s].last_nonce
          /\ UNCHANGED registryVars /\ cosigned' = cosigned
          /\ \A t \in Sessions : t # s => session'[t] = session[t]
      BY <1>1, <2>2 DEF Disputes, TypeOK, Live, HasStatus
    <2>4. record.last_nonce >= session[s].last_nonce
      <3>1. record.last_nonce \in Int /\ session[s].last_nonce \in Int
        BY <1>1, <2>3, SessionFields, MathAssumption DEF Session, U64
      <3> QED BY <2>3, <3>1
    <2> QED
      BY <1>3, <2>3, <2>4
  <1>7. CASE NodesFresh /\ session' = session /\ cosigned \subseteq cosigned'
    <2>1. Spent(n) \subseteq Spent(n)'
      BY <1>7 DEF Spent, Exists, HasStatus
    <2>2. CASE Registered(n)
      <3>1. node[n].reputation \in Int /\ node'[n].reputation = node[n].reputation
        BY <1>1, <1>7, <2>2, MathAssumption
           DEF NodesFresh, TypeOK, RegistryTypeOK, Registered, Node, U32
      <3>2. node'[n].reputation <= node[n].reputation
        BY <3>1
      <3> QED
        BY <1>2, <2>1, <2>2, <3>2
    <2>3. CASE ~Registered(n)
      <3>1. node'[n].reputation \in InitReputations
        BY <1>7, <2>3 DEF NodesFresh
      <3>2. node'[n].reputation \in Int /\ MaxReward \in Nat
        <4>1. node'[n].reputation \in U32
          BY <3>1, RegistryAssumption
        <4>2. U32 \subseteq Int /\ MaxReward \in Nat
          BY MathAssumption DEF U32, MaxReward
        <4> QED
          BY <4>1, <4>2
      <3> DEFINE k == Cardinality(Spent(n)')
      <3>3. k \in Nat
        <4>1. IsFiniteSet(Spent(n)')
          BY <1>1, FS_Subset DEF Spent, FinitelySigned
        <4> QED
          BY <4>1, FS_CardinalityType
      <3> HIDE DEF k
      <3>4. MaxReward * k \in Nat
        BY <3>2, <3>3
      <3>5. node'[n].reputation <= node'[n].reputation + MaxReward * k
        BY <3>2, <3>4
      <3> QED
        BY <3>1, <3>5 DEF k
    <2> QED BY <2>2, <2>3
  <1>8. CASE WithdrawsStep \/ GivesStep
    <2>1. UNCHANGED registryVars /\ UNCHANGED session /\ cosigned' = cosigned
      BY <1>8 DEF WithdrawsStep, Withdraws, GivesStep, Gives
    <2> QED
      BY <1>7, <2>1, RegistryFresh
  <1> QED
    BY <1>4, <1>5, <1>6, <1>7, <1>8, StepKinds DEF MovesNothing

-----------------------------------------------------------------------------
(***************************************************************************)
(* The theorems.                                                           *)
(***************************************************************************)

Books == SettledIsPaid /\ ConsumerMadeWhole

LEMMA BooksKept ==
    ASSUME IInv, IInv', Books, [Next /\ AllPaidInKind]_vars
    PROVE  Books'
  <1>1. InKind /\ [Next]_vars
    BY InKindStep
  <1> QED
    BY <1>1, SettledKept, WholeKept DEF Books

LEMMA InKindInductive == InKindSpec => Spec /\ []IInv
  <1>1. [Next /\ AllPaidInKind]_vars => [Next]_vars
    OBVIOUS
  <1> QED
    BY Inductive, <1>1, PTL DEF Spec, InKindSpec

LEMMA BooksBalance == InKindSpec => []Books
  <1>1. Init => Books
    BY SettledInit, WholeInit DEF Books
  <1>2. IInv /\ IInv' /\ Books /\ [Next /\ AllPaidInKind]_vars => Books'
    BY BooksKept
  <1> QED
    BY InKindInductive, <1>1, <1>2, PTL DEF InKindSpec

\* As long as every payout is in the asset of its session, what sessions have
\* settled is what providers and the protocol were paid, in every asset: no
\* checkpoint, close or challenge pays a unit twice or not at all.
THEOREM SettledPaidOnce == InKindSpec => []SettledIsPaid
  BY BooksBalance, PTL DEF Books

\* As long as every payout is in the asset of its session, a consumer has paid at
\* most the rents of its sessions, the deposits of the live ones and what the
\* ended ones settled: every refund was made.
THEOREM ConsumersMadeWhole == InKindSpec => []ConsumerMadeWhole
  BY BooksBalance, PTL DEF Books

Rewards == RewardsSpent /\ FinitelySigned

LEMMA RewardsInductive == Spec /\ [][NonePurged]_vars => []Rewards
  <1>1. Init => Rewards
    BY RewardsInit DEF Rewards
  <1>2. IInv /\ IInv' /\ Rewards /\ [Next]_vars /\ [NonePurged]_vars => Rewards'
    <2> SUFFICES ASSUME IInv, IInv', Rewards, [Next]_vars, [NonePurged]_vars
                 PROVE  Rewards'
      OBVIOUS
    <2>1. NonePurged
      BY DEF NonePurged, Exists, vars, escrowVars
    <2> QED
      BY <2>1, RewardsKept, SignedKept DEF Rewards
  <1> QED
    BY Inductive, <1>1, <1>2, PTL DEF Spec

\* As long as the runtime deletes no session account, a node's reputation is
\* within what its start and one reward for each update that was ever signed for
\* its sessions explain.
THEOREM EachStateRewardedOnce == Spec /\ [][NonePurged]_vars => []RewardedOnce
  <1>1. IInv /\ Rewards => RewardedOnce
    <2> SUFFICES ASSUME IInv, Rewards, NEW n \in Nodes, Registered(n)
                 PROVE  \E start \in InitReputations :
                            node[n].reputation <=
                            start + (REP_BASE_REWARD + REP_MAX_BONUS) *
                                    Cardinality({u \in cosigned : u.session.node = n})
      BY DEF RewardedOnce
    <2> DEFINE all == {u \in cosigned : u.session.node = n}
               k == Cardinality(Spent(n))
               l == Cardinality(all)
    <2>1. PICK start \in InitReputations : node[n].reputation <= start + MaxReward * k
      BY DEF Rewards, RewardsSpent
    <2>2. k \in Nat /\ l \in Nat /\ k <= l
      <3>1. IsFiniteSet(all) /\ Spent(n) \subseteq all
        BY FS_Subset DEF Rewards, FinitelySigned, Spent
      <3>2. IsFiniteSet(Spent(n)) /\ Cardinality(Spent(n)) <= Cardinality(all)
        BY <3>1, FS_Subset
      <3> QED
        BY <3>1, <3>2, FS_CardinalityType
    <2>3. /\ MaxReward \in Nat /\ start \in Int /\ node[n].reputation \in Int
      <3>1. start \in U32 /\ node[n].reputation \in U32
        BY RegistryAssumption DEF IInv, TypeOK, RegistryTypeOK, Registered, Node
      <3>2. U32 \subseteq Int /\ MaxReward \in Nat
        BY MathAssumption DEF U32, MaxReward
      <3> QED
        BY <3>1, <3>2
    <2> HIDE DEF k, l
    <2>4. MaxReward * k \in Int /\ MaxReward * l \in Int /\ MaxReward * k <= MaxReward * l
      <3>1. \A i \in Nat, j \in Nat, m \in Nat : i <= j => m * i <= m * j
        OBVIOUS
      <3> QED
        BY <2>2, <2>3, <3>1
    <2> DEFINE x == MaxReward * k
               y == MaxReward * l
    <2>5. x \in Int /\ y \in Int /\ x <= y /\ node[n].reputation <= start + x
      BY <2>1, <2>4
    <2> HIDE DEF x, y
    <2>6. node[n].reputation <= start + y
      BY <2>3, <2>5
    <2> QED
      BY <2>6 DEF y, l, MaxReward
  <1> QED
    BY Inductive, RewardsInductive, <1>1, PTL

\* Only a payout can leave a session account without lamports.
LEMMA OnlyPayoutsPurge ==
    ASSUME IInv, [Next]_vars, ~PaysStep
    PROVE  NonePurged
  <1>1. TypeOK
    BY DEF IInv
  <1>2. CASE OpensStep
    <2>1. PICK s \in Sessions, mint \in Mints \cup {None}, amount \in Amounts,
               duration \in Durations : Open(s, mint, amount, duration)
      BY <1>2 DEF OpensStep
    <2>2. PICK record : Opens(s, mint, amount, record)
      BY <2>1, OpenOpens
    <2>3. ~Exists(s) /\ \A t \in Sessions : t # s => session'[t] = session[t]
      BY <1>1, <2>2 DEF Opens, TypeOK
    <2> QED
      BY <2>3 DEF NonePurged, Exists
  <1>3. CASE DisputesStep
    <2>1. PICK s \in Sessions : \E record : Disputes(s, record)
      BY <1>3 DEF DisputesStep
    <2>2. PICK record : Disputes(s, record)
      BY <2>1
    <2>3. /\ session'[s] = record /\ record # Null
          /\ \A t \in Sessions : t # s => session'[t] = session[t]
      BY <1>1, <2>2, EscrowAssumption DEF Disputes, TypeOK
    <2> QED
      BY <2>3 DEF NonePurged, Exists
  <1>4. CASE session' = session
    BY <1>4 DEF NonePurged, Exists
  <1> QED
    BY <1>2, <1>3, <1>4, StepKinds
       DEF WithdrawsStep, Withdraws, GivesStep, Gives, MovesNothing

\* A payout in the asset of its session leaves the account its rent.
LEMMA InKindKeepsAccounts == InKindSpec => [][NonePurged]_vars
  <1>1. IInv /\ [Next /\ AllPaidInKind]_vars => NonePurged
    <2> SUFFICES ASSUME IInv, [Next /\ AllPaidInKind]_vars, NEW t \in Sessions, Exists(t)
                 PROVE  session'[t] # Null
      BY DEF NonePurged
    <2>1. InKind /\ [Next]_vars /\ TypeOK
      BY InKindStep DEF IInv
    <2>2. CASE PaysStep
      BY <2>1, <2>2, CleanPaysStep DEF CleanPays, Exists
    <2>3. CASE ~PaysStep
      BY <2>1, <2>3, OnlyPayoutsPurge DEF NonePurged
    <2> QED BY <2>2, <2>3
  <1> QED
    BY InKindInductive, <1>1, PTL DEF InKindSpec

\* As long as every payout is in the asset of its session, no state is rewarded
\* twice.
THEOREM EachStateRewardedOnceInKind == InKindSpec => []RewardedOnce
  BY InKindInductive, InKindKeepsAccounts, EachStateRewardedOnce, PTL

\* When no token deposit is as large as the rent, no payout empties an account,
\* whatever asset it is made in.
DepositsBelowRent == Mints = {} \/ \A amount \in Amounts : amount < SessionRent

DepositsOffered == \A s \in Sessions : Exists(s) => session[s].deposited \in Amounts

LEMMA DepositsKept ==
    ASSUME IInv, DepositsOffered, [Next]_vars
    PROVE  DepositsOffered'
  <1>1. ASSUME NEW s \in Sessions, NEW record, session'[s] \in {record, Null},
               record.deposited \in Amounts,
               \A t \in Sessions : t # s => session'[t] = session[t]
        PROVE  DepositsOffered'
    BY <1>1 DEF DepositsOffered, Exists
  <1>2. CASE PaysStep
    <2>1. PICK a \in Assets, s \in Sessions : \E p, f, r, units, reward, record :
              Pays(a, s, p, f, r, units, reward, record)
      BY <1>2 DEF PaysStep
    <2>2. PICK p, f, r, units, reward, record : Pays(a, s, p, f, r, units, reward, record)
      BY <2>1
    <2>3. /\ session'[s] = IF ledger'[SOL][s] = 0 THEN Null ELSE record
          /\ \A t \in Sessions : t # s => session'[t] = session[t]
      BY <2>2, PaysEffect
    <2>4. Live(s) /\ record.deposited = session[s].deposited
      BY <2>2 DEF Pays
    <2>5. record.deposited \in Amounts
      BY <2>4 DEF DepositsOffered, Live, HasStatus
    <2> QED
      BY <1>1, <2>3, <2>5
  <1>3. CASE OpensStep
    <2>1. PICK s \in Sessions, mint \in Mints \cup {None}, amount \in Amounts,
               duration \in Durations : Open(s, mint, amount, duration)
      BY <1>3 DEF OpensStep
    <2>2. PICK record : Opens(s, mint, amount, record)
      BY <2>1, OpenOpens
    <2>3. /\ session'[s] = record /\ record.deposited \in Amounts
          /\ \A t \in Sessions : t # s => session'[t] = session[t]
      BY <2>2 DEF Opens, IInv, TypeOK
    <2> QED
      BY <1>1, <2>3
  <1>4. CASE DisputesStep
    <2>1. PICK s \in Sessions : \E record : Disputes(s, record)
      BY <1>4 DEF DisputesStep
    <2>2. PICK record : Disputes(s, record)
      BY <2>1
    <2>3. /\ session'[s] = record /\ record.deposited = session[s].deposited
          /\ \A t \in Sessions : t # s => session'[t] = session[t]
          /\ Exists(s)
      BY <2>2 DEF Disputes, IInv, TypeOK, Live, HasStatus
    <2>4. record.deposited \in Amounts
      BY <2>3 DEF DepositsOffered
    <2> QED
      BY <1>1, <2>3, <2>4
  <1>5. CASE session' = session
    BY <1>5 DEF DepositsOffered, Exists
  <1> QED
    BY <1>2, <1>3, <1>4, <1>5, StepKinds
       DEF WithdrawsStep, Withdraws, GivesStep, Gives, MovesNothing

LEMMA PayoutLeavesRent ==
    ASSUME DepositsBelowRent, IInv, DepositsOffered,
           NEW a \in Assets, NEW s \in Sessions, NEW p, NEW f, NEW r, NEW units,
           NEW reward, NEW record, Pays(a, s, p, f, r, units, reward, record)
    PROVE  ledger'[SOL][s] # 0
  <1> DEFINE paid == p + f + r
  <1>1. /\ Live(s) /\ p \in Nat /\ f \in Nat /\ r \in Nat /\ paid <= Unsettled(s)
        /\ PaysFrom(a, s)
    BY DEF Pays
  <1>2. TypeOK /\ Exists(s)
    BY <1>1 DEF IInv, Live, HasStatus
  <1>3. /\ session[s].mint \in Mints \cup {None} /\ session[s].deposited \in Amounts
        /\ session[s].deposited \in Nat /\ session[s].settled_to_provider \in Nat
        /\ SOL \in Assets /\ s \in Accounts /\ ledger[SOL][s] \in Nat
        /\ SessionRent \in Nat \ {0}
    BY <1>2, SessionFields, Roles, EscrowAssumption DEF DepositsOffered, TypeOK
  <1>4. /\ ProviderOf(s) \in Providers
        /\ ledger'[SOL][s] = ledger[SOL][s] + (IF SOL = a THEN Share(s, p, f, r, s) ELSE 0)
    BY <1>3, PaysEffect
  <1>5. Share(s, p, f, r, s) = - paid
    BY <1>1, <1>4, Roles DEF Share
  <1>6. paid \in Nat /\ Unsettled(s) \in Int
    BY <1>1, <1>3 DEF Unsettled
  <1>7. ledger[SOL][s] >= SessionRent
    BY <1>2 DEF IInv, EscrowBacked, Backed
  <1>8. CASE session[s].mint = None
    <2>1. ledger[SOL][s] >= SessionRent + Unsettled(s)
      BY <1>1, <1>2, <1>8 DEF IInv, EscrowBacked, Backed, Obligation
    <2> HIDE DEF paid
    <2> QED
      BY <1>1, <1>3, <1>4, <1>5, <1>6, <2>1
  <1>9. CASE session[s].mint # None
    <2>1. session[s].deposited < SessionRent
      BY <1>3, <1>9 DEF DepositsBelowRent
    <2>2. Unsettled(s) < SessionRent
      BY <1>3, <2>1 DEF Unsettled
    <2> HIDE DEF paid
    <2> QED
      BY <1>1, <1>3, <1>4, <1>5, <1>6, <1>7, <2>2
  <1> QED
    BY <1>8, <1>9

LEMMA AccountsKeptBelowRent ==
    ASSUME DepositsBelowRent
    PROVE  Spec => [][NonePurged]_vars
  <1>1. Init => DepositsOffered
    BY DEF Init, DepositsOffered, Exists
  <1>2. IInv /\ DepositsOffered /\ [Next]_vars => DepositsOffered'
    BY DepositsKept
  <1>3. IInv /\ DepositsOffered /\ [Next]_vars => NonePurged
    <2> SUFFICES ASSUME IInv, DepositsOffered, [Next]_vars
                 PROVE  NonePurged
      OBVIOUS
    <2>1. CASE PaysStep
      <3>1. PICK a \in Assets, s \in Sessions : \E p, f, r, units, reward, record :
                Pays(a, s, p, f, r, units, reward, record)
        BY <2>1 DEF PaysStep
      <3>2. PICK p, f, r, units, reward, record : Pays(a, s, p, f, r, units, reward, record)
        BY <3>1
      <3>3. ledger'[SOL][s] # 0
        BY <3>2, PayoutLeavesRent
      <3>4. /\ session'[s] = IF ledger'[SOL][s] = 0 THEN Null ELSE record
            /\ \A t \in Sessions : t # s => session'[t] = session[t]
        BY <3>2, PaysEffect
      <3>5. record \in Session
        BY <3>2 DEF Pays
      <3> QED
        BY <3>3, <3>4, <3>5, EscrowAssumption DEF NonePurged, Exists
    <2> QED
      BY <2>1, OnlyPayoutsPurge
  <1> QED
    BY Inductive, <1>1, <1>2, <1>3, PTL DEF Spec

\* Where the rent of a session is more than any deposit, or no token is offered,
\* no state is rewarded twice, whatever assets the payouts are made in.
THEOREM EachStateRewardedOnceBelowRent ==
    ASSUME DepositsBelowRent
    PROVE  Spec => []RewardedOnce
  BY AccountsKeptBelowRent, EachStateRewardedOnce, PTL
=============================================================================
