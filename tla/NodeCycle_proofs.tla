--------------------------- MODULE NodeCycle_proofs ---------------------------
(***************************************************************************)
(* For every set of nodes and every inventory to start from: the preview's *)
(* word on the quorum still holds when the host is shut down, and its word *)
(* on capacity holds while the tasks of the drained node find new places.  *)
(***************************************************************************)
EXTENDS NodeCycle, FiniteSetTheorems, WellFoundedInduction, TLAPS

-----------------------------------------------------------------------------
(* QuorumInv: nothing that happens after the drain, an election least of   *)
(* all, changes which of the other managers are healthy.                   *)

Remaining == { n \in Managers \ {Target} : ManagerHealthy(n, "active") }

QuorumInv ==
  /\ IsNodes(nodes)
  /\ stage = "offline" => preview.offline
  /\ stage \in {"drained", "offline"} /\ preview.offline /\ IsManager(Target) => KeepsQuorum

(* What the invariant says of the nodes depends only on who is a manager   *)
(* and which of the others are healthy.                                    *)
LEMMA QuorumPreserved ==
  ASSUME QuorumInv, IsNodes(nodes'),
         Managers' = Managers, Remaining' = Remaining,
         stage' = "offline" => preview'.offline,
         stage' \in {"drained", "offline"} /\ preview'.offline
           => stage \in {"drained", "offline"} /\ preview.offline
  PROVE  QuorumInv'
<1>1. IsManager(Target)' <=> IsManager(Target)
  BY PlacementAssumption DEF Managers
<1>2. KeepsQuorum' <=> KeepsQuorum
  BY DEF KeepsQuorum, Remaining, Majority
<1> QED BY <1>1, <1>2 DEF QuorumInv

(* Changes of the target itself, while it stays a manager or a worker. *)
LEMMA TargetAlone ==
  ASSUME IsNodes(nodes), IsNodes(nodes'),
         \A n \in Node \ {Target} : nodes'[n] = nodes[n],
         nodes'[Target].standing = "worker" <=> nodes[Target].standing = "worker"
  PROVE  Managers' = Managers /\ Remaining' = Remaining
<1>1. Managers' = Managers
  BY DEF Managers, IsManager
<1>2. \A n \in Managers \ {Target} : n \in Node \ {Target}
  BY DEF Managers
<1> QED BY <1>1, <1>2 DEF Remaining, ManagerHealthy, InOffice

(* The three ways in which a step changes the target. *)
LEMMA TargetUpdated ==
  ASSUME IsNodes(nodes), NEW value, SetTarget("availability", value)
  PROVE  IsNodes(nodes') /\ Managers' = Managers /\ Remaining' = Remaining
<1>1. nodes' = [nodes EXCEPT ![Target].availability = value]
  BY DEF SetTarget
<1>2. IsNodes(nodes')
  BY <1>1 DEF IsNodes, NodeFields
<1>3. /\ \A n \in Node \ {Target} : nodes'[n] = nodes[n]
      /\ nodes'[Target].standing = nodes[Target].standing
  BY <1>1, PlacementAssumption DEF IsNodes, NodeFields
<1> QED BY <1>2, <1>3, TargetAlone

LEMMA TargetStops ==
  ASSUME IsNodes(nodes), TakeOffline
  PROVE  IsNodes(nodes') /\ Managers' = Managers /\ Remaining' = Remaining
<1>1. nodes' = [nodes EXCEPT ![Target].ready = FALSE,
                             ![Target].standing = IF @ = "worker" THEN @ ELSE "unreachable"]
  BY DEF TakeOffline
<1>2. IsNodes(nodes')
  BY <1>1 DEF IsNodes, NodeFields
<1>3. \A n \in Node \ {Target} : nodes'[n] = nodes[n]
  BY <1>1 DEF IsNodes
<1>4. nodes'[Target].standing = IF nodes[Target].standing = "worker"
                                  THEN nodes[Target].standing ELSE "unreachable"
  <2> DEFINE stopped == [nodes[Target] EXCEPT !.ready = FALSE]
  <2>1. nodes[Target] = [field \in NodeFields |-> nodes[Target][field]]
    BY PlacementAssumption DEF IsNodes
  <2>2. stopped.standing = nodes[Target].standing
    BY <2>1 DEF NodeFields
  <2>3. nodes'[Target] = [stopped EXCEPT !.standing = IF @ = "worker" THEN @ ELSE "unreachable"]
    BY <1>1, PlacementAssumption DEF IsNodes
  <2>4. stopped = [field \in NodeFields |-> stopped[field]]
    BY <2>1
  <2> QED BY <2>2, <2>3, <2>4 DEF NodeFields
<1>5. nodes'[Target].standing = "worker" <=> nodes[Target].standing = "worker"
  BY <1>4
<1> QED BY <1>2, <1>3, <1>5, TargetAlone

LEMMA TargetComesBack ==
  ASSUME IsNodes(nodes), HostReturns
  PROVE  IsNodes(nodes') /\ Managers' = Managers /\ Remaining' = Remaining
<1>1. nodes' = [nodes EXCEPT ![Target].ready = TRUE,
                             ![Target].standing = IF @ = "worker" THEN @ ELSE "reachable"]
  BY DEF HostReturns
<1>2. IsNodes(nodes')
  BY <1>1 DEF IsNodes, NodeFields
<1>3. \A n \in Node \ {Target} : nodes'[n] = nodes[n]
  BY <1>1 DEF IsNodes
<1>4. nodes'[Target].standing = IF nodes[Target].standing = "worker"
                                  THEN nodes[Target].standing ELSE "reachable"
  <2> DEFINE stopped == [nodes[Target] EXCEPT !.ready = TRUE]
  <2>1. nodes[Target] = [field \in NodeFields |-> nodes[Target][field]]
    BY PlacementAssumption DEF IsNodes
  <2>2. stopped.standing = nodes[Target].standing
    BY <2>1 DEF NodeFields
  <2>3. nodes'[Target] = [stopped EXCEPT !.standing = IF @ = "worker" THEN @ ELSE "reachable"]
    BY <1>1, PlacementAssumption DEF IsNodes
  <2>4. stopped = [field \in NodeFields |-> stopped[field]]
    BY <2>1
  <2> QED BY <2>2, <2>3, <2>4 DEF NodeFields
<1>5. nodes'[Target].standing = "worker" <=> nodes[Target].standing = "worker"
  BY <1>4
<1> QED BY <1>2, <1>3, <1>5, TargetAlone

(* An election changes who leads, not who is in office. *)
LEMMA ElectionKeepsOffices ==
  ASSUME IsNodes(nodes), NEW elected \in Node, Elect(elected)
  PROVE  IsNodes(nodes') /\ Managers' = Managers /\ Remaining' = Remaining
<1> DEFINE Led(n) == CASE n = elected -> [nodes[n] EXCEPT !.standing = "leader"]
                       [] n # elected /\ nodes[n].standing = "leader" ->
                            [nodes[n] EXCEPT !.standing = "reachable"]
                       [] OTHER -> nodes[n]
<1>1. nodes[elected].standing = "reachable" /\ nodes' = [n \in Node |-> Led(n)]
  BY DEF Elect
<1>2. ASSUME NEW n \in Node
      PROVE  /\ nodes'[n] = [field \in NodeFields |-> nodes'[n][field]]
             /\ nodes'[n].ready = nodes[n].ready
             /\ nodes'[n].availability = nodes[n].availability
             /\ InOffice(n)' <=> InOffice(n)
             /\ IsManager(n)' <=> IsManager(n)
  <2>1. nodes[n] = [field \in NodeFields |-> nodes[n][field]]
    BY DEF IsNodes
  <2>2. nodes'[n] = Led(n)
    BY <1>1
  <2>3. CASE n = elected
    <3>1. nodes'[n] = [nodes[n] EXCEPT !.standing = "leader"]
      BY <2>2, <2>3
    <3> QED BY <1>1, <2>1, <2>3, <3>1 DEF NodeFields, InOffice, IsManager
  <2>4. CASE n # elected /\ nodes[n].standing = "leader"
    <3>1. nodes'[n] = [nodes[n] EXCEPT !.standing = "reachable"]
      BY <2>2, <2>4
    <3> QED BY <2>1, <2>4, <3>1 DEF NodeFields, InOffice, IsManager
  <2>5. CASE n # elected /\ nodes[n].standing # "leader"
    <3>1. nodes'[n] = nodes[n]
      BY <2>2, <2>5
    <3> QED BY <2>1, <3>1 DEF InOffice, IsManager
  <2> QED BY <2>3, <2>4, <2>5
<1>3. IsNodes(nodes')
  BY <1>1, <1>2 DEF IsNodes
<1>4. Managers' = Managers
  BY <1>2 DEF Managers
<1>5. Remaining' = Remaining
  <2>1. \A n \in Managers : n \in Node
    BY DEF Managers
  <2>2. \A n \in Managers : ManagerHealthy(n, "active")' <=> ManagerHealthy(n, "active")
    BY <1>2, <2>1 DEF ManagerHealthy
  <2> QED BY <1>4, <2>2 DEF Remaining
<1> QED BY <1>3, <1>4, <1>5

LEMMA QuorumInit == Init => QuorumInv
  BY InventoriesAssumption DEF Init, QuorumInv

LEMMA QuorumStep == QuorumInv /\ [Next]_cycleVars => QuorumInv'
<1> SUFFICES ASSUME QuorumInv, [Next]_cycleVars
             PROVE  QuorumInv'
  OBVIOUS
<1>0. IsNodes(nodes)
  BY DEF QuorumInv
<1>1. CASE Drain
  <2>1. /\ IsNodes(nodes') /\ Managers' = Managers /\ Remaining' = Remaining
        /\ stage' = "drained" /\ preview'.offline = SafeToTakeOffline
    BY <1>0, <1>1, TargetUpdated DEF Drain
  <2>2. IsManager(Target)' <=> IsManager(Target)
    BY <2>1, PlacementAssumption DEF Managers
  <2>3. SafeToTakeOffline /\ IsManager(Target) => KeepsQuorum
    BY DEF SafeToTakeOffline, MayGoOffline
  <2>4. KeepsQuorum' <=> KeepsQuorum
    BY <2>1 DEF KeepsQuorum, Remaining, Majority
  <2> QED BY <2>1, <2>2, <2>3, <2>4 DEF QuorumInv
<1>2. CASE TakeOffline
  BY <1>0, <1>2, TargetStops, QuorumPreserved DEF TakeOffline
<1>3. CASE Activate
  BY <1>0, <1>3, TargetUpdated, QuorumPreserved DEF Activate
<1>4. CASE HostReturns
  BY <1>0, <1>4, TargetComesBack, QuorumPreserved DEF HostReturns
<1>5. ASSUME NEW n \in Node, Elect(n) PROVE QuorumInv'
  <2>1. IsNodes(nodes') /\ Managers' = Managers /\ Remaining' = Remaining
    BY <1>0, <1>5, ElectionKeepsOffices
  <2> QED BY <1>5, <2>1, QuorumPreserved DEF Elect, QuorumInv
<1>6. CASE UNCHANGED <<nodes, stage, preview>>
  BY <1>6 DEF QuorumInv, IsNodes, IsManager, KeepsQuorum, Majority, Managers,
              ManagerHealthy, InOffice
<1>7. [Next]_cycleVars =>
        \/ Drain \/ TakeOffline \/ Activate \/ HostReturns
        \/ \E n \in Node : Elect(n)
        \/ UNCHANGED <<nodes, stage, preview>>
  BY DEF Next, SwarmStep, FollowReport, Displace, Place, Start, cycleVars, inventory
<1> QED BY <1>1, <1>2, <1>3, <1>4, <1>5, <1>6, <1>7

LEMMA MajorityRemains == QuorumInv => QuorumOutlivesTarget
<1> SUFFICES ASSUME QuorumInv, stage = "offline", IsManager(Target)
             PROVE  2 * Cardinality(HealthyManagers) > Cardinality(Managers)
  BY DEF QuorumOutlivesTarget
<1>1. IsFiniteSet(Managers)
  BY PlacementAssumption, FS_Subset DEF Managers
<1>2. Remaining \subseteq HealthyManagers /\ HealthyManagers \subseteq Managers
  BY DEF Remaining, HealthyManagers, ManagerHealthy
<1>3. IsFiniteSet(HealthyManagers)
  BY <1>1, <1>2, FS_Subset
<1>4. Cardinality(Remaining) <= Cardinality(HealthyManagers)
  BY <1>2, <1>3, FS_Subset
<1>5. Cardinality(Remaining) >= Cardinality(Managers) \div 2 + 1
  BY DEF QuorumInv, KeepsQuorum, Majority, Remaining
<1>6. /\ Cardinality(Managers) \in Nat /\ Cardinality(HealthyManagers) \in Nat
      /\ Cardinality(Remaining) \in Nat
  BY <1>1, <1>2, <1>3, FS_CardinalityType, FS_Subset
<1> QED BY <1>4, <1>5, <1>6

(* A manager that the preview called safe to take offline leaves a         *)
(* majority of healthy managers, whatever moves, starts or is elected      *)
(* between the drain and the shutdown.                                     *)
THEOREM QuorumOutlives == Spec => []QuorumOutlivesTarget
<1>1. Init => QuorumInv
  BY QuorumInit
<1>2. QuorumInv /\ [Next]_cycleVars => QuorumInv'
  BY QuorumStep
<1>3. QuorumInv => QuorumOutlivesTarget
  BY MajorityRemains
<1> QED BY <1>1, <1>2, <1>3, PTL DEF Spec

-----------------------------------------------------------------------------
(* Sums over finite sets, as MapThenSumSet computes them: one chosen       *)
(* element after the other.                                                *)

(* Every set of naturals has a smallest member. *)
LEMMA SmallestExists ==
  ASSUME NEW S \in SUBSET Nat, S # {}
  PROVE  \E x \in S : \A y \in S : x <= y
<1>1. PICK x \in S : \A y \in S : <<y, x>> \notin OpToRel(<, Nat)
  BY NatLessThanWellFounded, WFMin
<1>2. \A y \in S : ~(y < x)
  BY <1>1 DEF OpToRel
<1> QED BY <1>2

Chosen(T) == CHOOSE x \in T : TRUE

(* What MapThenSumSet unfolds to: g is the sum of f over each subset. *)
SumStep(T, f, g) == IF T = {} THEN 0 ELSE f[Chosen(T)] + g[T \ {Chosen(T)}]
IsSum(g, S, f) == g = [T \in SUBSET S |-> SumStep(T, f, g)]

LEMMA ChosenIn ==
  ASSUME NEW T, T # {}
  PROVE  Chosen(T) \in T
BY DEF Chosen

LEMMA SmallerSubset ==
  ASSUME NEW S, IsFiniteSet(S), NEW T \in SUBSET S, T # {}
  PROVE  /\ Chosen(T) \in S
         /\ T \ {Chosen(T)} \in SUBSET S
         /\ Cardinality(T) \in Nat
         /\ Cardinality(T \ {Chosen(T)}) = Cardinality(T) - 1
<1>1. IsFiniteSet(T) /\ Chosen(T) \in T
  BY FS_Subset, ChosenIn
<1> QED BY <1>1, FS_RemoveElement, FS_CardinalityType

LEMMA SumExists ==
  ASSUME NEW S, IsFiniteSet(S), NEW f
  PROVE  \E g : IsSum(g, S, f)
<1> DEFINE Upto(m) == { T \in SUBSET S : Cardinality(T) <= m }
           Partial(g, m) == g = [T \in Upto(m) |-> SumStep(T, f, g)]
           Bad == { m \in Nat : ~ \E g : Partial(g, m) }
<1>1. Bad = {}
  <2> SUFFICES ASSUME Bad # {} PROVE FALSE
    OBVIOUS
  <2>1. PICK m \in Bad : \A k \in Bad : m <= k
    <3> HIDE DEF Bad
    <3>1. Bad \in SUBSET Nat
      BY DEF Bad
    <3> QED BY <3>1, SmallestExists
  <2>2. CASE m = 0
    <3> DEFINE g == [T \in Upto(0) |-> 0]
    <3>1. ASSUME NEW T \in Upto(0) PROVE T = {}
      BY FS_Subset, FS_EmptySet, FS_CardinalityType, <3>1
    <3>2. Partial(g, 0)
      BY <3>1 DEF SumStep
    <3> QED BY <2>2, <3>2
  <2>3. CASE m # 0
    <3>1. m \in Nat /\ m - 1 \in Nat /\ m - 1 \notin Bad
      <4>1. m \in Nat
        BY <2>1
      <4> HIDE DEF Bad
      <4> QED BY <2>1, <2>3, <4>1
    <3>2. PICK g : Partial(g, m - 1)
      BY <3>1
    <3> DEFINE h == [T \in Upto(m) |-> SumStep(T, f, g)]
    <3>3. ASSUME NEW T \in Upto(m) PROVE SumStep(T, f, g) = SumStep(T, f, h)
      <4>1. CASE T # {}
        <5> DEFINE U == T \ {Chosen(T)}
        <5>1. U \in Upto(m - 1) /\ U \in Upto(m)
          BY <3>1, <4>1, SmallerSubset
        <5>2. g[U] = SumStep(U, f, g) /\ h[U] = SumStep(U, f, g)
          BY <3>2, <5>1
        <5> QED BY <4>1, <5>2 DEF SumStep
      <4> QED BY <4>1 DEF SumStep
    <3>4. Partial(h, m)
      BY <3>3
    <3> QED BY <2>1, <3>4
  <2> QED BY <2>2, <2>3
<1>2. Cardinality(S) \in Nat /\ Upto(Cardinality(S)) = SUBSET S
  BY FS_CardinalityType, FS_Subset
<1>3. PICK g : Partial(g, Cardinality(S))
  BY <1>1, <1>2
<1> QED BY <1>2, <1>3 DEF IsSum

(* A property that passes from a subset without its chosen element. *)
LEMMA SubsetInduction ==
  ASSUME NEW S, IsFiniteSet(S), NEW Good \in SUBSET (SUBSET S), {} \in Good,
         \A T \in SUBSET S : T # {} /\ T \ {Chosen(T)} \in Good => T \in Good
  PROVE  Good = SUBSET S
<1> DEFINE Sizes == { Cardinality(T) : T \in (SUBSET S) \ Good }
<1> SUFFICES ASSUME (SUBSET S) \ Good # {} PROVE FALSE
  OBVIOUS
<1>1. Sizes \in SUBSET Nat /\ Sizes # {}
  BY FS_Subset, FS_CardinalityType
<1>2. PICK T \in (SUBSET S) \ Good : \A U \in (SUBSET S) \ Good : Cardinality(T) <= Cardinality(U)
  <2>1. PICK m \in Sizes : \A k \in Sizes : m <= k
    <3> HIDE DEF Sizes
    <3> QED BY <1>1, SmallestExists
  <2> QED BY <2>1
<1>3. T # {} /\ T \ {Chosen(T)} \in (SUBSET S) \ Good
  BY <1>2, SmallerSubset
<1> QED BY <1>2, <1>3, SmallerSubset

LEMMA SumUnfolds ==
  ASSUME NEW S, IsFiniteSet(S), NEW f, NEW g, IsSum(g, S, f), NEW T \in SUBSET S, T # {}
  PROVE  g[T] = f[Chosen(T)] + g[T \ {Chosen(T)}]
BY DEF IsSum, SumStep

LEMMA SumOfNone ==
  ASSUME NEW S, NEW f, NEW g, IsSum(g, S, f)
  PROVE  g[{}] = 0
BY DEF IsSum, SumStep

LEMMA SumIsNat ==
  ASSUME NEW S, IsFiniteSet(S), NEW f \in [S -> Nat], NEW g, IsSum(g, S, f)
  PROVE  \A T \in SUBSET S : g[T] \in Nat
<1> DEFINE Good == { T \in SUBSET S : g[T] \in Nat }
<1>1. {} \in Good
  BY SumOfNone
<1>2. ASSUME NEW T \in SUBSET S, T # {}, T \ {Chosen(T)} \in Good
      PROVE  T \in Good
  <2>1. Chosen(T) \in S
    BY <1>2, SmallerSubset
  <2>2. g[T] = f[Chosen(T)] + g[T \ {Chosen(T)}]
    BY <1>2, SumUnfolds
  <2> QED BY <1>2, <2>1, <2>2
<1>3. Good = SUBSET S
  <2>1. Good \in SUBSET (SUBSET S)
    OBVIOUS
  <2> HIDE DEF Good
  <2> QED BY <1>1, <1>2, <2>1, SubsetInduction
<1> QED BY <1>3

(* One summand more or less. *)
LEMMA SumGrows ==
  ASSUME NEW S, IsFiniteSet(S), NEW f \in [S -> Nat], NEW g, IsSum(g, S, f),
         NEW h \in [S -> Nat], NEW k, IsSum(k, S, h),
         NEW x \in S, \A y \in S \ {x} : h[y] = f[y]
  PROVE  k[S] = g[S] + h[x] - f[x]
<1> DEFINE Good == { T \in SUBSET S : k[T] = g[T] + (IF x \in T THEN h[x] - f[x] ELSE 0) }
<1>0. \A T \in SUBSET S : g[T] \in Nat /\ k[T] \in Nat
  BY SumIsNat
<1>1. {} \in Good
  BY SumOfNone
<1>2. ASSUME NEW T \in SUBSET S, T # {}, T \ {Chosen(T)} \in Good
      PROVE  T \in Good
  <2> DEFINE c == Chosen(T)
  <2>1. /\ c \in S /\ c \in T
    BY <1>2, SmallerSubset, ChosenIn
  <2>6. g[T] = f[c] + g[T \ {c}]
    BY <1>2, SumUnfolds
  <2>7. k[T] = h[c] + k[T \ {c}]
    BY <1>2, SumUnfolds
  <2>5. /\ f[c] \in Nat /\ h[c] \in Nat /\ f[x] \in Nat /\ h[x] \in Nat
        /\ g[T \ {c}] \in Nat /\ k[T \ {c}] \in Nat
    BY <1>0, <2>1
  <2>2. c # x => h[c] = f[c]
    BY <2>1
  <2>3. x \in T \ {c} <=> x \in T /\ c # x
    OBVIOUS
  <2>4. k[T \ {c}] = g[T \ {c}] + (IF x \in T \ {c} THEN h[x] - f[x] ELSE 0)
    BY <1>2
  <2> HIDE DEF c
  <2> QED BY <2>1, <2>2, <2>3, <2>4, <2>5, <2>6, <2>7
<1>3. Good = SUBSET S
  <2>1. Good \in SUBSET (SUBSET S)
    OBVIOUS
  <2> HIDE DEF Good
  <2> QED BY <1>1, <1>2, <2>1, SubsetInduction
<1> QED BY <1>0, <1>3

(* A sum counts pairs. *)
LEMMA SumCounts ==
  ASSUME NEW S, IsFiniteSet(S), NEW f \in [S -> Nat], NEW g, IsSum(g, S, f),
         NEW Pairs, IsFiniteSet(Pairs),
         \A x \in S : \A i \in 1..f[x] : <<x, i>> \in Pairs
  PROVE  g[S] <= Cardinality(Pairs)
<1> DEFINE Of(T) == { w \in Pairs : \E x \in T, i \in Nat : w = <<x, i>> }
           Good == { T \in SUBSET S : g[T] <= Cardinality(Of(T)) }
<1>0. \A T \in SUBSET S : IsFiniteSet(Of(T)) /\ Cardinality(Of(T)) \in Nat /\ g[T] \in Nat
  BY FS_Subset, FS_CardinalityType, SumIsNat
<1>1. {} \in Good
  <2> HIDE DEF Of
  <2> QED BY <1>0, SumOfNone
<1>2. ASSUME NEW T \in SUBSET S, T # {}, T \ {Chosen(T)} \in Good
      PROVE  T \in Good
  <2> DEFINE c == Chosen(T)
             Rest == T \ {c}
             Own == { <<c, i>> : i \in 1..f[c] }
  <2>1. c \in S /\ c \in T /\ Rest \in SUBSET S /\ f[c] \in Nat /\ g[T] = f[c] + g[Rest]
    BY <1>2, SmallerSubset, ChosenIn, SumUnfolds
  <2>2. IsFiniteSet(Own) /\ Cardinality(Own) = f[c]
    <3> DEFINE b == [i \in 1..f[c] |-> <<c, i>>]
    <3>1. b \in Bijection(1..f[c], Own)
      BY DEF Bijection, Injection, Surjection, IsInjective
    <3>2. ExistsBijection(1..f[c], Own)
      BY <3>1 DEF ExistsBijection
    <3>3. IsFiniteSet(1..f[c]) /\ Cardinality(1..f[c]) = f[c]
      BY <2>1, FS_Interval
    <3> QED BY <3>2, <3>3, FS_Bijection
  <2>3. Own \cup Of(Rest) \subseteq Of(T) /\ Own \cap Of(Rest) = {}
    BY <2>1
  <2>4. /\ Cardinality(Own \cup Of(Rest)) = f[c] + Cardinality(Of(Rest))
        /\ IsFiniteSet(Own \cup Of(Rest))
    <3>1. IsFiniteSet(Of(Rest)) /\ Cardinality(Of(Rest)) \in Nat
      BY <1>0, <2>1
    <3> HIDE DEF Of, Rest, Own
    <3>2. /\ IsFiniteSet(Own \cup Of(Rest))
          /\ Cardinality(Own \cup Of(Rest)) = f[c] + Cardinality(Of(Rest)) - Cardinality({})
      BY <2>2, <2>3, <3>1, FS_Union
    <3> QED BY <2>1, <3>1, <3>2, FS_EmptySet
  <2>5. Cardinality(Own \cup Of(Rest)) <= Cardinality(Of(T))
    BY <1>0, <2>3, FS_Subset
  <2>6. g[Rest] <= Cardinality(Of(Rest)) /\ g[Rest] \in Nat /\ Cardinality(Of(Rest)) \in Nat
    BY <1>0, <1>2, <2>1
  <2>7. g[T] <= Cardinality(Of(T))
    <3> HIDE DEF Of, Rest, c
    <3> QED BY <1>0, <2>1, <2>4, <2>5, <2>6
  <2> QED BY <2>7
<1>3. Good = SUBSET S
  <2>1. Good \in SUBSET (SUBSET S)
    OBVIOUS
  <2> HIDE DEF Good
  <2> QED BY <1>1, <1>2, <2>1, SubsetInduction
<1>4. g[S] <= Cardinality(Of(S))
  BY <1>3
<1>5. Cardinality(Of(S)) <= Cardinality(Pairs)
  BY FS_Subset
<1> QED BY <1>0, <1>4, <1>5, FS_CardinalityType

(* A sum depends on its summands alone. *)
LEMMA SumSame ==
  ASSUME NEW S, IsFiniteSet(S), NEW f \in [S -> Nat], NEW g, IsSum(g, S, f),
         NEW k, IsSum(k, S, f)
  PROVE  k[S] = g[S]
<1>1. CASE S = {}
  BY <1>1, SumOfNone
<1>2. CASE S # {}
  <2>1. PICK x \in S : TRUE
    BY <1>2
  <2>2. k[S] = g[S] + f[x] - f[x]
    BY SumGrows
  <2>3. f[x] \in Nat /\ g[S] \in Nat
    BY SumIsNat
  <2> QED BY <2>2, <2>3
<1> QED BY <1>1, <1>2

-----------------------------------------------------------------------------
(* EvacuationInv: the tasks that need a place are no more than the places  *)
(* there are, each of which is a node together with a number of tasks that *)
(* it takes.                                                               *)

(* What the inventory is made of. *)
CycleTypeOK ==
  /\ IsNodes(nodes)
  /\ \A n \in Node : nodes[n].capacity \in [Resource -> Nat]
  /\ \A s \in Service : specs[s].limit \in Nat /\ specs[s].reserve \in [Resource -> Nat]
  /\ tasks \in [Task -> [node : Node \cup {NoNode}, state : States]]
  /\ \A k \in Task : tasks[k].state = "pending" => tasks[k].node = NoNode

(* Another node that the scheduler can use for s, and does when it has room. *)
Suits(s, n) ==
  /\ n # Target
  /\ nodes[n].ready /\ nodes[n].availability = "active"
  /\ specs[s].platforms # {} => nodes[n].platform \in specs[s].platforms
  /\ \A c \in specs[s].constraints : Matches(c, n)

(* There is room for i more tasks of s. *)
Takes(s, n, i) ==
  /\ \A r \in Resource : i * specs[s].reserve[r] <= Available(n, r)
  /\ specs[s].limit > 0 => TaskCount(s, n) + i <= specs[s].limit
  /\ specs[s].ports # {} => i = 1 /\ specs[s].ports \cap PortsOf(TasksOn(n)) = {}

(* A slot for s: the i-th further task of s that the node takes. *)
Slots(s) ==
  { w \in Node \X (1..Cardinality(Task)) : Suits(s, w[1]) /\ Takes(s, w[1], w[2]) }

(* The tasks of s that need a place, now or soon. *)
Leaving(s) ==
  { k \in Task : ServiceOf[k] = s /\ (tasks[k].state = "pending" \/ k \in TasksOn(Target)) }

(* With one service on the move, its leaving tasks do not outnumber its    *)
(* slots.  The single tasks are known too: what is pending has been        *)
(* previewed, and what is left on the target has been or is global.        *)
EvacuationInv ==
  /\ CycleTypeOK
  /\ stage = "drained" =>
       /\ nodes[Target].availability = "drain"
       /\ preview.moving \subseteq Service
       /\ \A k \in Task :
            /\ tasks[k].state = "pending" => ServiceOf[k] \in preview.moving
            /\ k \in TasksOn(Target) =>
                 ServiceOf[k] \in preview.moving \/ specs[ServiceOf[k]].mode = "global"
       /\ PreviewComplete =>
            \A s \in preview.moving : Cardinality(Leaving(s)) <= Cardinality(Slots(s))

-----------------------------------------------------------------------------
(* Reserved and EstimatedTaskCapacity are such sums. *)

Load(n, r) == [s \in Service |-> specs[s].reserve[r] * TaskCount(s, n)]
Estimate(s) == [n \in Destinations(s) |-> TaskCapacity(s, n)]

ReservedIsSum ==
  \A n \in Node : \A r \in Resource :
    \E g : IsSum(g, Service, Load(n, r)) /\ Reserved(n, r) = g[Service]

LEMMA ReservedSums == ReservedIsSum
<1> SUFFICES ASSUME NEW n \in Node, NEW r \in Resource
             PROVE  \E g : IsSum(g, Service, Load(n, r)) /\ Reserved(n, r) = g[Service]
  BY DEF ReservedIsSum
<1> DEFINE Body(g) ==
             [T \in SUBSET Service |->
                IF T = {} THEN 0
                ELSE specs[CHOOSE s \in T : TRUE].reserve[r]
                       * Cardinality(ServiceTasksOn(CHOOSE s \in T : TRUE, n))
                     + g[T \ {CHOOSE s \in T : TRUE}]]
           g == CHOOSE g : g = Body(g)
<1>1. Reserved(n, r) = g[Service]
  BY DEF Reserved, MapThenSumSet, MapThenFoldSet
<1>2. ASSUME NEW h PROVE IsSum(h, Service, Load(n, r)) <=> h = Body(h)
  <2>1. ASSUME NEW T \in SUBSET Service, T # {}
        PROVE  Load(n, r)[Chosen(T)] =
                 specs[Chosen(T)].reserve[r] * Cardinality(ServiceTasksOn(Chosen(T), n))
    BY <2>1, ChosenIn DEF Load, TaskCount
  <2>2. [T \in SUBSET Service |-> SumStep(T, Load(n, r), h)] = Body(h)
    BY <2>1 DEF SumStep, Chosen
  <2> QED BY <2>2 DEF IsSum
<1>3. \E h : h = Body(h)
  <2>1. \E h : IsSum(h, Service, Load(n, r))
    BY SumExists, PlacementAssumption
  <2> HIDE DEF Body
  <2> QED BY <1>2, <2>1
<1>4. g = Body(g)
  BY <1>3
<1> QED BY <1>1, <1>2, <1>4

LEMMA EstimateSums ==
  ASSUME NEW s, IsFiniteSet(Destinations(s))
  PROVE  \E g : /\ IsSum(g, Destinations(s), Estimate(s))
                /\ EstimatedTaskCapacity(s) =
                     Min({Cardinality(ServiceTasksOn(s, Target)), g[Destinations(s)]})
<1> DEFINE Body(g) ==
             [T \in SUBSET Destinations(s) |->
                IF T = {} THEN 0
                ELSE TaskCapacity(s, CHOOSE n \in T : TRUE) + g[T \ {CHOOSE n \in T : TRUE}]]
           g == CHOOSE g : g = Body(g)
<1>1. EstimatedTaskCapacity(s) =
        Min({Cardinality(ServiceTasksOn(s, Target)), g[Destinations(s)]})
  BY DEF EstimatedTaskCapacity, MapThenSumSet, MapThenFoldSet
<1>2. ASSUME NEW h PROVE IsSum(h, Destinations(s), Estimate(s)) <=> h = Body(h)
  <2>1. ASSUME NEW T \in SUBSET Destinations(s), T # {}
        PROVE  Estimate(s)[Chosen(T)] = TaskCapacity(s, Chosen(T))
    BY <2>1, ChosenIn DEF Estimate
  <2>2. [T \in SUBSET Destinations(s) |-> SumStep(T, Estimate(s), h)] = Body(h)
    BY <2>1 DEF SumStep, Chosen
  <2> QED BY <2>2 DEF IsSum
<1>3. \E h : h = Body(h)
  <2>1. \E h : IsSum(h, Destinations(s), Estimate(s))
    BY SumExists
  <2> HIDE DEF Body
  <2> QED BY <1>2, <2>1
<1>4. g = Body(g)
  BY <1>3
<1> QED BY <1>1, <1>2, <1>4

-----------------------------------------------------------------------------
(* Cardinalities and minima. *)

LEMMA TasksFinite ==
  ASSUME NEW s, NEW n
  PROVE  /\ IsFiniteSet(ServiceTasksOn(s, n)) /\ TaskCount(s, n) \in Nat
         /\ TaskCount(s, n) <= Cardinality(Task)
BY PlacementAssumption, FS_Subset, FS_CardinalityType DEF TaskCount, ServiceTasksOn, TasksOn

LEMMA MinOfNaturals ==
  ASSUME NEW S \in SUBSET Nat, S # {}
  PROVE  Min(S) \in S /\ \A x \in S : Min(S) <= x
BY SmallestExists DEF Min

LEMMA MaxOfTwo ==
  ASSUME NEW a \in Int
  PROVE  Max({a, 0}) = IF a >= 0 THEN a ELSE 0
<1>1. \E x \in {a, 0} : \A y \in {a, 0} : x >= y
  OBVIOUS
<1>2. Max({a, 0}) \in {a, 0} /\ \A y \in {a, 0} : Max({a, 0}) >= y
  BY <1>1 DEF Max
<1> QED BY <1>2

LEMMA LoadType ==
  ASSUME CycleTypeOK, NEW n, NEW r \in Resource
  PROVE  Load(n, r) \in [Service -> Nat]
<1>1. ASSUME NEW s \in Service PROVE specs[s].reserve[r] * TaskCount(s, n) \in Nat
  <2>1. specs[s].reserve[r] \in Nat /\ TaskCount(s, n) \in Nat
    BY TasksFinite DEF CycleTypeOK
  <2> QED BY <2>1
<1> QED BY <1>1 DEF Load

LEMMA AvailableIs ==
  ASSUME CycleTypeOK, NEW n \in Node, NEW r \in Resource
  PROVE  /\ Reserved(n, r) \in Nat /\ nodes[n].capacity[r] \in Nat
         /\ Available(n, r) = IF Reserved(n, r) <= nodes[n].capacity[r]
                                THEN nodes[n].capacity[r] - Reserved(n, r) ELSE 0
<1>1. PICK g : IsSum(g, Service, Load(n, r)) /\ Reserved(n, r) = g[Service]
  BY ReservedSums DEF ReservedIsSum
<1>2. Reserved(n, r) \in Nat
  BY <1>1, LoadType, SumIsNat, PlacementAssumption
<1>3. nodes[n].capacity[r] \in Nat
  BY DEF CycleTypeOK
<1> QED BY <1>2, <1>3, MaxOfTwo DEF Available

(* A task capacity is no more than what the node can take. *)
LEMMA QuotientFits ==
  ASSUME NEW a \in Nat, NEW b \in Nat, NEW i \in Nat, b > 0 => i <= a \div b
  PROVE  i * b <= a
<1>1. CASE b = 0
  BY <1>1
<1>2. CASE b > 0
  <2>1. (a \div b) * b <= a /\ a \div b \in Nat
    BY <1>2
  <2>2. i * b <= (a \div b) * b
    BY <1>2, <2>1
  <2>3. i * b \in Nat /\ (a \div b) * b \in Nat
    BY <2>1
  <2> QED BY <2>1, <2>2, <2>3
<1> QED BY <1>1, <1>2

(* A destination has as many slots as the preview estimates.  All tasks    *)
(* run when it looks, so that it sees the host ports of each of them.      *)
LEMMA CapacityTakes ==
  ASSUME CycleTypeOK, AllConverged, NEW s \in Service, Unevaluated(s) = {},
         NEW n \in Destinations(s)
  PROVE  /\ TaskCapacity(s, n) \in Nat
         /\ \A i \in 1..TaskCapacity(s, n) : <<n, i>> \in Slots(s)
<1> DEFINE Quotients == { Available(n, r) \div specs[s].reserve[r] :
                          r \in { x \in Resource : specs[s].reserve[x] > 0 } }
           Bounds == CapacityBounds(s, n) \cup Quotients
<1>0. n \in Node /\ n # Target /\ Passes(s, n)
  BY DEF Destinations
<1>1. /\ specs[s].limit \in Nat
      /\ \A r \in Resource : specs[s].reserve[r] \in Nat /\ Available(n, r) \in Nat
  BY <1>0, AvailableIs DEF CycleTypeOK
<1>2. /\ TaskCount(s, n) \in Nat /\ TaskCount(s, Target) \in Nat
      /\ TaskCount(s, Target) <= Cardinality(Task)
  BY TasksFinite
<1>3. CapacityBounds(s, n) \subseteq Nat
  BY <1>1, <1>2, MaxOfTwo DEF CapacityBounds, TaskCount
<1>4. Quotients \subseteq Nat
  BY <1>1
<1>5. Min(Bounds) \in Nat /\ \A x \in Bounds : Min(Bounds) <= x
  <2>1. Bounds \in SUBSET Nat /\ Bounds # {}
    BY <1>3, <1>4 DEF CapacityBounds
  <2> HIDE DEF Bounds
  <2> QED BY <2>1, MinOfNaturals
<1>6. TaskCapacity(s, n) = Min(Bounds)
  BY DEF TaskCapacity
<1>7. ASSUME NEW i \in 1..TaskCapacity(s, n)
      PROVE  <<n, i>> \in Slots(s)
  <2>1. i \in Nat /\ i >= 1 /\ \A x \in Bounds : x \in Nat /\ i <= x
    <3>1. Bounds \subseteq Nat
      BY <1>3, <1>4
    <3> HIDE DEF Bounds
    <3> QED BY <1>5, <1>6, <3>1
  <2>2. i <= TaskCount(s, Target)
    BY <2>1 DEF CapacityBounds, TaskCount
  <2>3. \A r \in Resource : i * specs[s].reserve[r] <= Available(n, r)
    <3> SUFFICES ASSUME NEW r \in Resource PROVE i * specs[s].reserve[r] <= Available(n, r)
      OBVIOUS
    <3>1. specs[s].reserve[r] > 0 => i <= Available(n, r) \div specs[s].reserve[r]
      BY <2>1
    <3> QED BY <1>1, <2>1, <3>1, QuotientFits
  <2>4. specs[s].limit > 0 => TaskCount(s, n) + i <= specs[s].limit
    <3> SUFFICES ASSUME specs[s].limit > 0 PROVE TaskCount(s, n) + i <= specs[s].limit
      OBVIOUS
    <3>1. Max({specs[s].limit - TaskCount(s, n), 0}) \in Bounds
      <4>1. Max({specs[s].limit - TaskCount(s, n), 0}) \in CapacityBounds(s, n)
        BY <1>1 DEF CapacityBounds, TaskCount
      <4> QED BY <4>1
    <3>2. i <= Max({specs[s].limit - TaskCount(s, n), 0})
      BY <2>1, <3>1
    <3> QED BY <1>1, <1>2, <2>1, <3>2, MaxOfTwo
  <2>5. specs[s].ports # {} => i = 1 /\ specs[s].ports \cap PortsOf(TasksOn(n)) = {}
    <3>1. specs[s].ports # {} => i <= 1
      BY <2>1 DEF CapacityBounds
    <3>2. UsedHostPorts(n) = PortsOf(TasksOn(n))
      <4>1. \A k \in TasksOn(n) : tasks[k].state = "running"
        BY PlacementAssumption DEF AllConverged, Converged, TasksOn
      <4>2. { k \in TasksOn(n) : tasks[k].state = "running" } = TasksOn(n)
        BY <4>1
      <4> QED BY <4>2 DEF UsedHostPorts
    <3> QED BY <1>0, <2>1, <3>1, <3>2 DEF Passes
  <2>6. Suits(s, n)
    BY <1>0 DEF Suits, Passes, HasRoom, Unevaluated
  <2>7. Cardinality(Task) \in Nat
    BY PlacementAssumption, FS_CardinalityType
  <2>8. i \in 1..Cardinality(Task)
    BY <1>2, <2>1, <2>2, <2>7
  <2> QED BY <1>0, <2>3, <2>4, <2>5, <2>6, <2>8 DEF Slots, Takes
<1> QED BY <1>5, <1>6, <1>7

LEMMA SlotsFinite ==
  ASSUME NEW s
  PROVE  IsFiniteSet(Slots(s)) /\ Cardinality(Slots(s)) \in Nat
<1>1. IsFiniteSet(Node \X (1..Cardinality(Task)))
  <2>1. IsFiniteSet(1..Cardinality(Task))
    BY PlacementAssumption, FS_Interval, FS_CardinalityType
  <2> QED BY <2>1, PlacementAssumption, FS_Product
<1> QED BY <1>1, FS_Subset, FS_CardinalityType DEF Slots

(* What the preview calls safe has a place for each task. *)
LEMMA SafeLeavesSlots ==
  ASSUME CycleTypeOK, SafeToDrain, NEW s \in Moving, s \in Service, Unevaluated(s) = {}
  PROVE  TaskCount(s, Target) <= Cardinality(Slots(s))
<1>1. IsFiniteSet(Destinations(s))
  BY PlacementAssumption, FS_Subset DEF Destinations
<1>2. AllConverged
  BY DEF SafeToDrain, CheckNode
<1>3. PICK g : /\ IsSum(g, Destinations(s), Estimate(s))
               /\ EstimatedTaskCapacity(s) = Min({TaskCount(s, Target), g[Destinations(s)]})
  BY <1>1, EstimateSums DEF TaskCount
<1>4. Estimate(s) \in [Destinations(s) -> Nat]
  BY <1>2, CapacityTakes DEF Estimate
<1>5. g[Destinations(s)] \in Nat
  BY <1>1, <1>3, <1>4, SumIsNat
<1>6. TaskCount(s, Target) \in Nat /\ EstimatedTaskCapacity(s) >= TaskCount(s, Target)
  BY TasksFinite DEF SafeToDrain, TaskCount
<1>7. Min({TaskCount(s, Target), g[Destinations(s)]}) <= g[Destinations(s)]
  BY <1>5, <1>6, MinOfNaturals
<1>8. g[Destinations(s)] <= Cardinality(Slots(s))
  <2>1. \A n \in Destinations(s) : \A i \in 1..Estimate(s)[n] : <<n, i>> \in Slots(s)
    BY <1>2, CapacityTakes DEF Estimate
  <2> QED BY <1>1, <1>3, <1>4, <2>1, SlotsFinite, SumCounts
<1>9. Min({TaskCount(s, Target), g[Destinations(s)]}) \in Nat
  BY <1>5, <1>6, MinOfNaturals
<1> QED BY <1>3, <1>5, <1>6, <1>7, <1>8, <1>9, SlotsFinite

-----------------------------------------------------------------------------
(* What a step changes of the nodes, and the types.                        *)

LEMMA InitTyped == Init => CycleTypeOK
<1> SUFFICES ASSUME Init PROVE CycleTypeOK
  OBVIOUS
<1>1. PICK i \in Inventories :
        /\ specs = i.specs /\ nodes = i.nodes
        /\ tasks = [k \in Task |-> [node |-> i.places[k], state |-> "running"]]
  BY DEF Init
<1>2. \A k \in Task : i.places[k] \in Node
  BY InventoriesAssumption
<1> QED BY <1>1, <1>2, InventoriesAssumption DEF CycleTypeOK, States

(* Only what is said of the target and the offices changes in a step. *)
SameNodes ==
  /\ IsNodes(nodes')
  /\ \A n \in Node : nodes'[n].capacity = nodes[n].capacity
  /\ \A n \in Node \ {Target} :
       /\ nodes'[n].ready = nodes[n].ready /\ nodes'[n].availability = nodes[n].availability
       /\ nodes'[n].platform = nodes[n].platform /\ nodes'[n].labels = nodes[n].labels

LEMMA FieldsOf ==
  ASSUME NEW node, node = [field \in NodeFields |-> node[field]], NEW name \in NodeFields, NEW value
  PROVE  LET changed == [node EXCEPT ![name] = value]
         IN  /\ changed = [field \in NodeFields |-> changed[field]]
             /\ \A field \in NodeFields : field # name => changed[field] = node[field]
OBVIOUS

LEMMA TargetSame ==
  ASSUME IsNodes(nodes), NEW node,
         node = [field \in NodeFields |-> node[field]], node.capacity = nodes[Target].capacity,
         nodes' = [nodes EXCEPT ![Target] = node]
  PROVE  SameNodes
BY PlacementAssumption DEF IsNodes, SameNodes

LEMMA ElectSame ==
  ASSUME IsNodes(nodes), NEW elected \in Node, Elect(elected)
  PROVE  SameNodes
<1> DEFINE Led(n) == CASE n = elected -> [nodes[n] EXCEPT !.standing = "leader"]
                       [] n # elected /\ nodes[n].standing = "leader" ->
                            [nodes[n] EXCEPT !.standing = "reachable"]
                       [] OTHER -> nodes[n]
<1>1. nodes' = [n \in Node |-> Led(n)]
  BY DEF Elect
<1>2. ASSUME NEW n \in Node
      PROVE  /\ nodes'[n] = [field \in NodeFields |-> nodes'[n][field]]
             /\ \A field \in NodeFields : field # "standing" => nodes'[n][field] = nodes[n][field]
  <2>1. nodes[n] = [field \in NodeFields |-> nodes[n][field]]
    BY DEF IsNodes
  <2>2. nodes'[n] = nodes[n] \/ \E office : nodes'[n] = [nodes[n] EXCEPT !.standing = office]
    BY <1>1
  <2> QED BY <2>1, <2>2, FieldsOf DEF NodeFields
<1>3. IsNodes(nodes')
  BY <1>1, <1>2 DEF IsNodes
<1> QED BY <1>2, <1>3 DEF SameNodes, NodeFields

LEMMA NodesStay ==
  ASSUME IsNodes(nodes), [Next]_cycleVars
  PROVE  SameNodes
<1>0. nodes[Target] = [field \in NodeFields |-> nodes[Target][field]]
  BY PlacementAssumption DEF IsNodes
<1>1. ASSUME NEW value, SetTarget("availability", value) PROVE SameNodes
  <2> DEFINE node == [nodes[Target] EXCEPT !.availability = value]
  <2>1. nodes' = [nodes EXCEPT ![Target] = node]
    BY <1>1 DEF SetTarget
  <2>2. node = [field \in NodeFields |-> node[field]] /\ node.capacity = nodes[Target].capacity
    BY <1>0 DEF NodeFields
  <2> HIDE DEF node
  <2> QED BY <2>1, <2>2, TargetSame
<1>2. ASSUME NEW value, NEW office,
             nodes' = [nodes EXCEPT ![Target].ready = value, ![Target].standing = office]
      PROVE SameNodes
  <2> DEFINE node == [nodes[Target] EXCEPT !.ready = value, !.standing = office]
  <2>1. nodes' = [nodes EXCEPT ![Target] = node]
    BY <1>2 DEF IsNodes
  <2>2. node = [field \in NodeFields |-> node[field]] /\ node.capacity = nodes[Target].capacity
    BY <1>0 DEF NodeFields
  <2> HIDE DEF node
  <2> QED BY <2>1, <2>2, TargetSame
<1>3. Drain \/ Activate => SameNodes
  BY <1>1 DEF Drain, Activate
<1>4. TakeOffline => SameNodes
  BY <1>2 DEF TakeOffline
<1>5. HostReturns => SameNodes
  BY <1>2 DEF HostReturns
<1>6. (\E n \in Node : Elect(n)) => SameNodes
  BY ElectSame
<1>7. UNCHANGED nodes => SameNodes
  BY DEF SameNodes, IsNodes
<1> QED BY <1>3, <1>4, <1>5, <1>6, <1>7
        DEF Next, SwarmStep, FollowReport, Displace, Place, Start, cycleVars, inventory

(* A step that moves one task, or starts it. *)
MovesTask(k, node, state) ==
  /\ node \in Node \cup {NoNode} /\ state \in States
  /\ state = "pending" => node = NoNode
  /\ tasks' = [tasks EXCEPT ![k] = [node |-> node, state |-> state]]

LEMMA StateSet ==
  ASSUME NEW task \in [node : Node \cup {NoNode}, state : States], NEW value
  PROVE  [task EXCEPT !.state = value] = [node |-> task.node, state |-> value]
OBVIOUS

(* The types hold in every state. *)
LEMMA TypedStep ==
  ASSUME CycleTypeOK, [Next]_cycleVars
  PROVE  CycleTypeOK'
<1>0. tasks \in [Task -> [node : Node \cup {NoNode}, state : States]]
  BY DEF CycleTypeOK
<1>1. SameNodes /\ UNCHANGED specs
  BY NodesStay DEF CycleTypeOK, Next, Drain, TakeOffline, Activate, SwarmStep, HostReturns, Elect,
                   FollowReport, Displace, Place, Start, cycleVars, inventory
<1>2. ASSUME tasks' \in [Task -> [node : Node \cup {NoNode}, state : States]],
             \A k \in Task : tasks'[k].state = "pending" => tasks'[k].node = NoNode
      PROVE  CycleTypeOK'
  BY <1>1, <1>2 DEF CycleTypeOK, SameNodes
<1>3. CASE \E k, node, state : k \in Task /\ MovesTask(k, node, state)
  <2>1. PICK k, node, state : k \in Task /\ MovesTask(k, node, state)
    BY <1>3
  <2>2. [node |-> node, state |-> state] \in [node : Node \cup {NoNode}, state : States]
    BY <2>1 DEF MovesTask
  <2>3. /\ tasks'[k] = [node |-> node, state |-> state]
        /\ \A l \in Task : l # k => tasks'[l] = tasks[l]
        /\ tasks' \in [Task -> [node : Node \cup {NoNode}, state : States]]
    BY <1>0, <2>1, <2>2 DEF MovesTask
  <2>4. state = "pending" => node = NoNode
    BY <2>1 DEF MovesTask
  <2> QED BY <1>2, <2>3, <2>4 DEF CycleTypeOK
<1>4. CASE UNCHANGED tasks
  BY <1>2, <1>4 DEF CycleTypeOK
<1>5. CASE Activate
  BY <1>0, <1>2, <1>5 DEF Activate, States, CycleTypeOK
<1>6. CASE FollowReport
  <2>1. PICK n \in Node, k \in Task :
          tasks' = [tasks EXCEPT ![k] = [node |-> n, state |-> "starting"]]
    BY <1>6 DEF FollowReport, KnownEligibleDestinations, Considered, ServiceTasksOn, TasksOn
  <2> QED BY <1>3, <2>1 DEF MovesTask, States
<1>7. ASSUME NEW k \in Task, Displace(k) PROVE CycleTypeOK'
  <2>1. CASE specs[ServiceOf[k]].mode = "global"
    <3>1. tasks' = [tasks EXCEPT ![k] = [node |-> tasks[k].node, state |-> "ended"]]
      BY <1>0, <1>7, <2>1, StateSet DEF Displace
    <3> QED BY <1>0, <1>3, <3>1 DEF MovesTask, States
  <2>2. CASE specs[ServiceOf[k]].mode # "global"
    BY <1>3, <1>7, <2>2 DEF Displace, MovesTask, States
  <2> QED BY <2>1, <2>2
<1>8. ASSUME NEW k \in Task, Place(k) PROVE CycleTypeOK'
  BY <1>3, <1>8 DEF Place, MovesTask, States
<1>9. ASSUME NEW k \in Task, Start(k) PROVE CycleTypeOK'
  <2>1. tasks' = [tasks EXCEPT ![k] = [node |-> tasks[k].node, state |-> "running"]]
    BY <1>0, <1>9, StateSet DEF Start
  <2> QED BY <1>0, <1>3, <2>1 DEF MovesTask, States
<1> QED
  BY <1>4, <1>5, <1>6, <1>7, <1>8, <1>9
     DEF Next, Drain, TakeOffline, SwarmStep, HostReturns, Elect, cycleVars, inventory

-----------------------------------------------------------------------------
(* Where the tasks are, and what that leaves for others. *)

LEMMA AfterStep == ReservedIsSum'
BY ReservedSums, PTL

LEMMA LoadAfter ==
  ASSUME CycleTypeOK', NEW n, NEW r \in Resource
  PROVE  Load(n, r)' \in [Service -> Nat]
<1>1. ASSUME NEW s \in Service PROVE specs'[s].reserve[r] * TaskCount(s, n)' \in Nat
  <2>1. IsFiniteSet(ServiceTasksOn(s, n)')
    BY PlacementAssumption, FS_Subset DEF ServiceTasksOn, TasksOn
  <2>2. TaskCount(s, n)' \in Nat
    BY <2>1, FS_CardinalityType DEF TaskCount
  <2>3. specs'[s].reserve[r] \in Nat
    BY DEF CycleTypeOK
  <2> QED BY <2>2, <2>3
<1> QED BY <1>1 DEF Load

AvailableFact ==
  \A n \in Node : \A r \in Resource :
    /\ Reserved(n, r) \in Nat /\ nodes[n].capacity[r] \in Nat
    /\ Available(n, r) = IF Reserved(n, r) <= nodes[n].capacity[r]
                           THEN nodes[n].capacity[r] - Reserved(n, r) ELSE 0

LEMMA AvailableAfter == CycleTypeOK' => AvailableFact'
<1>1. CycleTypeOK => AvailableFact
  BY AvailableIs DEF AvailableFact
<1> QED BY <1>1, PTL

LEMMA SameRoom ==
  ASSUME CycleTypeOK, CycleTypeOK', UNCHANGED specs, NEW n \in Node,
         nodes'[n].capacity = nodes[n].capacity, TasksOn(n)' = TasksOn(n)
  PROVE  /\ \A r \in Resource : Available(n, r)' = Available(n, r)
         /\ \A s : TaskCount(s, n)' = TaskCount(s, n)
<1>1. \A s : TaskCount(s, n)' = TaskCount(s, n)
  BY DEF TaskCount, ServiceTasksOn
<1>2. ASSUME NEW r \in Resource PROVE Reserved(n, r)' = Reserved(n, r)
  <2>1. Load(n, r)' = Load(n, r)
    BY <1>1 DEF Load
  <2>2. PICK g : IsSum(g, Service, Load(n, r)) /\ Reserved(n, r) = g[Service]
    BY ReservedSums DEF ReservedIsSum
  <2>3. PICK h : IsSum(h, Service, Load(n, r)') /\ Reserved(n, r)' = h[Service]
    BY AfterStep DEF ReservedIsSum
  <2> QED BY <2>1, <2>2, <2>3, SumSame, LoadType, PlacementAssumption
<1>3. ASSUME NEW r \in Resource PROVE Available(n, r)' = Available(n, r)
  BY <1>2, <1>3 DEF Available
<1> QED BY <1>1, <1>3

(* One more task of s leaves as much less as it reserves. *)
LEMMA LessRoom ==
  ASSUME CycleTypeOK, CycleTypeOK', UNCHANGED <<specs, nodes>>, NEW n \in Node,
         NEW k \in Task, k \notin TasksOn(n), TasksOn(n)' = TasksOn(n) \cup {k}
  PROVE  /\ \A r \in Resource : Reserved(n, r)' = Reserved(n, r) + specs[ServiceOf[k]].reserve[r]
         /\ TaskCount(ServiceOf[k], n)' = TaskCount(ServiceOf[k], n) + 1
<1> DEFINE s == ServiceOf[k]
<1>0. s \in Service
  BY PlacementAssumption
<1>1. ServiceTasksOn(s, n)' = ServiceTasksOn(s, n) \cup {k} /\ k \notin ServiceTasksOn(s, n)
  BY DEF ServiceTasksOn
<1>2. TaskCount(s, n)' = TaskCount(s, n) + 1 /\ TaskCount(s, n) \in Nat
  BY <1>1, TasksFinite, FS_AddElement DEF TaskCount
<1>3. \A t \in Service \ {s} : TaskCount(t, n)' = TaskCount(t, n)
  BY DEF TaskCount, ServiceTasksOn
<1>4. ASSUME NEW r \in Resource PROVE Reserved(n, r)' = Reserved(n, r) + specs[s].reserve[r]
  <2>1. Load(n, r) \in [Service -> Nat] /\ Load(n, r)' \in [Service -> Nat]
    BY LoadType, LoadAfter
  <2>2. \A t \in Service \ {s} : Load(n, r)'[t] = Load(n, r)[t]
    BY <1>3 DEF Load
  <2>3. /\ Load(n, r)[s] = specs[s].reserve[r] * TaskCount(s, n)
        /\ Load(n, r)'[s] = specs[s].reserve[r] * (TaskCount(s, n) + 1)
    BY <1>0, <1>2 DEF Load
  <2>4. PICK g : IsSum(g, Service, Load(n, r)) /\ Reserved(n, r) = g[Service]
    BY ReservedSums DEF ReservedIsSum
  <2>5. PICK h : IsSum(h, Service, Load(n, r)') /\ Reserved(n, r)' = h[Service]
    BY AfterStep DEF ReservedIsSum
  <2>6. Reserved(n, r)' = Reserved(n, r) + Load(n, r)'[s] - Load(n, r)[s]
    BY <1>0, <2>1, <2>2, <2>4, <2>5, SumGrows, PlacementAssumption
  <2>7. specs[s].reserve[r] \in Nat /\ Reserved(n, r) \in Nat
    BY <1>0, AvailableIs DEF CycleTypeOK
  <2>8. Load(n, r)'[s] = Load(n, r)[s] + specs[s].reserve[r] /\ Load(n, r)[s] \in Nat
    BY <1>0, <1>2, <2>1, <2>3, <2>7
  <2> QED BY <2>6, <2>7, <2>8
<1> QED BY <1>2, <1>4

-----------------------------------------------------------------------------
(* Slots from one state to the next.                                       *)

LEMMA SlotsFiniteAfter ==
  ASSUME NEW s
  PROVE  IsFiniteSet(Slots(s)') /\ Cardinality(Slots(s)') \in Nat
<1>1. IsFiniteSet(Node \X (1..Cardinality(Task)))
  <2>1. IsFiniteSet(1..Cardinality(Task))
    BY PlacementAssumption, FS_Interval, FS_CardinalityType
  <2> QED BY <2>1, PlacementAssumption, FS_Product
<1> QED BY <1>1, FS_Subset, FS_CardinalityType DEF Slots

LEMMA SameSlot ==
  ASSUME CycleTypeOK, CycleTypeOK', UNCHANGED specs, SameNodes, NEW n \in Node \ {Target},
         TasksOn(n)' = TasksOn(n), NEW s, NEW i
  PROVE  /\ Suits(s, n)' <=> Suits(s, n)
         /\ Takes(s, n, i)' <=> Takes(s, n, i)
<1>1. Suits(s, n)' <=> Suits(s, n)
  BY DEF Suits, SameNodes, Matches
<1>2. /\ \A r \in Resource : Available(n, r)' = Available(n, r)
      /\ TaskCount(s, n)' = TaskCount(s, n)
  BY SameRoom DEF SameNodes
<1>3. PortsOf(TasksOn(n))' = PortsOf(TasksOn(n))
  BY DEF PortsOf
<1> QED BY <1>1, <1>2, <1>3 DEF Takes

(* As long as no task comes to another node or leaves it, the slots stay.  *)
LEMMA SlotsKept ==
  ASSUME CycleTypeOK, CycleTypeOK', UNCHANGED specs, SameNodes, NEW s,
         \A n \in Node \ {Target} : TasksOn(n)' = TasksOn(n)
  PROVE  Slots(s)' = Slots(s)
<1>1. ASSUME NEW w \in Node \X (1..Cardinality(Task))
      PROVE  (Suits(s, w[1]) /\ Takes(s, w[1], w[2]))' <=> Suits(s, w[1]) /\ Takes(s, w[1], w[2])
  <2>1. CASE w[1] = Target
    BY <2>1 DEF Suits
  <2>2. CASE w[1] # Target
    BY <2>2, SameSlot
  <2> QED BY <2>1, <2>2
<1> QED BY <1>1 DEF Slots

(* Who is placed takes one slot, the last one of his node. *)
LEMMA SlotTaken ==
  ASSUME CycleTypeOK, CycleTypeOK', UNCHANGED <<specs, nodes>>, NEW k \in Task,
         NEW n \in Node \ {Target}, k \notin TasksOn(n), TasksOn(n)' = TasksOn(n) \cup {k},
         NEW i \in Nat, i >= 1, Takes(ServiceOf[k], n, i + 1)
  PROVE  Takes(ServiceOf[k], n, i)'
<1> DEFINE s == ServiceOf[k]
<1>0. s \in Service /\ specs[s].limit \in Nat /\ TaskCount(s, n) \in Nat
  BY PlacementAssumption, TasksFinite DEF CycleTypeOK
<1>1. ASSUME NEW r \in Resource PROVE i * specs[s].reserve[r] <= Available(n, r)'
  <2>1. /\ specs[s].reserve[r] \in Nat
        /\ (i + 1) * specs[s].reserve[r] <= Available(n, r)
        /\ Reserved(n, r)' = Reserved(n, r) + specs[s].reserve[r]
    BY <1>0, LessRoom DEF Takes, CycleTypeOK
  <2>2. (i + 1) * specs[s].reserve[r] = i * specs[s].reserve[r] + specs[s].reserve[r]
        /\ i * specs[s].reserve[r] \in Nat
    BY <2>1
  <2>3. /\ Reserved(n, r) \in Nat /\ nodes[n].capacity[r] \in Nat
        /\ Available(n, r) = IF Reserved(n, r) <= nodes[n].capacity[r]
                               THEN nodes[n].capacity[r] - Reserved(n, r) ELSE 0
    BY AvailableIs
  <2>4. Available(n, r)' = IF Reserved(n, r)' <= nodes[n].capacity[r]
                             THEN nodes[n].capacity[r] - Reserved(n, r)' ELSE 0
    BY AvailableAfter DEF AvailableFact
  <2>5. i * specs[s].reserve[r] = 0 \/ specs[s].reserve[r] > 0
    BY <2>1
  <2> DEFINE part == i * specs[s].reserve[r]
  <2> HIDE DEF part
  <2>6. /\ part \in Nat /\ part + specs[s].reserve[r] <= Available(n, r)
        /\ part = 0 \/ specs[s].reserve[r] > 0
    BY <2>1, <2>2, <2>5 DEF part
  <2>7. part <= Available(n, r)'
    <3> DEFINE cap == nodes[n].capacity[r]
               res == Reserved(n, r)
               more == specs[s].reserve[r]
    <3>1. /\ part \in Nat /\ cap \in Nat /\ res \in Nat /\ more \in Nat
          /\ part + more <= IF res <= cap THEN cap - res ELSE 0
          /\ part = 0 \/ more > 0
      BY <2>1, <2>3, <2>6
    <3>2. Available(n, r)' = IF res + more <= cap THEN cap - (res + more) ELSE 0
      BY <2>1, <2>4
    <3> HIDE DEF cap, res, more
    <3> QED BY <3>1, <3>2
  <2> QED BY <2>7 DEF part
<1>2. specs[s].limit > 0 => TaskCount(s, n)' + i <= specs[s].limit
  BY <1>0, LessRoom DEF Takes
<1>3. specs[s].ports = {}
  BY DEF Takes
<1> QED BY <1>1, <1>2, <1>3 DEF Takes

(* A task that is placed costs its service one slot at most: the others    *)
(* move down by one on its node and stay on the other nodes.               *)
LEMMA SlotsPlaced ==
  ASSUME CycleTypeOK, CycleTypeOK', UNCHANGED <<specs, nodes>>, NEW k \in Task,
         NEW n \in Node \ {Target}, k \notin TasksOn(n), TasksOn(n)' = TasksOn(n) \cup {k},
         \A m \in Node \ {Target, n} : TasksOn(m)' = TasksOn(m)
  PROVE  Cardinality(Slots(ServiceOf[k])) <= Cardinality(Slots(ServiceOf[k])') + 1
<1> DEFINE s == ServiceOf[k]
           Others == Slots(s) \ {<<n, 1>>}
           f == [w \in Others |-> IF w[1] = n THEN <<n, w[2] - 1>> ELSE w]
<1>0. Cardinality(Task) \in Nat
  BY PlacementAssumption, FS_CardinalityType
<1>1. SameNodes
  BY DEF SameNodes, CycleTypeOK
<1>2. ASSUME NEW w \in Others
      PROVE  /\ w = <<w[1], w[2]>> /\ w[1] \in Node \ {Target} /\ w[2] \in 1..Cardinality(Task)
             /\ Suits(s, w[1]) /\ Takes(s, w[1], w[2])
             /\ w[1] = n => w[2] # 1
  BY DEF Slots, Suits
<1>3. ASSUME NEW w \in Others PROVE f[w] \in Slots(s)'
  <2>1. CASE w[1] = n
    <3> DEFINE i == w[2] - 1
    <3>1. i \in Nat /\ i >= 1 /\ w[2] = i + 1 /\ i \in 1..Cardinality(Task)
      BY <1>0, <1>2, <2>1
    <3>2. Takes(s, n, i)'
      BY <1>2, <2>1, <3>1, SlotTaken
    <3>3. Suits(s, n)'
      BY <1>2, <2>1 DEF Suits, Matches
    <3> QED BY <2>1, <3>1, <3>2, <3>3 DEF Slots
  <2>2. CASE w[1] # n
    <3>1. Suits(s, w[1])' /\ Takes(s, w[1], w[2])'
      BY <1>1, <1>2, <2>2, SameSlot
    <3> QED BY <1>2, <2>2, <3>1 DEF Slots
  <2> QED BY <2>1, <2>2
<1>4. ASSUME NEW v \in Others, NEW w \in Others, f[v] = f[w] PROVE v = w
  <2>1. v[2] \in Nat /\ w[2] \in Nat
    BY <1>0, <1>2
  <2> QED BY <1>2, <1>4, <2>1
<1>5. f \in Injection(Others, Slots(s)')
  <2>1. f \in [Others -> Slots(s)']
    BY <1>3
  <2> HIDE DEF f, Others
  <2> QED BY <1>4, <2>1 DEF Injection, IsInjective
<1>6. Cardinality(Others) <= Cardinality(Slots(s)')
  BY <1>5, SlotsFiniteAfter, FS_Injection
<1>7. Cardinality(Others) >= Cardinality(Slots(s)) - 1 /\ Cardinality(Others) \in Nat
  <2>1. IsFiniteSet(Slots(s)) /\ Cardinality(Slots(s)) \in Nat
    BY SlotsFinite
  <2>2. /\ IsFiniteSet(Others)
        /\ Cardinality(Others) = IF <<n, 1>> \in Slots(s) THEN Cardinality(Slots(s)) - 1
                                                       ELSE Cardinality(Slots(s))
    BY <2>1, FS_RemoveElement
  <2> QED BY <2>1, <2>2, FS_CardinalityType
<1> QED BY <1>6, <1>7, SlotsFinite, SlotsFiniteAfter

LEMMA LeavingFinite ==
  ASSUME NEW s
  PROVE  /\ IsFiniteSet(Leaving(s)) /\ Cardinality(Leaving(s)) \in Nat
         /\ IsFiniteSet(Leaving(s)') /\ Cardinality(Leaving(s)') \in Nat
BY PlacementAssumption, FS_Subset, FS_CardinalityType DEF Leaving

(* A complete preview is about one service. *)
LEMMA OneMoving ==
  ASSUME PreviewComplete, preview.moving \subseteq Service,
         NEW s \in preview.moving, NEW t \in preview.moving
  PROVE  s = t
<1>1. IsFiniteSet(preview.moving) /\ Cardinality(preview.moving) <= 1
  BY PlacementAssumption, FS_Subset DEF PreviewComplete
<1>2. {s} \subseteq preview.moving /\ Cardinality({s}) = 1 /\ IsFiniteSet({s})
  BY FS_Singleton
<1>3. Cardinality({s}) <= Cardinality(preview.moving) /\ Cardinality(preview.moving) \in Nat
  BY <1>1, <1>2, FS_Subset, FS_CardinalityType
<1>4. {s} = preview.moving
  BY <1>1, <1>2, <1>3, FS_Subset
<1> QED BY <1>4

-----------------------------------------------------------------------------
(* EvacuationInv is inductive.                                             *)

LEMMA EvacuationStarts == Init => EvacuationInv
BY InitTyped DEF Init, EvacuationInv

(* The drain: nothing is pending, and what is on the target has been       *)
(* previewed.                                                              *)
LEMMA DrainFits ==
  ASSUME EvacuationInv, Drain
  PROVE  EvacuationInv'
<1>1. CycleTypeOK /\ CycleTypeOK' /\ SameNodes /\ UNCHANGED <<specs, tasks>>
  BY TypedStep, NodesStay DEF EvacuationInv, CycleTypeOK, Drain, Next
<1>2. nodes'[Target].availability = "drain" /\ preview'.moving = Moving
  <2>1. nodes[Target] = [field \in NodeFields |-> nodes[Target][field]]
    BY <1>1, PlacementAssumption DEF CycleTypeOK, IsNodes
  <2>2. nodes'[Target] = [nodes[Target] EXCEPT !.availability = "drain"]
    BY <1>1, PlacementAssumption DEF Drain, SetTarget, CycleTypeOK, IsNodes
  <2>3. nodes'[Target].availability = "drain"
    BY <2>1, <2>2 DEF NodeFields
  <2> QED BY <2>3 DEF Drain
<1>3. Moving \subseteq Service
  BY DEF Moving, Affected
<1>4. ASSUME NEW k \in Task
      PROVE  /\ tasks[k].state # "pending"
             /\ k \in TasksOn(Target) =>
                  ServiceOf[k] \in Moving \/ specs[ServiceOf[k]].mode = "global"
  <2>1. ServiceOf[k] \in Service /\ tasks[k].state \in {"running", "ended"}
    BY PlacementAssumption DEF Drain, SafeToDrain, CheckNode, AllConverged, Converged
  <2>2. k \in TasksOn(Target) => ServiceOf[k] \in Affected
    BY <2>1 DEF Affected, ServiceTasksOn
  <2> QED BY <2>1, <2>2 DEF Drain, SafeToDrain, Moving
<1>5. ASSUME PreviewComplete', NEW s \in Moving
      PROVE  Cardinality(Leaving(s)') <= Cardinality(Slots(s)')
  <2>1. Unevaluated(s) = {}
    BY <1>1, <1>2, <1>5 DEF PreviewComplete, Unevaluated, Evaluated
  <2>2. Slots(s)' = Slots(s)
    BY <1>1, SlotsKept DEF TasksOn
  <2>3. Leaving(s)' = ServiceTasksOn(s, Target)
    BY <1>1, <1>4 DEF Leaving, ServiceTasksOn, TasksOn
  <2> QED BY <1>1, <1>3, <2>1, <2>2, <2>3, SafeLeavesSlots DEF Drain, TaskCount
<1>6. TasksOn(Target)' = TasksOn(Target)
  BY <1>1 DEF TasksOn
<1> QED BY <1>1, <1>2, <1>3, <1>4, <1>5, <1>6 DEF EvacuationInv

(* While the target stays drained, a step that does not send tasks to it   *)
(* and frees at least as many of them as it takes slots keeps the balance. *)
LEMMA BalanceKept ==
  ASSUME EvacuationInv, CycleTypeOK', UNCHANGED <<specs, stage, preview>>, stage = "drained",
         nodes'[Target].availability = "drain",
         \A k \in Task :
            /\ tasks'[k].state = "pending" /\ tasks[k].state # "pending"
                 => k \in TasksOn(Target) /\ specs[ServiceOf[k]].mode # "global"
            /\ k \in TasksOn(Target)' => k \in TasksOn(Target),
         PreviewComplete => \A s \in preview.moving :
            \/ Leaving(s)' = {}
            \/ /\ Leaving(s)' \subseteq Leaving(s)
               /\ Slots(s)' = Slots(s)
            \/ \E k \in Leaving(s) :
                 /\ Leaving(s)' = Leaving(s) \ {k}
                 /\ Cardinality(Slots(s)) <= Cardinality(Slots(s)') + 1
  PROVE  EvacuationInv'
<1>1. PreviewComplete' <=> PreviewComplete
  BY DEF PreviewComplete, Unevaluated, Evaluated
<1>2. ASSUME PreviewComplete, NEW s \in preview.moving
      PROVE  Cardinality(Leaving(s)') <= Cardinality(Slots(s)')
  <2>1. Cardinality(Leaving(s)) <= Cardinality(Slots(s))
    BY <1>2 DEF EvacuationInv
  <2>2. /\ Cardinality(Leaving(s)) \in Nat /\ IsFiniteSet(Leaving(s))
        /\ Cardinality(Slots(s)) \in Nat /\ Cardinality(Slots(s)') \in Nat
        /\ Cardinality(Leaving(s)') \in Nat
    BY LeavingFinite, SlotsFinite, SlotsFiniteAfter
  <2>3. CASE Leaving(s)' = {}
    <3>1. Cardinality(Leaving(s)') = 0
      BY <2>3, FS_EmptySet
    <3> QED BY <2>2, <3>1
  <2>4. CASE Leaving(s)' \subseteq Leaving(s) /\ Slots(s)' = Slots(s)
    <3>1. Cardinality(Leaving(s)') <= Cardinality(Leaving(s))
      BY <2>2, <2>4, FS_Subset
    <3>2. Cardinality(Slots(s)') = Cardinality(Slots(s))
      BY <2>4
    <3> QED BY <2>1, <2>2, <3>1, <3>2
  <2>5. CASE \E k \in Leaving(s) :
               /\ Leaving(s)' = Leaving(s) \ {k}
               /\ Cardinality(Slots(s)) <= Cardinality(Slots(s)') + 1
    <3>1. PICK k \in Leaving(s) :
            /\ Leaving(s)' = Leaving(s) \ {k}
            /\ Cardinality(Slots(s)) <= Cardinality(Slots(s)') + 1
      BY <2>5
    <3>2. Cardinality(Leaving(s)') = Cardinality(Leaving(s)) - 1
      BY <2>2, <3>1, FS_RemoveElement
    <3> QED BY <2>1, <2>2, <3>1, <3>2
  <2> QED BY <1>2, <2>3, <2>4, <2>5
<1> QED BY <1>1, <1>2 DEF EvacuationInv

(* A task that gets a place leaves one task less, for one slot. *)
LEMMA PlaceFits ==
  ASSUME EvacuationInv, stage = "drained", NEW k \in Task, Place(k)
  PROVE  EvacuationInv'
<1> DEFINE s == ServiceOf[k]
<1>1. PICK n \in Node :
        Fits(s, n) /\ tasks' = [tasks EXCEPT ![k] = [node |-> n, state |-> "starting"]]
  BY DEF Place
<1>2. /\ CycleTypeOK /\ CycleTypeOK' /\ UNCHANGED <<specs, nodes, stage, preview>>
      /\ nodes[Target].availability = "drain" /\ preview.moving \subseteq Service
      /\ tasks[k].state = "pending" /\ s \in preview.moving
      /\ tasks \in [Task -> [node : Node \cup {NoNode}, state : States]]
      /\ tasks[k].node = NoNode
  BY TypedStep DEF EvacuationInv, CycleTypeOK, Place, Next, SwarmStep
<1>3. n \in Node \ {Target}
  BY <1>1, <1>2 DEF Fits, HasRoom
<1>4. /\ tasks'[k] = [node |-> n, state |-> "starting"]
      /\ \A l \in Task : l # k => tasks'[l] = tasks[l]
  BY <1>1, <1>2
<1>5. /\ k \notin TasksOn(n) /\ TasksOn(n)' = TasksOn(n) \cup {k}
      /\ \A m \in Node \ {n} : TasksOn(m)' = TasksOn(m)
  BY <1>2, <1>4, PlacementAssumption DEF TasksOn
<1>6. k \in Leaving(s) /\ Leaving(s)' = Leaving(s) \ {k}
  <2>1. TasksOn(Target)' = TasksOn(Target)
    BY <1>3, <1>5, PlacementAssumption
  <2>2. k \notin TasksOn(Target)
    BY <1>2, PlacementAssumption DEF TasksOn
  <2>3. ASSUME NEW l \in Task
        PROVE  l \in Leaving(s)' <=> l \in Leaving(s) /\ l # k
    BY <1>2, <1>4, <2>1, <2>2 DEF Leaving
  <2>4. Leaving(s) \subseteq Task /\ Leaving(s)' \subseteq Task /\ k \in Leaving(s)
    BY <1>2 DEF Leaving
  <2> HIDE DEF s
  <2> QED BY <2>3, <2>4
<1>7. Cardinality(Slots(s)) <= Cardinality(Slots(s)') + 1
  BY <1>2, <1>3, <1>5, SlotsPlaced
<1>8. PreviewComplete => \A t \in preview.moving : t = s
  BY <1>2, OneMoving
<1>9. TasksOn(Target)' = TasksOn(Target)
  BY <1>3, <1>5, PlacementAssumption
<1>10. \A l \in Task : tasks'[l].state = "pending" => tasks[l].state = "pending"
  BY <1>2, <1>4
<1> QED BY <1>2, <1>6, <1>7, <1>8, <1>9, <1>10, BalanceKept

(* A task that leaves the target is counted before and after. *)
LEMMA DisplaceFits ==
  ASSUME EvacuationInv, stage = "drained", NEW k \in Task, Displace(k)
  PROVE  EvacuationInv'
<1>1. /\ CycleTypeOK /\ CycleTypeOK' /\ UNCHANGED <<specs, nodes, stage, preview>>
      /\ nodes[Target].availability = "drain" /\ k \in TasksOn(Target)
      /\ tasks \in [Task -> [node : Node \cup {NoNode}, state : States]]
  BY TypedStep DEF EvacuationInv, CycleTypeOK, Displace, Next, SwarmStep
<1>2. \A l \in Task : l # k => tasks'[l] = tasks[l]
  BY <1>1 DEF Displace
<1>3. IF specs[ServiceOf[k]].mode = "global" THEN tasks'[k].state = "ended"
                                             ELSE tasks'[k] = [node |-> NoNode, state |-> "pending"]
  <2>1. specs[ServiceOf[k]].mode = "global"
          => tasks'[k] = [node |-> tasks[k].node, state |-> "ended"]
    BY <1>1, StateSet DEF Displace
  <2>2. specs[ServiceOf[k]].mode # "global" => tasks'[k] = [node |-> NoNode, state |-> "pending"]
    BY <1>1 DEF Displace
  <2> QED BY <2>1, <2>2
<1>4. k \notin TasksOn(Target)'
  BY <1>3, PlacementAssumption DEF TasksOn
<1>5. \A n \in Node \ {Target} : TasksOn(n)' = TasksOn(n)
  BY <1>1, <1>2, <1>3, PlacementAssumption DEF TasksOn
<1>6. \A l \in Task : l \in TasksOn(Target)' => l \in TasksOn(Target)
  BY <1>2, <1>4 DEF TasksOn
<1>7. \A s : Leaving(s)' \subseteq Leaving(s)
  BY <1>1, <1>2, <1>6 DEF Leaving
<1>8. \A s : Slots(s)' = Slots(s)
  BY <1>1, <1>5, SlotsKept DEF SameNodes, CycleTypeOK
<1>9. \A l \in Task :
        /\ tasks'[l].state = "pending" /\ tasks[l].state # "pending"
             => l \in TasksOn(Target) /\ specs[ServiceOf[l]].mode # "global"
        /\ l \in TasksOn(Target)' => l \in TasksOn(Target)
  BY <1>1, <1>2, <1>3, <1>6
<1> QED BY <1>1, <1>7, <1>8, <1>9, BalanceKept

(* Steps that leave each task where it is and none of them pending. *)
LEMMA StayingFits ==
  ASSUME EvacuationInv, stage = "drained", CycleTypeOK', SameNodes,
         UNCHANGED <<specs, stage, preview>>, nodes'[Target].availability = "drain",
         \A k \in Task : /\ tasks'[k].node = tasks[k].node
                         /\ tasks'[k].state = "ended" <=> tasks[k].state = "ended"
                         /\ tasks'[k].state = "pending" <=> tasks[k].state = "pending"
  PROVE  EvacuationInv'
<1>1. \A n : TasksOn(n)' = TasksOn(n)
  BY DEF TasksOn
<1>2. \A s : Leaving(s)' = Leaving(s)
  BY <1>1 DEF Leaving
<1>3. \A s : Slots(s)' = Slots(s)
  BY <1>1, SlotsKept DEF EvacuationInv
<1> QED BY <1>1, <1>2, <1>3, BalanceKept

(* Who follows the report does so when no task is left to place. *)
LEMMA FollowFits ==
  ASSUME EvacuationInv, stage = "drained", FollowReport
  PROVE  EvacuationInv'
<1>1. /\ CycleTypeOK' /\ UNCHANGED <<specs, nodes, stage, preview>>
      /\ nodes[Target].availability = "drain" /\ TasksOn(Target) = {}
      /\ tasks \in [Task -> [node : Node \cup {NoNode}, state : States]]
  BY TypedStep DEF EvacuationInv, CycleTypeOK, FollowReport, Next
<1>2. \A k \in Task : tasks[k].state # "pending"
  BY PlacementAssumption DEF FollowReport, AllConverged, Converged
<1>3. PICK s \in Service, n \in Node, k \in Task :
        /\ Fits(s, n)
        /\ tasks' = [tasks EXCEPT ![k] = [node |-> n, state |-> "starting"]]
  BY DEF FollowReport, KnownEligibleDestinations, Considered, ServiceTasksOn, TasksOn
<1>4. n # Target
  BY <1>1, <1>3 DEF Fits, HasRoom
<1>5. /\ tasks'[k] = [node |-> n, state |-> "starting"]
      /\ \A l \in Task : l # k => tasks'[l] = tasks[l]
  BY <1>1, <1>3
<1>6. (\A l \in Task : tasks'[l].state # "pending") /\ TasksOn(Target)' = {}
  BY <1>1, <1>2, <1>4, <1>5 DEF TasksOn
<1>7. \A t : Leaving(t)' = {}
  BY <1>6 DEF Leaving
<1> QED BY <1>1, <1>6, <1>7, BalanceKept

LEMMA EvacuationStep ==
  ASSUME EvacuationInv, [Next]_cycleVars
  PROVE  EvacuationInv'
<1>1. CycleTypeOK' /\ SameNodes
  BY TypedStep, NodesStay DEF EvacuationInv, CycleTypeOK
<1>2. CASE stage' # "drained"
  BY <1>1, <1>2 DEF EvacuationInv
<1>3. CASE stage' = "drained" /\ stage # "drained"
  BY <1>3, DrainFits
     DEF Next, TakeOffline, Activate, SwarmStep, HostReturns, Elect, FollowReport, Displace, Place,
         Start, cycleVars
<1>4. CASE stage' = "drained" /\ stage = "drained"
  <2>1. ~Drain /\ ~TakeOffline /\ ~Activate /\ ~HostReturns
    BY <1>4 DEF Drain, TakeOffline, Activate, HostReturns
  <2>2. nodes[Target].availability = "drain"
    BY <1>4 DEF EvacuationInv
  <2>3. ASSUME NEW k \in Task, Start(k) PROVE EvacuationInv'
    <3>1. tasks' = [tasks EXCEPT ![k] = [node |-> tasks[k].node, state |-> "running"]]
          /\ tasks[k].state = "starting"
          /\ tasks \in [Task -> [node : Node \cup {NoNode}, state : States]]
      BY <2>3, StateSet DEF Start, EvacuationInv, CycleTypeOK
    <3> QED BY <1>1, <1>4, <2>2, <2>3, <3>1, StayingFits DEF Start
  <2>4. ASSUME NEW n \in Node, Elect(n) PROVE EvacuationInv'
    <3>1. nodes'[Target].availability = nodes[Target].availability
      <4>1. nodes[Target] = [field \in NodeFields |-> nodes[Target][field]]
        BY PlacementAssumption DEF EvacuationInv, CycleTypeOK, IsNodes
      <4>2. \/ nodes'[Target] = nodes[Target]
            \/ \E office : nodes'[Target] = [nodes[Target] EXCEPT !.standing = office]
        BY <2>4, PlacementAssumption DEF Elect
      <4> QED BY <4>1, <4>2, FieldsOf DEF NodeFields
    <3> QED BY <1>1, <1>4, <2>2, <2>4, <3>1, StayingFits DEF Elect
  <2>5. CASE UNCHANGED cycleVars
    BY <1>1, <1>4, <2>2, <2>5, StayingFits DEF cycleVars, inventory
  <2> QED BY <1>4, <2>1, <2>3, <2>4, <2>5, PlaceFits, DisplaceFits, FollowFits DEF Next, SwarmStep
<1> QED BY <1>2, <1>3, <1>4

(* A slot for many is a place for one. *)
LEMMA SlotsFit ==
  ASSUME EvacuationInv
  PROVE  EvacuationFits
<1> SUFFICES ASSUME stage = "drained", PreviewComplete, NEW k \in Task, tasks[k].state = "pending"
             PROVE  \E n \in Node : Fits(ServiceOf[k], n)
  BY DEF EvacuationFits
<1> DEFINE s == ServiceOf[k]
<1>1. /\ s \in preview.moving /\ s \in Service /\ specs[s].limit \in Nat
      /\ Cardinality(Leaving(s)) <= Cardinality(Slots(s))
  BY DEF EvacuationInv, CycleTypeOK
<1>2. Leaving(s) # {}
  BY DEF Leaving
<1>3. Slots(s) # {}
  BY <1>1, <1>2, LeavingFinite, SlotsFinite, FS_EmptySet
<1>4. PICK n \in Node, i \in 1..Cardinality(Task) : Suits(s, n) /\ Takes(s, n, i)
  BY <1>3 DEF Slots
<1>5. i \in Nat /\ i >= 1
  BY PlacementAssumption, FS_CardinalityType
<1>6. ASSUME NEW r \in Resource PROVE specs[s].reserve[r] <= Available(n, r)
  <2>1. /\ specs[s].reserve[r] \in Nat /\ Available(n, r) \in Nat
        /\ i * specs[s].reserve[r] <= Available(n, r)
    BY <1>1, <1>4, AvailableIs DEF EvacuationInv, CycleTypeOK, Takes
  <2>2. i * specs[s].reserve[r] >= specs[s].reserve[r] /\ i * specs[s].reserve[r] \in Nat
    BY <1>5, <2>1
  <2> QED BY <2>1, <2>2
<1>7. specs[s].limit > 0 => Cardinality(ServiceTasksOn(s, n)) < specs[s].limit
  BY <1>1, <1>4, <1>5, TasksFinite DEF Takes, TaskCount
<1> QED BY <1>4, <1>6, <1>7 DEF Suits, Takes, Fits, HasRoom

(* A drain the preview calls safe strands no task, for every inventory:    *)
(* whatever other places the first tasks of the moving service are given,  *)
(* the ones that are left are no more than the slots that are left.        *)
THEOREM SafeDrainStrandsNone == Spec => []EvacuationFits
<1>1. Init => EvacuationInv
  BY EvacuationStarts
<1>2. EvacuationInv /\ [Next]_cycleVars => EvacuationInv'
  BY EvacuationStep
<1>3. EvacuationInv => EvacuationFits
  BY SlotsFit
<1> QED BY <1>1, <1>2, <1>3, PTL DEF Spec
=============================================================================
