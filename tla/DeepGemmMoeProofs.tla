--------------------------- MODULE DeepGemmMoeProofs ---------------------------
(***************************************************************************)
(* Theorems about the experts of DeepGEMM.  The scatter: the rows handed   *)
(* out by the atomic adds are distinct, lie in the region of their expert  *)
(* and hold their token, for every number of tokens, choices and experts   *)
(* and every routing.  Their distinctness is what keeps the programs of    *)
(* scatter_2, which copy without looking at each other, from overwriting   *)
(* a row.  Then the pipeline, with the gather: it implements MoeReduce for *)
(* every size, routing, layout of the counts and in-place choice; the      *)
(* initial states map to initial states, every step to a step or stutter.  *)
(***************************************************************************)
EXTENDS DeepGemmMoe, FiniteSetTheorems, SequenceTheorems, WellFoundedInduction, TLAPS

\* The masked load of scatter_2 is defined on every id: with an expert map the
\* router leaves no invalid id.
DefinedLanes == HasMap => -1 \notin Ids

--------------------------------------------------------------------------------
(* The cumulative sum.                                                         *)

\* Every set of naturals that has an element has a least one.
LEMMA LeastElement ==
  ASSUME NEW T, T \subseteq Nat, T # {}
  PROVE  \E n \in T : \A m \in T : n <= m
<1>1. PICK x \in T : \A y \in T : ~ (<< y, x >> \in OpToRel(<, Nat))
  BY NatLessThanWellFounded, WFMin
<1>2. ASSUME NEW m \in T PROVE x <= m
  <2>1. x \in Nat /\ m \in Nat
    OBVIOUS
  <2>2. ~ (<< m, x >> \in {ss \in Nat \X Nat : ss[1] < ss[2]})
    BY <1>1 DEF OpToRel
  <2>3. ~ (m < x)
    BY <2>1, <2>2
  <2>4. QED
    BY <2>3, <2>1
<1>3. QED
  BY <1>2

\* The recursion of Cumsum has a solution, so the function it defines obeys it.
LEMMA CumsumRecursion ==
  ASSUME NEW c \in [Experts -> Nat]
  PROVE  /\ Cumsum(c) \in [0 .. NumExperts -> Nat]
         /\ Cumsum(c)[0] = 0
         /\ \A e \in Experts : Cumsum(c)[e + 1] = Cumsum(c)[e] + c[e]
<1> DEFINE Good(s, k) == /\ s \in [0 .. k -> Nat]
                         /\ s[0] = 0
                         /\ \A i \in 1 .. k : s[i] = s[i - 1] + c[i - 1]
           Bad == {k \in 0 .. NumExperts : ~ \E s : Good(s, k)}
<1>0. NumExperts \in Nat
  BY SizeAssumption
<1>1. Bad = {}
  <2> SUFFICES ASSUME Bad # {} PROVE FALSE
    OBVIOUS
  <2>1. Bad \subseteq Nat
    BY <1>0
  <2>2. PICK k \in Bad : \A m \in Bad : k <= m
    <3> HIDE DEF Bad
    <3> QED BY LeastElement, <2>1
  <2>3. k # 0
    <3>1. Good([i \in 0 .. 0 |-> 0], 0)
      OBVIOUS
    <3>2. QED
      BY <3>1
  <2>4. k \in 1 .. NumExperts /\ k - 1 \in 0 .. NumExperts
    BY <1>0, <2>3
  <2>5. PICK s : Good(s, k - 1)
    <3>1. k - 1 \notin Bad
      BY <2>2, <2>4
    <3>2. QED
      BY <3>1, <2>4
  <2>6. c[k - 1] \in Nat
    BY <1>0, <2>4 DEF Experts
  <2> DEFINE longer == [i \in 0 .. k |-> IF i = k THEN s[k - 1] + c[k - 1] ELSE s[i]]
  <2>7. longer \in [0 .. k -> Nat] /\ longer[0] = 0
    BY <2>4, <2>5, <2>6
  <2>8. ASSUME NEW i \in 1 .. k PROVE longer[i] = longer[i - 1] + c[i - 1]
    <3>1. CASE i = k
      BY <3>1, <2>4
    <3>2. CASE i # k
      BY <3>2, <2>4, <2>5
    <3>3. QED
      BY <3>1, <3>2
  <2>9. Good(longer, k)
    BY <2>7, <2>8
  <2>10. QED
    BY <2>9
<1>2. PICK s : Good(s, NumExperts)
  <2>1. NumExperts \in 0 .. NumExperts
    BY <1>0
  <2>2. QED
    BY <1>1, <2>1
<1>3. s = [e \in 0 .. NumExperts |-> IF e = 0 THEN 0 ELSE s[e - 1] + c[e - 1]]
  <2>1. \A e \in 0 .. NumExperts : s[e] = IF e = 0 THEN 0 ELSE s[e - 1] + c[e - 1]
    BY <1>0, <1>2
  <2>2. QED
    BY <2>1, <1>2
<1>4. Cumsum(c) = [e \in 0 .. NumExperts |-> IF e = 0 THEN 0 ELSE Cumsum(c)[e - 1] + c[e - 1]]
  BY <1>3 DEF Cumsum
<1> DEFINE f == Cumsum(c)
           B == {e \in 0 .. NumExperts : f[e] \notin Nat}
<1>5. f = [e \in 0 .. NumExperts |-> IF e = 0 THEN 0 ELSE f[e - 1] + c[e - 1]]
  BY <1>4
<1> HIDE DEF f
<1>6. \A e \in 0 .. NumExperts : f[e] \in Nat
  <2> SUFFICES ASSUME B # {} PROVE FALSE
    OBVIOUS
  <2>1. B \subseteq Nat
    BY <1>0
  <2>2. PICK k \in B : \A m \in B : k <= m
    <3> HIDE DEF B
    <3> QED BY LeastElement, <2>1
  <2>3. CASE k = 0
    BY <2>3, <1>5
  <2>4. CASE k # 0
    <3>1. k \in 1 .. NumExperts /\ k - 1 \in Experts /\ k - 1 \in 0 .. NumExperts
      BY <2>2, <2>4, <1>0 DEF Experts
    <3>2. k - 1 \notin B
      BY <3>1, <2>2
    <3>3. f[k] = f[k - 1] + c[k - 1]
      BY <3>1, <1>5
    <3>4. QED
      BY <3>1, <3>2, <3>3
  <2>5. QED
    BY <2>3, <2>4
<1>7. \A e \in Experts : f[e + 1] = f[e] + c[e]
  BY <1>5, <1>0 DEF Experts
<1>8. f \in [0 .. NumExperts -> Nat] /\ f[0] = 0
  BY <1>5, <1>6, <1>0
<1>9. QED
  BY <1>7, <1>8 DEF f

\* The sums never decrease: the region of an expert ends before the region of
\* a later expert starts.
LEMMA CumsumMonotone ==
  ASSUME NEW c \in [Experts -> Nat],
         NEW i \in 0 .. NumExperts, NEW j \in 0 .. NumExperts, i <= j
  PROVE  Cumsum(c)[i] <= Cumsum(c)[j]
<1> DEFINE f == Cumsum(c)
           B == {k \in i .. NumExperts : ~ (f[i] <= f[k])}
<1>0. NumExperts \in Nat
  BY SizeAssumption
<1>1. f \in [0 .. NumExperts -> Nat] /\ \A e \in Experts : f[e + 1] = f[e] + c[e]
  BY CumsumRecursion
<1> HIDE DEF f
<1>2. B = {}
  <2> SUFFICES ASSUME B # {} PROVE FALSE
    OBVIOUS
  <2>1. B \subseteq Nat
    BY <1>0
  <2>2. PICK k \in B : \A m \in B : k <= m
    <3> HIDE DEF B
    <3> QED BY LeastElement, <2>1
  <2>3. k # i
    BY <1>1
  <2>4. k - 1 \in Experts /\ k - 1 \in i .. NumExperts /\ k \in 0 .. NumExperts
    BY <2>3, <1>0 DEF Experts
  <2>5. f[i] <= f[k - 1]
    BY <2>2, <2>4
  <2>6. f[k] = f[k - 1] + c[k - 1]
    <3>1. (k - 1) + 1 = k /\ f[(k - 1) + 1] = f[k - 1] + c[k - 1]
      BY <2>4, <1>1
    <3>2. QED
      BY <3>1
  <2>7. f[i] \in Nat /\ f[k - 1] \in Nat /\ c[k - 1] \in Nat
    BY <2>4, <1>1, <1>0
  <2>8. QED
    BY <2>5, <2>6, <2>7
<1>3. QED
  BY <1>2, <1>0 DEF f

\* Larger terms have larger sums.
LEMMA CumsumPointwise ==
  ASSUME NEW c \in [Experts -> Nat], NEW d \in [Experts -> Nat],
         \A e \in Experts : c[e] <= d[e]
  PROVE  Cumsum(c)[NumExperts] <= Cumsum(d)[NumExperts]
<1> DEFINE f == Cumsum(c)
           g == Cumsum(d)
           B == {k \in 0 .. NumExperts : ~ (f[k] <= g[k])}
<1>0. NumExperts \in Nat
  BY SizeAssumption
<1>1. /\ f \in [0 .. NumExperts -> Nat] /\ f[0] = 0
      /\ \A e \in Experts : f[e + 1] = f[e] + c[e]
  BY CumsumRecursion
<1>2. /\ g \in [0 .. NumExperts -> Nat] /\ g[0] = 0
      /\ \A e \in Experts : g[e + 1] = g[e] + d[e]
  BY CumsumRecursion
<1> HIDE DEF f, g
<1>3. B = {}
  <2> SUFFICES ASSUME B # {} PROVE FALSE
    OBVIOUS
  <2>1. B \subseteq Nat
    BY <1>0
  <2>2. PICK k \in B : \A m \in B : k <= m
    <3> HIDE DEF B
    <3> QED BY LeastElement, <2>1
  <2>3. k # 0
    BY <1>1, <1>2
  <2>4. k - 1 \in Experts /\ k - 1 \in 0 .. NumExperts /\ k \in 0 .. NumExperts
    BY <2>3, <1>0 DEF Experts
  <2>5. f[k - 1] <= g[k - 1]
    BY <2>2, <2>4
  <2>6. f[k] = f[k - 1] + c[k - 1] /\ g[k] = g[k - 1] + d[k - 1]
    <3>1. (k - 1) + 1 = k
      BY <2>4
    <3>2. /\ f[(k - 1) + 1] = f[k - 1] + c[k - 1]
          /\ g[(k - 1) + 1] = g[k - 1] + d[k - 1]
      BY <2>4, <1>1, <1>2
    <3>3. QED
      BY <3>1, <3>2
  <2>7. c[k - 1] \in Nat /\ d[k - 1] \in Nat /\ c[k - 1] <= d[k - 1]
    BY <2>4
  <2>8. f[k - 1] \in Nat /\ g[k - 1] \in Nat
    BY <2>4, <1>1, <1>2
  <2>9. QED
    BY <2>5, <2>6, <2>7, <2>8
<1>4. QED
  BY <1>3, <1>0 DEF f, g

--------------------------------------------------------------------------------
(* The counts of a routing, and the capacity of the permuted buffer.           *)

LEMMA LanesFinite == IsFiniteSet(Lanes) /\ Cardinality(Lanes) = NumTokens * TopK
<1>1. ASSUME NEW n \in Nat
      PROVE  IsFiniteSet(0 .. n - 1) /\ Cardinality(0 .. n - 1) = n
  <2>1. 0 \in Int /\ n - 1 \in Int
    OBVIOUS
  <2>2. /\ IsFiniteSet(0 .. n - 1)
        /\ Cardinality(0 .. n - 1) = IF 0 > n - 1 THEN 0 ELSE n - 1 - 0 + 1
    BY <2>1, FS_Interval
  <2>3. QED
    BY <2>2
<1>2. /\ IsFiniteSet(Tokens) /\ Cardinality(Tokens) = NumTokens
      /\ IsFiniteSet(Slots) /\ Cardinality(Slots) = TopK
  BY <1>1, SizeAssumption DEF Tokens, Slots
<1>3. QED
  BY <1>2, FS_Product DEF Lanes

LEMMA CountsType ==
  ASSUME NEW ids
  PROVE  CountsOf(ids) \in [Experts -> Nat]
<1>1. ASSUME NEW e \in Experts PROVE Cardinality(LanesOf(ids, e)) \in Nat
  <2>1. IsFiniteSet(LanesOf(ids, e))
    BY LanesFinite, FS_Subset DEF LanesOf
  <2>2. QED
    BY <2>1, FS_CardinalityType
<1>2. QED
  BY <1>1 DEF CountsOf

LEMMA RoundUpAbove ==
  ASSUME NEW x \in Nat, NEW a \in Nat \ {0}
  PROVE  RoundUp(x, a) \in Nat /\ RoundUp(x, a) >= x
BY DEF RoundUp

\* The start of an expert's region is the number of lanes routed to earlier
\* experts: the regions hold every local lane, and nothing else.
LEMMA StartCountsEarlierLanes ==
  ASSUME NEW ids, NEW e \in 0 .. NumExperts
  PROVE  Cumsum(CountsOf(ids))[e]
           = Cardinality({p \in Lanes : LocalExpert(ids[p]) \in 0 .. e - 1})
<1> DEFINE f == Cumsum(CountsOf(ids))
           Earlier(k) == {p \in Lanes : LocalExpert(ids[p]) \in 0 .. k - 1}
           B == {k \in 0 .. NumExperts : f[k] # Cardinality(Earlier(k))}
<1>0. NumExperts \in Nat
  BY SizeAssumption
<1>1. /\ f[0] = 0
      /\ \A k \in Experts : f[k + 1] = f[k] + CountsOf(ids)[k]
  BY CumsumRecursion, CountsType
<1> HIDE DEF f
<1>2. B = {}
  <2> SUFFICES ASSUME B # {} PROVE FALSE
    OBVIOUS
  <2>1. B \subseteq Nat
    BY <1>0
  <2>2. PICK k \in B : \A m \in B : k <= m
    <3> HIDE DEF B
    <3> QED BY LeastElement, <2>1
  <2>3. k # 0
    <3>1. Earlier(0) = {}
      OBVIOUS
    <3>2. QED
      BY <3>1, <1>1, FS_EmptySet
  <2>4. k - 1 \in Experts /\ k - 1 \in 0 .. NumExperts
    BY <2>3, <1>0 DEF Experts
  <2>5. f[k - 1] = Cardinality(Earlier(k - 1))
    BY <2>2, <2>4
  <2>6. f[k] = f[k - 1] + Cardinality(LanesOf(ids, k - 1))
    BY <2>4, <1>1 DEF CountsOf
  <2>7. Earlier(k) = Earlier(k - 1) \cup LanesOf(ids, k - 1)
    BY <2>4 DEF LanesOf, Experts
  <2>8. Earlier(k - 1) \cap LanesOf(ids, k - 1) = {}
    BY <2>4 DEF LanesOf, Experts
  <2>9. IsFiniteSet(Earlier(k - 1)) /\ IsFiniteSet(LanesOf(ids, k - 1))
    BY LanesFinite, FS_Subset DEF LanesOf
  <2>10. Cardinality(Earlier(k)) = Cardinality(Earlier(k - 1)) + Cardinality(LanesOf(ids, k - 1))
    <3> HIDE DEF Earlier
    <3>1. Cardinality({}) = 0
      BY FS_EmptySet
    <3>2. Cardinality(Earlier(k - 1)) \in Nat /\ Cardinality(LanesOf(ids, k - 1)) \in Nat
      BY <2>9, FS_CardinalityType
    <3>3. QED
      BY <2>7, <2>8, <2>9, <3>1, <3>2, FS_Union
  <2>11. QED
    BY <2>5, <2>6, <2>10
<1>3. QED
  BY <1>2 DEF f

\* The regions fit in the buffer that compute_aligned_M sizes, whether the
\* counts are known on the host or bounded by the number of lanes.
LEMMA RegionsFit ==
  ASSUME NEW ids
  PROVE  Cumsum(CountsOf(ids))[NumExperts] <= AlignedM(CountsOf(ids))
<1> DEFINE c == CountsOf(ids)
           total == Cumsum(c)[NumExperts]
<1>0. NumExperts \in Nat /\ NumExperts \in 0 .. NumExperts /\ Align \in Nat \ {0}
  BY SizeAssumption
<1>1. c \in [Experts -> Nat] /\ total \in Nat
  BY CountsType, CumsumRecursion, <1>0
<1>2. CASE CountsOnCpu
  <2> DEFINE d == [e \in Experts |-> RoundUp(c[e], Align)]
  <2>1. \A e \in Experts : RoundUp(c[e], Align) \in Nat /\ c[e] <= RoundUp(c[e], Align)
    <3> HIDE DEF c
    <3> QED BY <1>0, <1>1, RoundUpAbove
  <2>2. d \in [Experts -> Nat] /\ \A e \in Experts : c[e] <= d[e]
    BY <2>1
  <2>3. AlignedM(c) = Cumsum(d)[NumExperts]
    BY <1>2 DEF AlignedM
  <2> HIDE DEF c, d
  <2>4. Cumsum(c)[NumExperts] <= Cumsum(d)[NumExperts]
    BY <1>1, <2>2, CumsumPointwise
  <2>5. QED
    BY <2>3, <2>4 DEF c
<1>3. CASE ~CountsOnCpu
  <2> DEFINE local == {p \in Lanes : LocalExpert(ids[p]) \in 0 .. NumExperts - 1}
             slack == NumExperts * (Align - 1)
  <2>1. total = Cardinality(local)
    BY <1>0, StartCountsEarlierLanes
  <2>2. Cardinality(local) <= NumTokens * TopK
    BY LanesFinite, FS_Subset
  <2>3. NumTokens * TopK \in Nat /\ slack \in Nat
    BY SizeAssumption
  <2>4. RoundUp(NumTokens * TopK + slack, Align) >= NumTokens * TopK + slack
    <3>1. NumTokens * TopK + slack \in Nat
      BY <2>3
    <3> HIDE DEF slack
    <3>2. QED
      BY <3>1, <1>0, RoundUpAbove
  <2>5. RoundUp(NumTokens * TopK + slack, Align) \in Nat
    <3>1. NumTokens * TopK + slack \in Nat
      BY <2>3
    <3> HIDE DEF slack
    <3>2. QED
      BY <3>1, <1>0, RoundUpAbove
  <2>6. AlignedM(c) = RoundUp(NumTokens * TopK + slack, Align)
    BY <1>3 DEF AlignedM
  <2> DEFINE n == NumTokens * TopK
             r == RoundUp(n + slack, Align)
  <2>7. n \in Nat /\ slack \in Nat /\ r \in Nat /\ r >= n + slack /\ total <= n
    BY <1>1, <2>1, <2>2, <2>3, <2>4, <2>5
  <2>8. AlignedM(c) = r
    BY <2>6
  <2> HIDE DEF n, r, slack, total, c
  <2>9. total <= AlignedM(c)
    BY <2>7, <2>8, <1>1
  <2>10. QED
    BY <2>9 DEF total, c
<1>4. QED
  BY <1>2, <1>3, ModeAssumption

LEMMA AlignedMType ==
  ASSUME NEW c \in [Experts -> Nat]
  PROVE  AlignedM(c) \in Int
<1>1. ASSUME NEW x \in Int PROVE RoundUp(x, Align) \in Int
  BY <1>1, SizeAssumption DEF RoundUp
<1>2. CASE CountsOnCpu
  <2>1. [e \in Experts |-> RoundUp(c[e], Align)] \in [Experts -> Nat]
    BY RoundUpAbove, SizeAssumption
  <2> DEFINE d == [e \in Experts |-> RoundUp(c[e], Align)]
  <2>2. Cumsum(d)[NumExperts] \in Nat
    <3> HIDE DEF d
    <3> QED BY <2>1, CumsumRecursion, SizeAssumption DEF d
  <2>3. QED
    BY <1>2, <2>2 DEF AlignedM
<1>3. CASE ~CountsOnCpu
  <2>1. NumTokens * TopK + NumExperts * (Align - 1) \in Int
    BY SizeAssumption
  <2>2. QED
    BY <1>1, <1>3, <2>1 DEF AlignedM
<1>4. QED
  BY <1>2, <1>3, ModeAssumption

--------------------------------------------------------------------------------
(* The inductive invariant.                                                    *)

\* The lanes of expert e that have taken a row.
Claimed(e) == {p \in Lanes : expert_loc[p] = e /\ dest[p] # Uninit}

\* scatter_2 starts after scatter_1 has ended.
KernelBoundary == \A t \in Tokens : pc2[t] # "load" => Scatter1Done

\* A published counter is the region's start plus the rows taken so far.
CounterCountsClaims ==
  \A e \in Experts :
    pc1[e] # "start" => expert_start_loc[e] = start[e] + Cardinality(Claimed(e))

\* A lane has no row before its program has loaded its expert, and then holds
\* the expert its id names.
LanesLoaded ==
  \A p \in Lanes :
    /\ pc2[p[1]] = "load" => dest[p] = Uninit
    /\ pc2[p[1]] # "load" => expert_loc[p] = LocalExpert(topk_ids[p])

\* A row taken lies between the region's start and its counter, and two lanes
\* of an expert have taken different rows.
RowsTaken ==
  /\ \A p \in Lanes :
       dest[p] # Uninit =>
         /\ expert_loc[p] >= 0
         /\ start[expert_loc[p]] <= dest[p]
         /\ dest[p] < expert_start_loc[expert_loc[p]]
  /\ \A p, q \in Lanes :
       /\ p # q
       /\ dest[p] # Uninit
       /\ dest[q] # Uninit
       /\ expert_loc[p] = expert_loc[q]
       => dest[p] # dest[q]

ScatterInv ==
  /\ TypeOK
  /\ KernelBoundary
  /\ CounterCountsClaims
  /\ LanesLoaded
  /\ RowsTaken

\* The host's values do not change, since the routing does not.
LEMMA HostValuesStay ==
  ASSUME topk_ids' = topk_ids
  PROVE  /\ counts' = counts /\ start' = start /\ Rows' = Rows
BY DEF counts, start, Rows

LEMMA StartType ==
  ASSUME TypeOK
  PROVE  /\ counts \in [Experts -> Nat]
         /\ start \in [0 .. NumExperts -> Nat]
         /\ \A e \in Experts : /\ e \in 0 .. NumExperts
                               /\ e + 1 \in 0 .. NumExperts
                               /\ start[e + 1] = start[e] + counts[e]
<1>1. counts \in [Experts -> Nat]
  BY CountsType DEF counts
<1>2. /\ start \in [0 .. NumExperts -> Nat]
      /\ \A e \in Experts : start[e + 1] = start[e] + counts[e]
  BY <1>1, CumsumRecursion DEF start
<1>3. \A e \in Experts : e \in 0 .. NumExperts /\ e + 1 \in 0 .. NumExperts
  BY SizeAssumption DEF Experts
<1>4. QED
  BY <1>1, <1>2, <1>3

LEMMA ClaimedFinite ==
  ASSUME NEW e
  PROVE  IsFiniteSet(Claimed(e)) /\ Cardinality(Claimed(e)) \in Nat
<1>1. Claimed(e) \in SUBSET Lanes
  BY DEF Claimed
<1>2. QED
  BY <1>1, LanesFinite, FS_Subset, FS_CardinalityType

\* The value a lane's load leaves is the expert its id names.
LEMMA LoadIsDefined ==
  ASSUME DefinedLanes, NEW id \in Ids
  PROVE  LaneExpert(id) = {LocalExpert(id)} /\ LocalExpert(id) \in Experts \cup {-1}
BY RoutingAssumption DEF LaneExpert, LocalExpert, DefinedLanes

THEOREM ScatterInvInit == Init => ScatterInv
<1> SUFFICES ASSUME Init PROVE ScatterInv
  OBVIOUS
<1>1. TypeOK
  BY DEF Init, TypeOK
<1>2. KernelBoundary
  BY DEF Init, KernelBoundary
<1>3. CounterCountsClaims
  BY DEF Init, CounterCountsClaims
<1>4. LanesLoaded
  BY DEF Init, LanesLoaded, Lanes
<1>5. RowsTaken
  BY DEF Init, RowsTaken
<1>6. QED
  BY <1>1, <1>2, <1>3, <1>4, <1>5 DEF ScatterInv

THEOREM ScatterInvNext ==
  ASSUME DefinedLanes, ScatterInv, [Next]_vars
  PROVE  ScatterInv'
<1> USE DEF ScatterInv
<1>0. Uninit \notin Int
  BY ModeAssumption
<1>1. ASSUME NEW e \in Experts, StoreStart(e) PROVE ScatterInv'
  <2> USE <1>1 DEF StoreStart, inputs, regs2
  <2>1. counts' = counts /\ start' = start /\ Rows' = Rows
    BY HostValuesStay
  <2>2. start[e] \in Nat
    BY StartType
  <2>3. TypeOK'
    BY <2>1, <2>2 DEF TypeOK
  <2>4. KernelBoundary'
    BY DEF KernelBoundary, Scatter1Done, TypeOK
  <2>5. Claimed(e) = {}
    BY DEF Claimed, LanesLoaded, KernelBoundary, Scatter1Done, Lanes
  <2>6. Cardinality(Claimed(e)) = 0
    BY <2>5, FS_EmptySet
  <2>7. \A f \in Experts : Claimed(f)' = Claimed(f)
    BY DEF Claimed
  <2>8. CounterCountsClaims'
    BY <2>1, <2>2, <2>6, <2>7 DEF CounterCountsClaims, TypeOK
  <2>9. LanesLoaded'
    BY DEF LanesLoaded
  <2>10. \A p \in Lanes : dest[p] = Uninit
    BY DEF LanesLoaded, KernelBoundary, Scatter1Done, Lanes
  <2>11. RowsTaken'
    BY <2>10 DEF RowsTaken
  <2>12. QED
    BY <2>3, <2>4, <2>8, <2>9, <2>11
<1>2. ASSUME NEW e \in Experts, LabelRow(e) PROVE ScatterInv'
  <2> USE <1>2 DEF LabelRow, inputs, regs2
  <2>1. counts' = counts /\ start' = start /\ Rows' = Rows
    BY HostValuesStay
  <2>2. TypeOK'
    <3>1. m_indices' \in [Rows -> Experts \cup {-1}]
      BY DEF TypeOK
    <3>2. filled' \in [Experts -> Nat]
      BY DEF TypeOK
    <3>3. QED
      BY <2>1, <3>1, <3>2 DEF TypeOK
  <2>3. KernelBoundary'
    BY DEF KernelBoundary, Scatter1Done
  <2>4. CounterCountsClaims'
    BY <2>1 DEF CounterCountsClaims, Claimed
  <2>5. LanesLoaded' /\ RowsTaken'
    BY <2>1 DEF LanesLoaded, RowsTaken
  <2>6. QED
    BY <2>2, <2>3, <2>4, <2>5
<1>3. ASSUME NEW e \in Experts, ExitScatter1(e) PROVE ScatterInv'
  <2> USE <1>3 DEF ExitScatter1, inputs, mem, regs2
  <2>1. counts' = counts /\ start' = start /\ Rows' = Rows
    BY HostValuesStay
  <2>2. TypeOK'
    BY <2>1 DEF TypeOK
  <2>3. KernelBoundary'
    BY DEF KernelBoundary, Scatter1Done, TypeOK
  <2>4. CounterCountsClaims'
    BY <2>1 DEF CounterCountsClaims, Claimed, TypeOK
  <2>5. LanesLoaded' /\ RowsTaken'
    BY <2>1 DEF LanesLoaded, RowsTaken
  <2>6. QED
    BY <2>2, <2>3, <2>4, <2>5
<1>4. ASSUME NEW t \in Tokens, LoadLanes(t) PROVE ScatterInv'
  <2> USE <1>4 DEF LoadLanes, inputs, mem, regs1
  <2>1. counts' = counts /\ start' = start /\ Rows' = Rows
    BY HostValuesStay
  <2>2. PICK loaded \in [Slots -> Experts \cup {-1}] :
          /\ \A k \in Slots : loaded[k] \in LaneExpert(topk_ids[<< t, k >>])
          /\ expert_loc' = [p \in Lanes |-> IF p[1] = t THEN loaded[p[2]] ELSE expert_loc[p]]
    OBVIOUS
  <2>3. \A k \in Slots : loaded[k] = LocalExpert(topk_ids[<< t, k >>])
    <3>1. \A k \in Slots : topk_ids[<< t, k >>] \in Ids
      BY DEF TypeOK, Lanes
    <3>2. QED
      BY <2>2, <3>1, LoadIsDefined
  <2>4. TypeOK'
    BY <2>1, <2>2 DEF TypeOK, Lanes
  <2>5. KernelBoundary'
    BY DEF KernelBoundary, Scatter1Done, TypeOK
  <2>6. \A p \in Lanes : p[1] = t => dest[p] = Uninit
    BY DEF LanesLoaded
  <2>7. \A p \in Lanes : dest[p] # Uninit => expert_loc'[p] = expert_loc[p]
    BY <2>2, <2>6
  <2>8. \A f \in Experts : Claimed(f)' = Claimed(f)
    BY <2>7 DEF Claimed
  <2>9. CounterCountsClaims'
    BY <2>1, <2>8 DEF CounterCountsClaims
  <2>10. LanesLoaded'
    <3> SUFFICES ASSUME NEW p \in Lanes
                 PROVE  /\ pc2'[p[1]] = "load" => dest'[p] = Uninit
                        /\ pc2'[p[1]] # "load" => expert_loc'[p] = LocalExpert(topk_ids'[p])
      BY DEF LanesLoaded
    <3>1. p = << p[1], p[2] >> /\ p[1] \in Tokens /\ p[2] \in Slots
      BY DEF Lanes
    <3>2. CASE p[1] = t
      BY <3>1, <3>2, <2>2, <2>3, <2>6
    <3>3. CASE p[1] # t
      BY <3>1, <3>3, <2>2 DEF LanesLoaded, TypeOK
    <3>4. QED
      BY <3>2, <3>3
  <2>11. RowsTaken'
    BY <2>1, <2>7 DEF RowsTaken
  <2>12. QED
    BY <2>4, <2>5, <2>9, <2>10, <2>11
<1>5. ASSUME NEW p \in Lanes, ClaimRow(p) PROVE ScatterInv'
  <2> DEFINE e == expert_loc[p]
  <2> USE <1>5 DEF ClaimRow, inputs, regs1
  <2>1. counts' = counts /\ start' = start /\ Rows' = Rows
    BY HostValuesStay
  <2>2. e \in Experts /\ p[1] \in Tokens
    <3>1. expert_loc[p] \in Experts \cup {-1}
      BY DEF TypeOK
    <3>2. QED
      BY <3>1 DEF Lanes
  <2>3. pc1[e] = "done"
    BY <2>2 DEF KernelBoundary, Scatter1Done
  <2>4. expert_start_loc[e] = start[e] + Cardinality(Claimed(e))
    BY <2>2, <2>3 DEF CounterCountsClaims
  <2>5. start[e] \in Nat /\ Cardinality(Claimed(e)) \in Nat
    BY <2>2, StartType, ClaimedFinite
  <2>6. expert_start_loc[e] \in Nat /\ start[e] <= expert_start_loc[e]
    BY <2>4, <2>5
  <2>7. /\ dest' = [dest EXCEPT ![p] = expert_start_loc[e]]
        /\ expert_start_loc' = [expert_start_loc EXCEPT ![e] = expert_start_loc[e] + 1]
    OBVIOUS
  <2>8. dest'[p] # Uninit /\ dest'[p] = expert_start_loc[e]
    BY <1>0, <2>6, <2>7 DEF TypeOK
  <2>9. expert_start_loc'[e] = expert_start_loc[e] + 1
    BY <2>2, <2>7 DEF TypeOK
  <2>10. TypeOK'
    BY <2>1, <2>2, <2>6, <2>7 DEF TypeOK
  <2>11. KernelBoundary'
    BY DEF KernelBoundary, Scatter1Done
  <2>12. \A q \in Lanes : q # p => dest'[q] = dest[q]
    BY <2>7 DEF TypeOK
  <2>13. Claimed(e)' = Claimed(e) \cup {p}
    BY <2>8, <2>12 DEF Claimed
  <2>14. \A f \in Experts : f # e => Claimed(f)' = Claimed(f)
    BY <2>12 DEF Claimed
  <2>15. CounterCountsClaims'
    <3>1. p \notin Claimed(e)
      BY DEF Claimed
    <3>2. Cardinality(Claimed(e) \cup {p}) = Cardinality(Claimed(e)) + 1
      BY <3>1, ClaimedFinite, FS_AddElement
    <3>3. expert_start_loc'[e] = start[e] + Cardinality(Claimed(e)')
      BY <2>4, <2>5, <2>9, <2>13, <3>2
    <3>4. \A f \in Experts : f # e => expert_start_loc'[f] = expert_start_loc[f]
      BY <2>2, <2>7 DEF TypeOK
    <3>5. QED
      BY <2>1, <2>14, <3>3, <3>4 DEF CounterCountsClaims
  <2>16. LanesLoaded'
    <3>1. pc2[p[1]] # "load"
      OBVIOUS
    <3>2. QED
      BY <2>12, <3>1 DEF LanesLoaded
  <2>17. RowsTaken'
    <3>1. \A q \in Lanes : q # p /\ dest[q] # Uninit =>
            dest[q] \in Nat /\ expert_loc[q] \in Experts
      BY DEF RowsTaken, TypeOK
    <3>2. \A q \in Lanes : q # p /\ dest[q] # Uninit =>
            dest[q] < expert_start_loc'[expert_loc[q]]
      <4> SUFFICES ASSUME NEW q \in Lanes, q # p, dest[q] # Uninit
                   PROVE  dest[q] < expert_start_loc'[expert_loc[q]]
        OBVIOUS
      <4>1. dest[q] < expert_start_loc[expert_loc[q]]
        BY DEF RowsTaken
      <4>2. CASE expert_loc[q] = e
        BY <3>1, <4>1, <4>2, <2>6, <2>9
      <4>3. CASE expert_loc[q] # e
        BY <3>1, <4>1, <4>3, <2>2, <2>7 DEF TypeOK
      <4>4. QED
        BY <4>2, <4>3
    <3>3. \A q \in Lanes : q # p /\ dest[q] # Uninit /\ expert_loc[q] = e => dest[q] # dest'[p]
      <4> SUFFICES ASSUME NEW q \in Lanes, q # p, dest[q] # Uninit, expert_loc[q] = e
                   PROVE  dest[q] # dest'[p]
        OBVIOUS
      <4>1. dest[q] < expert_start_loc[e] /\ dest[q] \in Nat
        BY <3>1 DEF RowsTaken
      <4>2. QED
        BY <4>1, <2>6, <2>8
    <3>4. ASSUME NEW q \in Lanes, dest'[q] # Uninit
          PROVE  /\ expert_loc'[q] >= 0
                 /\ start'[expert_loc'[q]] <= dest'[q]
                 /\ dest'[q] < expert_start_loc'[expert_loc'[q]]
      <4>1. CASE q = p
        BY <4>1, <2>1, <2>6, <2>8, <2>9
      <4>2. CASE q # p
        BY <4>2, <3>2, <3>4, <2>1, <2>12 DEF RowsTaken
      <4>3. QED
        BY <4>1, <4>2
    <3>5. ASSUME NEW q \in Lanes, NEW r \in Lanes, q # r, dest'[q] # Uninit, dest'[r] # Uninit,
                 expert_loc'[q] = expert_loc'[r]
          PROVE  dest'[q] # dest'[r]
      <4>1. CASE q = p
        BY <4>1, <3>3, <3>5, <2>8, <2>12
      <4>2. CASE r = p
        BY <4>2, <3>3, <3>5, <2>8, <2>12
      <4>3. CASE q # p /\ r # p
        BY <4>3, <3>5, <2>12 DEF RowsTaken
      <4>4. QED
        BY <4>1, <4>2, <4>3
    <3>6. QED
      BY <3>4, <3>5 DEF RowsTaken
  <2>18. QED
    BY <2>10, <2>11, <2>15, <2>16, <2>17
<1>6. ASSUME NEW t \in Tokens, StoreIndex(t) PROVE ScatterInv'
  <2> USE <1>6 DEF StoreIndex, inputs, regs1
  <2>1. counts' = counts /\ start' = start /\ Rows' = Rows
    BY HostValuesStay
  <2>2. TypeOK'
    BY <2>1 DEF TypeOK, ActiveLanes
  <2>3. KernelBoundary'
    BY DEF KernelBoundary, Scatter1Done, TypeOK
  <2>4. CounterCountsClaims' /\ RowsTaken'
    BY <2>1 DEF CounterCountsClaims, Claimed, RowsTaken
  <2>5. LanesLoaded'
    BY DEF LanesLoaded, TypeOK, Lanes
  <2>6. QED
    BY <2>2, <2>3, <2>4, <2>5
<1>7. ASSUME NEW t \in Tokens, CopyToken(t) PROVE ScatterInv'
  <2> USE <1>7 DEF CopyToken, inputs, regs1
  <2>1. counts' = counts /\ start' = start /\ Rows' = Rows
    BY HostValuesStay
  <2>2. TypeOK'
    BY <2>1 DEF TypeOK
  <2>3. KernelBoundary'
    BY DEF KernelBoundary, Scatter1Done, TypeOK
  <2>4. CounterCountsClaims' /\ RowsTaken'
    BY <2>1 DEF CounterCountsClaims, Claimed, RowsTaken
  <2>5. LanesLoaded'
    BY DEF LanesLoaded, TypeOK, Lanes
  <2>6. QED
    BY <2>2, <2>3, <2>4, <2>5
<1>8. ASSUME NEW t \in Tokens, CopyScale(t) PROVE ScatterInv'
  <2> USE <1>8 DEF CopyScale, inputs, regs1
  <2>1. counts' = counts /\ start' = start /\ Rows' = Rows
    BY HostValuesStay
  <2>2. TypeOK'
    BY <2>1 DEF TypeOK
  <2>3. KernelBoundary'
    BY DEF KernelBoundary, Scatter1Done, TypeOK
  <2>4. CounterCountsClaims' /\ RowsTaken'
    BY <2>1 DEF CounterCountsClaims, Claimed, RowsTaken
  <2>5. LanesLoaded'
    BY DEF LanesLoaded, TypeOK, Lanes
  <2>6. QED
    BY <2>2, <2>3, <2>4, <2>5
<1>9. CASE UNCHANGED vars
  <2> USE <1>9 DEF vars
  <2>1. counts' = counts /\ start' = start /\ Rows' = Rows
    BY HostValuesStay
  <2>2. TypeOK'
    BY <2>1 DEF TypeOK
  <2>3. CounterCountsClaims' /\ RowsTaken'
    BY <2>1 DEF CounterCountsClaims, Claimed, RowsTaken
  <2>4. KernelBoundary' /\ LanesLoaded'
    BY DEF KernelBoundary, Scatter1Done, LanesLoaded
  <2>5. QED
    BY <2>2, <2>3, <2>4
<1>10. QED
  BY <1>1, <1>2, <1>3, <1>4, <1>5, <1>6, <1>7, <1>8, <1>9 DEF Next, Scatter1, Scatter2

\* The type invariant of the scatter, with the invariant it needs.
THEOREM ScatterInvariant == ASSUME DefinedLanes PROVE Spec => []ScatterInv
<1>1. Init => ScatterInv
  BY ScatterInvInit
<1>2. ScatterInv /\ [Next]_vars => ScatterInv'
  BY ScatterInvNext
<1>3. QED
  BY <1>1, <1>2, PTL DEF Spec

THEOREM TypeCorrect == ASSUME DefinedLanes PROVE Spec => []TypeOK
<1>1. ScatterInv => TypeOK
  BY DEF ScatterInv
<1>2. QED
  BY <1>1, ScatterInvariant, PTL

--------------------------------------------------------------------------------
(* What the invariant gives.                                                   *)

LEMMA RowInRegionInv == ASSUME ScatterInv PROVE RowInRegion
<1> USE DEF ScatterInv
<1> SUFFICES ASSUME NEW p \in Lanes, dest[p] # Uninit
             PROVE  /\ dest[p] \in start[expert_loc[p]] .. start[expert_loc[p] + 1] - 1
                    /\ dest[p] \in Rows
  BY DEF RowInRegion
<1> DEFINE e == expert_loc[p]
<1>1. e \in Experts /\ dest[p] \in Nat
  BY DEF RowsTaken, TypeOK
<1>2. pc1[e] = "done" /\ expert_loc[p] = LocalExpert(topk_ids[p])
  <2>1. pc2[p[1]] # "load" /\ p[1] \in Tokens
    BY DEF LanesLoaded, Lanes
  <2>2. QED
    BY <1>1, <2>1 DEF LanesLoaded, KernelBoundary, Scatter1Done
<1>3. expert_start_loc[e] = start[e] + Cardinality(Claimed(e))
  BY <1>1, <1>2 DEF CounterCountsClaims
<1>4. Cardinality(Claimed(e)) <= counts[e]
  <2>1. Claimed(e) \subseteq LanesOf(topk_ids, e)
    <3> SUFFICES ASSUME NEW q \in Lanes, dest[q] # Uninit, expert_loc[q] = e
                 PROVE  LocalExpert(topk_ids[q]) = e
      BY DEF Claimed, LanesOf
    <3>1. QED
      BY DEF LanesLoaded
  <2>2. IsFiniteSet(LanesOf(topk_ids, e))
    BY LanesFinite, FS_Subset DEF LanesOf
  <2>3. counts[e] = Cardinality(LanesOf(topk_ids, e))
    BY <1>1 DEF counts, CountsOf
  <2>4. QED
    BY <2>1, <2>2, <2>3, FS_Subset
<1>5. /\ start[e] \in Nat /\ start[e + 1] \in Nat /\ counts[e] \in Nat
      /\ start[e + 1] = start[e] + counts[e]
      /\ Cardinality(Claimed(e)) \in Nat
  BY <1>1, StartType, ClaimedFinite
<1>6. start[e] <= dest[p] /\ dest[p] < expert_start_loc[e]
  BY DEF RowsTaken
<1>7. start[e] <= dest[p] /\ dest[p] < start[e + 1]
  BY <1>1, <1>3, <1>4, <1>5, <1>6
<1>8. start[e + 1] <= AlignedM(counts)
  <2>1. start[e + 1] <= start[NumExperts]
    <3>1. e + 1 \in 0 .. NumExperts /\ NumExperts \in 0 .. NumExperts /\ e + 1 <= NumExperts
      BY <1>1, SizeAssumption DEF Experts
    <3>2. QED
      BY <3>1, StartType, CumsumMonotone DEF start
  <2>2. start[NumExperts] <= AlignedM(counts)
    BY RegionsFit DEF start, counts
  <2>3. start[NumExperts] \in Nat /\ AlignedM(counts) \in Int
    <3>1. start[NumExperts] \in Nat
      BY StartType, SizeAssumption
    <3>2. AlignedM(counts) \in Int
      BY AlignedMType, StartType
    <3>3. QED
      BY <3>1, <3>2
  <2>4. QED
    BY <1>5, <2>1, <2>2, <2>3
<1>9. AlignedM(counts) \in Int
  BY AlignedMType, StartType
<1>10. QED
  BY <1>1, <1>5, <1>7, <1>8, <1>9 DEF Rows

LEMMA RowsDistinctInv == ASSUME ScatterInv PROVE RowsDistinct
<1> USE DEF ScatterInv
<1> SUFFICES ASSUME NEW p \in Lanes, NEW q \in Lanes,
                    p # q, dest[p] # Uninit, dest[q] # Uninit,
                    expert_loc[p] < expert_loc[q] \/ expert_loc[q] < expert_loc[p]
             PROVE  dest[p] # dest[q]
  <2>1. \A r \in Lanes : expert_loc[r] \in Int
    BY DEF TypeOK, Experts
  <2>2. QED
    BY <2>1 DEF RowsDistinct, RowsTaken
<1>1. ASSUME NEW r \in Lanes, NEW s \in Lanes,
             dest[r] # Uninit, dest[s] # Uninit, expert_loc[r] < expert_loc[s]
      PROVE  dest[r] < dest[s]
  <2> DEFINE e == expert_loc[r]
             f == expert_loc[s]
  <2>1. e \in Experts /\ f \in Experts /\ dest[r] \in Nat /\ dest[s] \in Nat
    BY <1>1 DEF RowsTaken, TypeOK
  <2>2. dest[r] <= start[e + 1] - 1 /\ start[f] <= dest[s]
    BY <1>1, RowInRegionInv DEF RowInRegion
  <2>3. e + 1 \in 0 .. NumExperts /\ f \in 0 .. NumExperts /\ e + 1 <= f
    BY <1>1, <2>1, SizeAssumption DEF Experts
  <2>4. start[e + 1] <= start[f]
    BY <2>3, StartType, CumsumMonotone DEF start
  <2>5. start[e + 1] \in Nat /\ start[f] \in Nat
    BY <2>3, StartType
  <2>6. QED
    BY <2>1, <2>2, <2>4, <2>5
<1>2. dest[p] \in Nat /\ dest[q] \in Nat
  BY DEF TypeOK
<1>3. QED
  BY <1>1, <1>2

\* Two lanes never share a row, in every interleaving of the atomic adds, for
\* every size and every routing whose masked loads are defined.
THEOREM RowsAreDistinct == ASSUME DefinedLanes PROVE Spec => []RowsDistinct
<1>1. ScatterInv => RowsDistinct
  BY RowsDistinctInv
<1>2. QED
  BY <1>1, ScatterInvariant, PTL

\* Every row taken lies in the region of its lane's expert and in the buffer
\* that compute_aligned_M sized.
THEOREM RowsAreInTheirRegion == ASSUME DefinedLanes PROVE Spec => []RowInRegion
<1>1. ScatterInv => RowInRegion
  BY RowInRegionInv
<1>2. QED
  BY <1>1, ScatterInvariant, PTL

--------------------------------------------------------------------------------
(* What the rows hold: their labels, which are written once, and the data of   *)
(* their tokens.                                                               *)

\* The labelled rows are the first of each expert's region, as many as its program
\* has gone through.
RowsLabelled ==
  /\ \A e \in Experts :
       /\ filled[e] <= counts[e]
       /\ pc1[e] = "done" => filled[e] = counts[e]
       /\ \A r \in Rows : start[e] <= r /\ r < start[e] + filled[e] => m_indices[r] = e
  /\ \A r \in Rows :
       m_indices[r] # -1 =>
         start[m_indices[r]] <= r /\ r < start[m_indices[r]] + filled[m_indices[r]]

\* What the programs of scatter_2 have written so far is still there.
RowsCopied ==
  \A p \in Lanes : expert_loc[p] >= 0 =>
    /\ pc2[p[1]] \in {"copy", "scale", "done"} => dest[p] # Uninit /\ inv_perm[p] = dest[p]
    /\ pc2[p[1]] \in {"scale", "done"} => aq_out[dest[p]] = Token(p[1])
    /\ pc2[p[1]] = "done" /\ WithScale => aq_scale_out[dest[p]] = p[1]

--------------------------------------------------------------------------------
LEMMA RegionsDisjoint ==
  ASSUME TypeOK, NEW e \in Experts, NEW f \in Experts, NEW r \in Int,
         start[e] <= r, r < start[e] + counts[e], start[f] <= r, r < start[f] + counts[f]
  PROVE  e = f
<1>1. ASSUME NEW x \in Experts, NEW y \in Experts, x < y
      PROVE  start[x] + counts[x] <= start[y]
  <2>1. x + 1 \in 0 .. NumExperts /\ y \in 0 .. NumExperts /\ x + 1 <= y
    BY <1>1, SizeAssumption DEF Experts
  <2>2. start[x + 1] <= start[y]
    BY <2>1, StartType, CumsumMonotone DEF start
  <2>3. QED
    BY <2>2, StartType
<1>2. /\ start[e] \in Nat /\ start[f] \in Nat /\ counts[e] \in Nat /\ counts[f] \in Nat
      /\ e \in Int /\ f \in Int
  BY StartType DEF Experts
<1>3. ~ (e < f) /\ ~ (f < e)
  BY <1>1, <1>2
<1>4. QED
  BY <1>2, <1>3

\* A program labels rows of its own region, in the buffer.
LEMMA RegionInRows ==
  ASSUME TypeOK, NEW e \in Experts, NEW r \in Int, start[e] <= r, r < start[e] + counts[e]
  PROVE  r \in Rows
<1>1. /\ start[e] \in Nat /\ counts[e] \in Nat /\ start[e + 1] = start[e] + counts[e]
      /\ start[NumExperts] \in Nat /\ AlignedM(counts) \in Int
  BY StartType, AlignedMType, SizeAssumption
<1>2. start[e + 1] <= start[NumExperts]
  <2>1. e + 1 \in 0 .. NumExperts /\ NumExperts \in 0 .. NumExperts /\ e + 1 <= NumExperts
    BY SizeAssumption DEF Experts
  <2>2. QED
    BY <2>1, StartType, CumsumMonotone DEF start
<1>3. start[NumExperts] <= AlignedM(counts)
  BY RegionsFit DEF start, counts
<1>4. QED
  BY <1>1, <1>2, <1>3 DEF Rows

\* The row that is labelled next has no label yet.
LEMMA NextRowUnlabelled ==
  ASSUME TypeOK, RowsLabelled, NEW e \in Experts, filled[e] < counts[e]
  PROVE  /\ start[e] + filled[e] \in Rows
         /\ m_indices[start[e] + filled[e]] = -1
<1> DEFINE r == start[e] + filled[e]
<1>1. /\ start[e] \in Nat /\ filled[e] \in Nat /\ counts[e] \in Nat
      /\ r \in Int /\ start[e] <= r /\ r < start[e] + counts[e]
  <2>1. start[e] \in Nat /\ filled[e] \in Nat /\ counts[e] \in Nat
    BY StartType DEF TypeOK
  <2>2. QED
    BY <2>1
<1>2. r \in Rows
  <2> HIDE DEF r
  <2> QED BY <1>1, RegionInRows
<1>3. ASSUME m_indices[r] # -1 PROVE FALSE
  <2> DEFINE m == m_indices[r]
  <2>1. m \in Experts
    BY <1>2, <1>3 DEF TypeOK
  <2>2. start[m] <= r /\ r < start[m] + filled[m]
    BY <1>2, <1>3 DEF RowsLabelled
  <2>3. start[m] \in Nat /\ filled[m] \in Nat /\ counts[m] \in Nat /\ filled[m] <= counts[m]
    BY <2>1, StartType, ZenonT(40) DEF TypeOK, RowsLabelled
  <2>4. r < start[m] + counts[m]
    BY <1>1, <2>2, <2>3
  <2>5. m = e
    <3> HIDE DEF m, r
    <3> QED BY <1>1, <2>1, <2>2, <2>4, RegionsDisjoint
  <2>6. QED
    BY <1>1, <2>2, <2>5
<1>4. QED
  BY <1>2, <1>3

LEMMA RowsLabelledInit == Init => RowsLabelled
<1> SUFFICES ASSUME Init PROVE RowsLabelled
  OBVIOUS
<1>1. TypeOK
  BY ScatterInvInit DEF ScatterInv
<1>2. \A e \in Experts : start[e] \in Nat /\ counts[e] \in Nat
  BY <1>1, StartType
<1>3. \A r \in Rows : r \in Int
  BY DEF Rows
<1>4. QED
  BY <1>2, <1>3 DEF Init, RowsLabelled

LEMMA RowsLabelledNext ==
  ASSUME ScatterInv, RowsLabelled, [Next]_vars
  PROVE  /\ RowsLabelled'
         /\ \A r \in Rows : m_indices[r] # -1 => m_indices'[r] = m_indices[r]
<1>0. TypeOK
  BY DEF ScatterInv
<1>1. ASSUME NEW e \in Experts, LabelRow(e)
      PROVE  /\ RowsLabelled'
             /\ \A r \in Rows : m_indices[r] # -1 => m_indices'[r] = m_indices[r]
  <2> DEFINE n == start[e] + filled[e]
  <2>1. counts' = counts /\ start' = start /\ Rows' = Rows
    BY <1>1, HostValuesStay DEF LabelRow, inputs
  <2>2. /\ pc1[e] = "fill" /\ filled[e] < counts[e] /\ pc1' = pc1
        /\ m_indices' = [m_indices EXCEPT ![n] = e]
        /\ filled' = [filled EXCEPT ![e] = @ + 1]
    BY <1>1 DEF LabelRow
  <2>3. n \in Rows /\ m_indices[n] = -1
    BY <1>0, <2>2, NextRowUnlabelled
  <2>4. /\ m_indices'[n] = e
        /\ \A r \in Rows : r # n => m_indices'[r] = m_indices[r]
    BY <1>0, <2>2, <2>3 DEF TypeOK
  <2>5. /\ filled'[e] = filled[e] + 1
        /\ \A f \in Experts : f # e => filled'[f] = filled[f]
    BY <1>0, <2>2 DEF TypeOK
  <2>6. \A f \in Experts : start[f] \in Nat /\ counts[f] \in Nat /\ filled[f] \in Nat
    BY <1>0, StartType DEF TypeOK
  <2>7. \A r \in Rows : r \in Int
    BY DEF Rows
  <2>8. ASSUME NEW f \in Experts
        PROVE  /\ filled'[f] <= counts[f]
               /\ pc1'[f] = "done" => filled'[f] = counts[f]
               /\ \A r \in Rows : start[f] <= r /\ r < start[f] + filled'[f] => m_indices'[r] = f
    <3>1. CASE f = e
      <4>1. filled'[f] <= counts[f] /\ pc1'[f] # "done"
        BY <2>2, <2>5, <2>6, <3>1
      <4>2. ASSUME NEW r \in Rows, start[e] <= r, r < start[e] + (filled[e] + 1), r # n
            PROVE  m_indices'[r] = e
        <5>1. r < start[e] + filled[e]
          BY <2>6, <2>7, <4>2
        <5>2. QED
          BY <2>4, <4>2, <5>1 DEF RowsLabelled
      <4>3. QED
        BY <2>4, <2>5, <3>1, <4>1, <4>2
    <3>2. CASE f # e
      <4>1. filled'[f] = filled[f] /\ pc1'[f] = pc1[f]
        BY <2>2, <2>5, <3>2
      <4>2. ASSUME NEW r \in Rows, start[f] <= r, r < start[f] + filled[f] PROVE m_indices'[r] = f
        <5>1. m_indices[r] = f
          BY <4>2 DEF RowsLabelled
        <5>2. r # n
          BY <2>3, <5>1, <2>6 DEF Experts
        <5>3. QED
          BY <2>4, <5>1, <5>2
      <4>3. QED
        BY <4>1, <4>2 DEF RowsLabelled
    <3>3. QED
      BY <3>1, <3>2
  <2>9. ASSUME NEW r \in Rows, m_indices'[r] # -1
        PROVE  start[m_indices'[r]] <= r /\ r < start[m_indices'[r]] + filled'[m_indices'[r]]
    <3>1. CASE r = n
      BY <2>4, <2>5, <2>6, <3>1
    <3>2. CASE r # n
      <4>1. m_indices'[r] = m_indices[r] /\ m_indices[r] \in Experts
        BY <1>0, <2>4, <2>9, <3>2 DEF TypeOK
      <4>2. start[m_indices[r]] <= r /\ r < start[m_indices[r]] + filled[m_indices[r]]
        BY <2>9, <4>1 DEF RowsLabelled
      <4>3. filled[m_indices[r]] <= filled'[m_indices[r]]
        BY <2>5, <2>6, <4>1
      <4>4. filled'[m_indices[r]] \in Nat
        BY <2>5, <2>6, <4>1
      <4>5. QED
        BY <2>6, <2>7, <4>1, <4>2, <4>3, <4>4
    <3>3. QED
      BY <3>1, <3>2
  <2>10. RowsLabelled'
    BY <2>1, <2>8, <2>9 DEF RowsLabelled
  <2>11. QED
    BY <2>3, <2>4, <2>10
<1>2. ASSUME NEW e \in Experts, ExitScatter1(e)
      PROVE  RowsLabelled' /\ m_indices' = m_indices
  <2>1. counts' = counts /\ start' = start /\ Rows' = Rows
    BY <1>2, HostValuesStay DEF ExitScatter1, inputs
  <2>2. /\ filled[e] = counts[e] /\ pc1' = [pc1 EXCEPT ![e] = "done"]
        /\ filled' = filled /\ m_indices' = m_indices
    BY <1>2 DEF ExitScatter1, mem
  <2>3. \A f \in Experts : pc1'[f] = "done" => filled[f] = counts[f]
    BY <1>0, <2>2 DEF RowsLabelled, TypeOK
  <2>4. QED
    BY <2>1, <2>2, <2>3 DEF RowsLabelled
<1>3. ASSUME NEW e \in Experts, StoreStart(e)
      PROVE  RowsLabelled' /\ m_indices' = m_indices
  <2>1. counts' = counts /\ start' = start /\ Rows' = Rows
    BY <1>3, HostValuesStay DEF StoreStart, inputs
  <2>2. /\ pc1' = [pc1 EXCEPT ![e] = "fill"]
        /\ filled' = filled /\ m_indices' = m_indices
    BY <1>3 DEF StoreStart
  <2>3. \A f \in Experts : pc1'[f] = "done" => filled[f] = counts[f]
    BY <1>0, <2>2 DEF RowsLabelled, TypeOK
  <2>4. QED
    BY <2>1, <2>2, <2>3 DEF RowsLabelled
<1>4. ASSUME UNCHANGED << topk_ids, m_indices, pc1, filled >>
      PROVE  RowsLabelled' /\ m_indices' = m_indices
  <2>1. counts' = counts /\ start' = start /\ Rows' = Rows
    BY <1>4, HostValuesStay
  <2>2. QED
    BY <1>4, <2>1 DEF RowsLabelled
<1>5. ASSUME NEW t \in Tokens, Scatter2(t) PROVE UNCHANGED << topk_ids, m_indices, pc1, filled >>
  BY <1>5 DEF Scatter2, LoadLanes, ClaimRow, StoreIndex, CopyToken, CopyScale, inputs, mem, regs1
<1>6. CASE UNCHANGED vars
  BY <1>4, <1>6 DEF vars
<1>7. QED
  BY <1>1, <1>2, <1>3, <1>4, <1>5, <1>6 DEF Next, Scatter1

--------------------------------------------------------------------------------
LEMMA RowsCopiedNext ==
  ASSUME ScatterInv, RowsCopied, [Next]_vars
  PROVE  RowsCopied'
<1>0. /\ TypeOK /\ Uninit \notin Int
      /\ \A p \in Lanes : p[1] \in Tokens /\ expert_loc[p] \in Experts \cup {-1}
  BY ModeAssumption DEF ScatterInv, TypeOK, Lanes
<1>1. ASSUME UNCHANGED << pc2, expert_loc, dest, inv_perm, aq_out, aq_scale_out >>
      PROVE  RowsCopied'
  BY <1>1 DEF RowsCopied
<1>2. ASSUME NEW e \in Experts, Scatter1(e) PROVE RowsCopied'
  BY <1>1, <1>2 DEF Scatter1, StoreStart, LabelRow, ExitScatter1, regs2, mem
<1>3. ASSUME NEW t \in Tokens, LoadLanes(t) PROVE RowsCopied'
  <2>1. /\ pc2[t] = "load"
        /\ pc2' = [pc2 EXCEPT ![t] = IF ActiveLanes(t, expert_loc') = {} THEN "done" ELSE "claim"]
        /\ UNCHANGED << dest, inv_perm, aq_out, aq_scale_out >>
        /\ \A p \in Lanes : p[1] # t => expert_loc'[p] = expert_loc[p]
    BY <1>3 DEF LoadLanes, mem
  <2>2. ASSUME NEW p \in Lanes, expert_loc'[p] >= 0
        PROVE  p[1] = t => pc2'[p[1]] = "claim"
    BY <1>0, <2>1, <2>2 DEF ActiveLanes, TypeOK
  <2>3. \A p \in Lanes : p[1] # t => pc2'[p[1]] = pc2[p[1]]
    BY <1>0, <2>1 DEF TypeOK
  <2>4. QED
    BY <2>1, <2>2, <2>3 DEF RowsCopied
<1>4. ASSUME NEW q \in Lanes, ClaimRow(q) PROVE RowsCopied'
  <2>1. /\ pc2[q[1]] = "claim"
        /\ UNCHANGED << pc2, expert_loc, inv_perm, aq_out, aq_scale_out >>
        /\ dest' = [dest EXCEPT ![q] = expert_start_loc[expert_loc[q]]]
    BY <1>4 DEF ClaimRow
  <2>2. \A p \in Lanes : p # q => dest'[p] = dest[p]
    BY <1>0, <2>1 DEF TypeOK
  <2>3. QED
    BY <2>1, <2>2 DEF RowsCopied
<1>5. ASSUME NEW t \in Tokens, StoreIndex(t) PROVE RowsCopied'
  <2>1. /\ pc2[t] = "claim" /\ pc2' = [pc2 EXCEPT ![t] = "copy"]
        /\ \A p \in ActiveLanes(t, expert_loc) : dest[p] # Uninit
        /\ inv_perm' = [p \in Lanes |->
                           IF p \in ActiveLanes(t, expert_loc) THEN dest[p] ELSE inv_perm[p]]
        /\ UNCHANGED << expert_loc, dest, aq_out, aq_scale_out >>
    BY <1>5 DEF StoreIndex
  <2>2. pc2'[t] = "copy" /\ \A u \in Tokens : u # t => pc2'[u] = pc2[u]
    BY <1>0, <2>1 DEF TypeOK
  <2>3. ASSUME NEW p \in Lanes, expert_loc[p] >= 0, p[1] = t
        PROVE  dest[p] # Uninit /\ inv_perm'[p] = dest[p]
    BY <2>1, <2>3 DEF ActiveLanes
  <2>4. ASSUME NEW p \in Lanes, p[1] # t
        PROVE  inv_perm'[p] = inv_perm[p]
    BY <2>1, <2>4 DEF ActiveLanes
  <2>5. QED
    BY <1>0, <2>1, <2>2, <2>3, <2>4 DEF RowsCopied
<1>6. ASSUME NEW t \in Tokens, pc2[t] \in {"copy", "scale"}
      PROVE  /\ \A p \in Lanes : p[1] = t /\ expert_loc[p] >= 0 =>
                  dest[p] \in Rows /\ dest[p] \in RowsOfToken(t)
             /\ \A p \in Lanes :
                  p[1] # t /\ expert_loc[p] >= 0 /\ dest[p] # Uninit => dest[p] \notin RowsOfToken(t)
  <2>1. ASSUME NEW p \in Lanes, p[1] = t, expert_loc[p] >= 0
        PROVE  dest[p] # Uninit /\ inv_perm[p] = dest[p]
    BY <1>6, <2>1 DEF RowsCopied
  <2>2. RowsOfToken(t) = {dest[p] : p \in ActiveLanes(t, expert_loc)}
    BY <2>1 DEF RowsOfToken, ActiveLanes
  <2>3. ASSUME NEW p \in Lanes, p[1] = t, expert_loc[p] >= 0
        PROVE  dest[p] \in Rows /\ dest[p] \in RowsOfToken(t)
    <3>1. dest[p] \in Rows
      BY <2>1, <2>3, RowInRegionInv DEF RowInRegion
    <3>2. p \in ActiveLanes(t, expert_loc)
      BY <2>3 DEF ActiveLanes
    <3>3. QED
      BY <2>2, <3>1, <3>2
  <2>4. ASSUME NEW p \in Lanes, p[1] # t, dest[p] # Uninit, dest[p] \in RowsOfToken(t)
        PROVE  FALSE
    <3>1. PICK q \in ActiveLanes(t, expert_loc) : dest[p] = dest[q]
      BY <2>2, <2>4
    <3>2. q \in Lanes /\ q # p /\ dest[q] # Uninit
      BY <2>4, <3>1 DEF ActiveLanes
    <3>3. QED
      BY <2>4, <3>1, <3>2, RowsDistinctInv DEF RowsDistinct
  <2>5. QED
    BY <2>3, <2>4
<1>7. ASSUME NEW t \in Tokens, CopyToken(t) PROVE RowsCopied'
  <2>1. /\ pc2[t] = "copy"
        /\ pc2' = [pc2 EXCEPT ![t] = IF WithScale THEN "scale" ELSE "done"]
        /\ aq_out' = [r \in DOMAIN aq_out |-> IF r \in RowsOfToken(t) THEN Token(t) ELSE aq_out[r]]
        /\ UNCHANGED << expert_loc, dest, inv_perm, aq_scale_out >>
    BY <1>7 DEF CopyToken
  <2>2. /\ pc2'[t] = IF WithScale THEN "scale" ELSE "done"
        /\ \A u \in Tokens : u # t => pc2'[u] = pc2[u]
        /\ DOMAIN aq_out = Rows
    BY <1>0, <2>1 DEF TypeOK
  <2>3. ASSUME NEW p \in Lanes, expert_loc[p] >= 0, p[1] = t
        PROVE  aq_out'[dest[p]] = Token(p[1]) /\ dest[p] # Uninit /\ inv_perm[p] = dest[p]
    <3>1. dest[p] \in Rows /\ dest[p] \in RowsOfToken(t)
      BY <1>6, <2>1, <2>3
    <3>2. aq_out'[dest[p]] = Token(t)
      BY <2>1, <2>2, <3>1
    <3>3. dest[p] # Uninit /\ inv_perm[p] = dest[p]
      BY <2>1, <2>3 DEF RowsCopied
    <3>4. QED
      BY <2>3, <3>2, <3>3
  <2>4. ASSUME NEW p \in Lanes, expert_loc[p] >= 0, p[1] # t, pc2[p[1]] \in {"scale", "done"}
        PROVE  aq_out'[dest[p]] = Token(p[1])
    <3>1. dest[p] # Uninit /\ aq_out[dest[p]] = Token(p[1])
      BY <2>4 DEF RowsCopied
    <3>2. dest[p] \notin RowsOfToken(t)
      BY <1>6, <2>1, <2>4, <3>1
    <3>3. dest[p] \in Rows
      BY <3>1, RowInRegionInv DEF RowInRegion
    <3>4. QED
      BY <2>1, <2>2, <3>1, <3>2, <3>3
  <2>5. QED
    BY <1>0, <2>1, <2>2, <2>3, <2>4 DEF RowsCopied
<1>8. ASSUME NEW t \in Tokens, CopyScale(t) PROVE RowsCopied'
  <2>1. /\ pc2[t] = "scale" /\ pc2' = [pc2 EXCEPT ![t] = "done"]
        /\ aq_scale_out' = [r \in DOMAIN aq_scale_out |->
                              IF r \in RowsOfToken(t) THEN t ELSE aq_scale_out[r]]
        /\ UNCHANGED << expert_loc, dest, inv_perm, aq_out >>
    BY <1>8 DEF CopyScale
  <2>2. /\ pc2'[t] = "done" /\ \A u \in Tokens : u # t => pc2'[u] = pc2[u]
        /\ DOMAIN aq_scale_out = Rows
    BY <1>0, <2>1 DEF TypeOK
  <2>3. ASSUME NEW p \in Lanes, expert_loc[p] >= 0, p[1] = t
        PROVE  aq_scale_out'[dest[p]] = p[1]
    <3>1. dest[p] \in Rows /\ dest[p] \in RowsOfToken(t)
      BY <1>6, <2>1, <2>3
    <3>2. QED
      BY <2>1, <2>2, <2>3, <3>1
  <2>4. ASSUME NEW p \in Lanes, expert_loc[p] >= 0, p[1] # t, pc2[p[1]] = "done", WithScale
        PROVE  aq_scale_out'[dest[p]] = p[1]
    <3>1. dest[p] # Uninit /\ aq_scale_out[dest[p]] = p[1]
      BY <2>4 DEF RowsCopied
    <3>2. dest[p] \notin RowsOfToken(t)
      BY <1>6, <2>1, <2>4, <3>1
    <3>3. dest[p] \in Rows
      BY <3>1, RowInRegionInv DEF RowInRegion
    <3>4. QED
      BY <2>1, <2>2, <3>1, <3>2, <3>3
  <2>5. QED
    BY <1>0, <2>1, <2>2, <2>3, <2>4 DEF RowsCopied
<1>9. CASE UNCHANGED vars
  BY <1>1, <1>9 DEF vars
<1>10. QED
  BY <1>2, <1>3, <1>4, <1>5, <1>7, <1>8, <1>9 DEF Next, Scatter2

LEMMA DataHeld ==
  ASSUME ScatterInv, RowsLabelled, RowsCopied
  PROVE  RowsHoldTheirToken
<1> SUFFICES ASSUME NEW p \in Lanes, pc2[p[1]] = "done", LocalExpert(topk_ids[p]) >= 0
             PROVE  /\ m_indices[inv_perm[p]] = LocalExpert(topk_ids[p])
                    /\ aq_out[inv_perm[p]] = Token(p[1])
                    /\ WithScale => aq_scale_out[inv_perm[p]] = p[1]
  BY DEF RowsHoldTheirToken
<1> DEFINE e == expert_loc[p]
<1>1. e = LocalExpert(topk_ids[p]) /\ e >= 0 /\ Scatter1Done
  BY DEF ScatterInv, LanesLoaded, KernelBoundary, Lanes
<1>2. /\ dest[p] # Uninit /\ inv_perm[p] = dest[p] /\ aq_out[dest[p]] = Token(p[1])
      /\ WithScale => aq_scale_out[dest[p]] = p[1]
  BY <1>1 DEF RowsCopied
<1>3. e \in Experts /\ filled[e] = counts[e]
  BY <1>1 DEF ScatterInv, TypeOK, RowsLabelled, Scatter1Done
<1>4. dest[p] \in start[e] .. start[e + 1] - 1 /\ dest[p] \in Rows
  BY <1>2, RowInRegionInv DEF RowInRegion
<1>5. start[e] \in Nat /\ counts[e] \in Nat /\ start[e + 1] = start[e] + counts[e]
  BY <1>3, StartType DEF ScatterInv
<1>6. start[e] <= dest[p] /\ dest[p] < start[e] + filled[e]
  BY <1>3, <1>4, <1>5
<1>7. m_indices[dest[p]] = e
  BY <1>3, <1>4, <1>6 DEF RowsLabelled
<1>8. QED
  BY <1>1, <1>2, <1>7

--------------------------------------------------------------------------------
\* Labels and data of the rows, with the invariant of the claims.
THEOREM DataInvariant ==
  ASSUME DefinedLanes PROVE Spec => [](ScatterInv /\ RowsLabelled /\ RowsCopied)
<1>1. Init => RowsLabelled /\ RowsCopied
  BY RowsLabelledInit DEF Init, RowsCopied, Lanes
<1>2. ScatterInv /\ RowsLabelled /\ RowsCopied /\ [Next]_vars => RowsLabelled' /\ RowsCopied'
  BY RowsLabelledNext, RowsCopiedNext
<1>3. QED
  BY <1>1, <1>2, ScatterInvariant, PTL DEF Spec

\* From the moment its program has ended, a token's rows keep its data, its scales and
\* its experts, whatever the other programs still write.
THEOREM RowsKeepTheirToken == ASSUME DefinedLanes PROVE Spec => []RowsHoldTheirToken
<1>1. ScatterInv /\ RowsLabelled /\ RowsCopied => RowsHoldTheirToken
  BY DataHeld
<1>2. QED
  BY <1>1, DataInvariant, PTL

\* A label, once written, stays: no two programs of scatter_1 write the same row.
THEOREM LabelsStay == ASSUME DefinedLanes PROVE Spec => LabelsAreFinal
<1>1. ScatterInv /\ RowsLabelled /\ [Next]_vars
        => [\A r \in Rows : m_indices[r] # -1 => m_indices'[r] = m_indices[r]]_vars
  BY RowsLabelledNext
<1>2. QED
  BY <1>1, DataInvariant, PTL DEF Spec, LabelsAreFinal

--------------------------------------------------------------------------------
(* The pipeline.                                                               *)

\* The specification without its fairness, and what it implements without its own.
ApplySafe == ApplyInit /\ [][ApplyNext]_all
MoeSafe   == Moe!MoeInit /\ [][Moe!MoeNext]_(Moe!moeVars)

--------------------------------------------------------------------------------
(* What a row has gone through by each launch.                                 *)

Routed(p) == LocalExpert(topk_ids[p]) >= 0

AfterMm1(e, t) == << << "x", t >>, << "w1", e >> >>
AfterAct(e, t) == << << "x", t >>, << "w1", e >>, << "act", 0 >> >>

\* The rows of the routed lanes, once the scatter has ended.
RowsKnown ==
  \A p \in Lanes : Routed(p) =>
    inv_perm[p] \in Rows /\ m_indices[inv_perm[p]] = LocalExpert(topk_ids[p])

\* Where the next launch finds the rows, and what they have gone through.
LaunchOrder ==
  /\ stage \in {"permute", "act", "mm2", "gather"}
  /\ stage = "permute" => ScatterInv /\ RowsLabelled /\ RowsCopied
  /\ stage # "permute" => RowsKnown
  /\ stage = "act" => \A p \in Lanes : Routed(p) =>
       workspace2[inv_perm[p]] = AfterMm1(LocalExpert(topk_ids[p]), p[1])
  /\ stage = "mm2" => \A p \in Lanes : Routed(p) =>
       A2q[inv_perm[p]] = AfterAct(LocalExpert(topk_ids[p]), p[1])
  /\ stage = "gather" => \A p \in Lanes : Routed(p) =>
       workspace2[inv_perm[p]] = Chain(LocalExpert(topk_ids[p]), p[1])

\* A gather program goes through the tokens of its own class modulo the grid and has
\* written none of those that are still ahead.
TokensAhead ==
  /\ output = [t \in Tokens |-> output[t]]
  /\ cur_token \in [Programs -> Nat]
  /\ \A g \in Programs : \E n \in Nat : cur_token[g] = g + n * GatherGrid
  /\ \A g \in Programs, n \in Nat :
       g + n * GatherGrid \in Tokens /\ g + n * GatherGrid >= cur_token[g]
         => output[g + n * GatherGrid] = Unwritten

LayerInv == LaunchOrder /\ TokensAhead

--------------------------------------------------------------------------------
\* Append to a tuple that is written out: its elements, one by one.
LEMMA AppendedTuple ==
  ASSUME NEW S, NEW s \in Seq(S), NEW u \in Seq(S), NEW x \in S,
         Len(u) = Len(s) + 1, u[Len(u)] = x, \A i \in 1 .. Len(s) : u[i] = s[i]
  PROVE  Append(s, x) = u
<1>1. /\ Append(s, x) \in Seq(S) /\ Len(Append(s, x)) = Len(s) + 1
      /\ \A i \in 1 .. Len(s) : Append(s, x)[i] = s[i]
      /\ Append(s, x)[Len(s) + 1] = x
  BY AppendProperties
<1>2. Len(s) \in Nat
  BY LenProperties
<1>3. \A i \in 1 .. Len(u) : Append(s, x)[i] = u[i]
  <2> SUFFICES ASSUME NEW i \in 1 .. Len(u) PROVE Append(s, x)[i] = u[i]
    OBVIOUS
  <2>1. i \in 1 .. Len(s) \/ i = Len(s) + 1
    BY <1>2
  <2>2. QED
    BY <1>1, <2>1
<1>4. QED
  BY <1>1, <1>3, SeqEqual

LEMMA Chains ==
  ASSUME NEW e, NEW t
  PROVE  /\ Append(Token(t), << "w1", e >>) = AfterMm1(e, t)
         /\ Append(AfterMm1(e, t), << "act", 0 >>) = AfterAct(e, t)
         /\ Append(AfterAct(e, t), << "w2", e >>) = Chain(e, t)
<1> DEFINE a == << "x", t >>
           b == << "w1", e >>
           c == << "act", 0 >>
           d == << "w2", e >>
           S == {a, b, c, d}
<1>1. Token(t) = << a >> /\ AfterMm1(e, t) = << a, b >> /\ AfterAct(e, t) = << a, b, c >>
      /\ Chain(e, t) = << a, b, c, d >>
  BY DEF Token, AfterMm1, AfterAct, Chain
<1>2. a \in S /\ b \in S /\ c \in S /\ d \in S
  OBVIOUS
<1> HIDE DEF a, b, c, d, S
<1>3. << a >> \in Seq(S) /\ << a, b >> \in Seq(S) /\ << a, b, c >> \in Seq(S)
      /\ << a, b, c, d >> \in Seq(S)
  BY <1>2
<1>4. Append(<< a >>, b) = << a, b >>
  <2> DEFINE s == << a >>
             u == << a, b >>
  <2>1. s \in Seq(S) /\ u \in Seq(S) /\ b \in S
    BY <1>2, <1>3
  <2>2. Len(u) = Len(s) + 1 /\ u[Len(u)] = b /\ \A i \in 1 .. Len(s) : u[i] = s[i]
    OBVIOUS
  <2> HIDE DEF s, u
  <2>3. Append(s, b) = u
    BY <2>1, <2>2, AppendedTuple
  <2>4. QED
    BY <2>3 DEF s, u
<1>5. Append(<< a, b >>, c) = << a, b, c >>
  <2> DEFINE s == << a, b >>
             u == << a, b, c >>
  <2>1. s \in Seq(S) /\ u \in Seq(S) /\ c \in S
    BY <1>2, <1>3
  <2>2. Len(u) = Len(s) + 1 /\ u[Len(u)] = c /\ \A i \in 1 .. Len(s) : u[i] = s[i]
    OBVIOUS
  <2> HIDE DEF s, u
  <2>3. Append(s, c) = u
    BY <2>1, <2>2, AppendedTuple
  <2>4. QED
    BY <2>3 DEF s, u
<1>6. Append(<< a, b, c >>, d) = << a, b, c, d >>
  <2> DEFINE s == << a, b, c >>
             u == << a, b, c, d >>
  <2>1. s \in Seq(S) /\ u \in Seq(S) /\ d \in S
    BY <1>2, <1>3
  <2>2. Len(u) = Len(s) + 1 /\ u[Len(u)] = d /\ \A i \in 1 .. Len(s) : u[i] = s[i]
    OBVIOUS
  <2> HIDE DEF s, u
  <2>3. Append(s, d) = u
    BY <2>1, <2>2, AppendedTuple
  <2>4. QED
    BY <2>3 DEF s, u
<1>7. QED
  BY <1>1, <1>4, <1>5, <1>6 DEF b, c, d

\* Two programs of the gather never meet on a token.
LEMMA ClassesDisjoint ==
  ASSUME NEW g \in Programs, NEW h \in Programs, NEW m \in Nat, NEW n \in Nat,
         g + m * GatherGrid = h + n * GatherGrid
  PROVE  g = h
<1>1. GatherGrid \in Nat /\ g \in 0 .. GatherGrid - 1 /\ h \in 0 .. GatherGrid - 1
  BY ApplyAssumption DEF Programs
<1>2. ASSUME NEW x \in Nat, NEW y \in Nat, x < y
      PROVE  x * GatherGrid + GatherGrid <= y * GatherGrid
  <2> DEFINE z == y - x - 1
  <2>1. z \in Nat /\ y = z + x + 1
    BY <1>2
  <2>2. z * GatherGrid \in Nat
    BY <1>1, <2>1
  <2>3. y * GatherGrid = z * GatherGrid + x * GatherGrid + GatherGrid
    BY <1>1, <2>1
  <2>4. QED
    BY <1>1, <2>2, <2>3
<1>3. m * GatherGrid \in Nat /\ n * GatherGrid \in Nat
  BY <1>1
<1>4. ~ (m < n) /\ ~ (n < m)
  BY <1>1, <1>2, <1>3
<1>5. QED
  BY <1>1, <1>3, <1>4

\* When the scatter has ended, every routed lane's row holds its token and its scales.
LEMMA ScatteredRows ==
  ASSUME ScatterInv, RowsLabelled, RowsCopied, ScatterDone, NEW p \in Lanes, Routed(p)
  PROVE  /\ inv_perm[p] \in Rows
         /\ m_indices[inv_perm[p]] = LocalExpert(topk_ids[p])
         /\ aq_out[inv_perm[p]] = Token(p[1])
         /\ WithScale => aq_scale_out[inv_perm[p]] = p[1]
<1>1. p[1] \in Tokens /\ pc2[p[1]] = "done"
  BY DEF Lanes, ScatterDone
<1>2. expert_loc[p] = LocalExpert(topk_ids[p]) /\ expert_loc[p] >= 0
  BY <1>1 DEF ScatterInv, LanesLoaded, Routed
<1>3. dest[p] # Uninit /\ inv_perm[p] = dest[p]
  BY <1>1, <1>2 DEF RowsCopied
<1>4. inv_perm[p] \in Rows
  BY <1>3, RowInRegionInv DEF RowInRegion
<1>5. RowsHoldTheirToken
  BY DataHeld
<1>6. QED
  BY <1>1, <1>4, <1>5 DEF RowsHoldTheirToken, Routed

--------------------------------------------------------------------------------
LEMMA LaunchOrderNext ==
  ASSUME DefinedLanes, LaunchOrder, [ApplyNext]_all
  PROVE  LaunchOrder' /\ topk_ids' = topk_ids
<1>0. ASSUME topk_ids' = topk_ids, inv_perm' = inv_perm, m_indices' = m_indices
      PROVE  /\ Rows' = Rows /\ RowsKnown' = RowsKnown
             /\ \A p \in Lanes : Routed(p)' = Routed(p)
  <2>1. Rows' = Rows
    BY <1>0, HostValuesStay
  <2>2. QED
    BY <1>0, <2>1 DEF RowsKnown, Routed
<1>1. CASE Permute
  <2>1. stage = "permute" /\ stage' = stage /\ [Next]_vars
    BY <1>1 DEF Permute, moe
  <2>2. ScatterInv' /\ RowsLabelled' /\ RowsCopied'
    BY <2>1, ScatterInvNext, RowsLabelledNext, RowsCopiedNext DEF LaunchOrder
  <2>3. topk_ids' = topk_ids
    BY <1>1 DEF Permute, Next, Scatter1, Scatter2, StoreStart, LabelRow, ExitScatter1,
                LoadLanes, ClaimRow, StoreIndex, CopyToken, CopyScale, inputs
  <2>4. QED
    BY <2>1, <2>2, <2>3 DEF LaunchOrder
<1>2. CASE Mm1
  <2>1. /\ stage = "permute" /\ stage' = "act" /\ ScatterDone
        /\ topk_ids' = topk_ids /\ inv_perm' = inv_perm /\ m_indices' = m_indices
        /\ workspace2' = Gemm("w1", Dequantized, workspace2)
    BY <1>2 DEF Mm1, Launch
  <2>2. ASSUME NEW p \in Lanes, Routed(p)
        PROVE  /\ inv_perm[p] \in Rows
               /\ m_indices[inv_perm[p]] = LocalExpert(topk_ids[p])
               /\ workspace2'[inv_perm[p]] = AfterMm1(LocalExpert(topk_ids[p]), p[1])
    <3> DEFINE r == inv_perm[p]
    <3>1. /\ r \in Rows /\ m_indices[r] = LocalExpert(topk_ids[p])
          /\ aq_out[r] = Token(p[1])
          /\ WithScale => aq_scale_out[r] = p[1]
      BY <2>1, <2>2, ScatteredRows DEF LaunchOrder
    <3>2. Dequantized[r] = Token(p[1])
      <4>1. ~ (WithScale /\ aq_out[r] # Token(aq_scale_out[r]))
        BY <3>1, Zenon
      <4>2. Dequantized[r] = aq_out[r]
        BY <3>1, <4>1 DEF Dequantized
      <4>3. QED
        BY <3>1, <4>2
    <3>3. workspace2'[r] = Append(Token(p[1]), << "w1", LocalExpert(topk_ids[p]) >>)
      BY <2>1, <2>2, <3>1, <3>2 DEF Gemm, Routed
    <3>4. QED
      BY <3>1, <3>3, Chains
  <2>3. RowsKnown'
    BY <1>0, <2>1, <2>2 DEF RowsKnown
  <2>4. QED
    BY <1>0, <2>1, <2>2, <2>3 DEF LaunchOrder
<1>3. CASE ActMulQuant
  <2>1. /\ stage = "act" /\ stage' = "mm2"
        /\ topk_ids' = topk_ids /\ inv_perm' = inv_perm /\ m_indices' = m_indices
        /\ act_out' = [r \in Rows |-> Append(workspace2[r], << "act", 0 >>)]
        /\ aq_out' = IF QuantInPlace THEN act_out' ELSE aq_out
    BY <1>3 DEF ActMulQuant, Launch
  <2>2. A2q' = act_out'
    BY <2>1 DEF A2q
  <2>3. ASSUME NEW p \in Lanes, Routed(p)
        PROVE  A2q'[inv_perm[p]] = AfterAct(LocalExpert(topk_ids[p]), p[1])
    <3>1. inv_perm[p] \in Rows
      BY <2>1, <2>3 DEF LaunchOrder, RowsKnown
    <3>2. workspace2[inv_perm[p]] = AfterMm1(LocalExpert(topk_ids[p]), p[1])
      BY <2>1, <2>3 DEF LaunchOrder
    <3>3. A2q'[inv_perm[p]] = Append(AfterMm1(LocalExpert(topk_ids[p]), p[1]), << "act", 0 >>)
      BY <2>1, <2>2, <3>1, <3>2
    <3>4. QED
      BY <3>3, Chains
  <2>4. RowsKnown'
    BY <1>0, <2>1 DEF LaunchOrder
  <2>5. QED
    BY <1>0, <2>1, <2>3, <2>4 DEF LaunchOrder
<1>4. CASE Mm2
  <2>1. /\ stage = "mm2" /\ stage' = "gather"
        /\ topk_ids' = topk_ids /\ inv_perm' = inv_perm /\ m_indices' = m_indices
        /\ workspace2' = Gemm("w2", A2q, workspace2)
    BY <1>4 DEF Mm2, Launch
  <2>2. ASSUME NEW p \in Lanes, Routed(p)
        PROVE  workspace2'[inv_perm[p]] = Chain(LocalExpert(topk_ids[p]), p[1])
    <3> DEFINE r == inv_perm[p]
    <3>1. r \in Rows /\ m_indices[r] = LocalExpert(topk_ids[p])
      BY <2>1, <2>2 DEF LaunchOrder, RowsKnown
    <3>2. A2q[r] = AfterAct(LocalExpert(topk_ids[p]), p[1])
      BY <2>1, <2>2 DEF LaunchOrder
    <3>3. workspace2'[r] = Append(A2q[r], << "w2", LocalExpert(topk_ids[p]) >>)
      BY <2>1, <2>2, <3>1 DEF Gemm, Routed
    <3>4. QED
      BY <3>2, <3>3, Chains
  <2>3. RowsKnown'
    BY <1>0, <2>1 DEF LaunchOrder
  <2>4. QED
    BY <1>0, <2>1, <2>2, <2>3 DEF LaunchOrder
<1>5. ASSUME NEW g \in Programs, GatherToken(g) PROVE LaunchOrder' /\ topk_ids' = topk_ids
  <2>1. stage = "gather" /\ stage' = stage /\ workspace2' = workspace2
        /\ topk_ids' = topk_ids /\ inv_perm' = inv_perm /\ m_indices' = m_indices
    BY <1>5 DEF GatherToken, vars
  <2>2. RowsKnown'
    BY <1>0, <2>1 DEF LaunchOrder
  <2>3. QED
    BY <1>0, <2>1, <2>2 DEF LaunchOrder
<1>6. CASE UNCHANGED all
  <2>1. /\ stage' = stage /\ workspace2' = workspace2 /\ act_out' = act_out /\ UNCHANGED vars
        /\ topk_ids' = topk_ids /\ inv_perm' = inv_perm /\ m_indices' = m_indices
        /\ aq_out' = aq_out
    BY <1>6 DEF all, vars, moe
  <2>2. stage = "permute" => ScatterInv' /\ RowsLabelled' /\ RowsCopied'
    BY <2>1, ScatterInvNext, RowsLabelledNext, RowsCopiedNext DEF LaunchOrder
  <2>3. A2q' = A2q
    BY <2>1 DEF A2q
  <2>4. QED
    BY <1>0, <2>1, <2>2, <2>3 DEF LaunchOrder
<1>7. QED
  BY <1>1, <1>2, <1>3, <1>4, <1>5, <1>6 DEF ApplyNext

--------------------------------------------------------------------------------
\* A step of the gather writes, once, the terms of its token.
LEMMA GatherWrites ==
  ASSUME LayerInv, NEW g \in Programs, GatherToken(g)
  PROVE  TokensAhead' /\ Moe!MoeNext
<1> DEFINE t == cur_token[g]
           written == {<< k, workspace2[inv_perm[<< t, k >>]] >> :
                         k \in {j \in Slots : LocalExpert(topk_ids[<< t, j >>]) >= 0}}
<1>1. /\ stage = "gather" /\ t < NumTokens /\ topk_ids' = topk_ids
      /\ output' = [output EXCEPT ![t] = written]
      /\ cur_token' = [cur_token EXCEPT ![g] = @ + GatherGrid]
  BY DEF GatherToken, vars
<1>2. PICK n \in Nat : t = g + n * GatherGrid
  BY DEF LayerInv, TokensAhead
<1>3. GatherGrid \in Nat \ {0} /\ t \in Nat
  BY ApplyAssumption DEF LayerInv, TokensAhead
<1>4. t \in Tokens
  BY <1>1, <1>3, SizeAssumption DEF Tokens
<1>5. output[t] = Unwritten
  BY <1>2, <1>3, <1>4 DEF LayerInv, TokensAhead
<1>6. cur_token'[g] = t + GatherGrid /\ \A h \in Programs : h # g => cur_token'[h] = cur_token[h]
  BY <1>1 DEF LayerInv, TokensAhead
<1>7. \A u \in Tokens : u # t => output'[u] = output[u]
  BY <1>1, <1>4 DEF LayerInv, TokensAhead
<1>8. TokensAhead'
  <2>1. output' = [u \in Tokens |-> output'[u]]
    BY <1>1 DEF LayerInv, TokensAhead
  <2>2. cur_token' \in [Programs -> Nat]
    BY <1>1, <1>3 DEF LayerInv, TokensAhead
  <2>3. ASSUME NEW h \in Programs PROVE \E m \in Nat : cur_token'[h] = h + m * GatherGrid
    <3>1. CASE h = g
      <4>1. (n + 1) * GatherGrid = n * GatherGrid + GatherGrid
        BY <1>3
      <4>2. g \in Nat /\ n * GatherGrid \in Nat
        BY <1>3 DEF Programs
      <4>3. cur_token'[g] = g + (n + 1) * GatherGrid
        BY <1>2, <1>3, <1>6, <4>1, <4>2
      <4>4. QED
        BY <3>1, <4>3
    <3>2. CASE h # g
      BY <1>6, <3>2 DEF LayerInv, TokensAhead
    <3>3. QED
      BY <3>1, <3>2
  <2>4. ASSUME NEW h \in Programs, NEW m \in Nat,
               h + m * GatherGrid \in Tokens, h + m * GatherGrid >= cur_token'[h]
        PROVE  output'[h + m * GatherGrid] = Unwritten
    <3> DEFINE u == h + m * GatherGrid
    <3>1. u # t /\ u >= cur_token[h]
      <4>1. CASE h = g
        BY <1>3, <1>6, <2>4, <4>1 DEF Tokens
      <4>2. CASE h # g
        BY <1>2, <1>6, <2>4, <4>2, ClassesDisjoint
      <4>3. QED
        BY <4>1, <4>2
    <3>2. output[u] = Unwritten
      BY <2>4, <3>1 DEF LayerInv, TokensAhead
    <3>3. QED
      BY <1>7, <2>4, <3>1, <3>2
  <2>5. QED
    BY <2>1, <2>2, <2>3, <2>4 DEF TokensAhead
<1>9. written = Moe!Terms(t)
  <2> DEFINE routing == [p \in Lanes |-> LocalExpert(topk_ids[p])]
  <2>1. \A k \in Slots : << t, k >> \in Lanes /\ << t, k >>[1] = t
                         /\ routing[<< t, k >>] = LocalExpert(topk_ids[<< t, k >>])
    BY <1>4 DEF Lanes
  <2>2. \A k \in Slots : LocalExpert(topk_ids[<< t, k >>]) >= 0 =>
          workspace2[inv_perm[<< t, k >>]] = Chain(routing[<< t, k >>], t)
    BY <1>1, <2>1 DEF LayerInv, LaunchOrder, Routed
  <2>3. written = {<< k, Chain(routing[<< t, k >>], t) >> :
                     k \in {j \in Slots : routing[<< t, j >>] >= 0}}
    BY <2>1, <2>2
  <2>4. QED
    BY <2>3 DEF Moe!Terms
<1>10. Moe!Reduce(t)
  BY <1>1, <1>5, <1>9 DEF Moe!Reduce
<1>11. QED
  BY <1>4, <1>8, <1>10 DEF Moe!MoeNext

LEMMA LayerInvInit == ASSUME ApplyInit PROVE LayerInv /\ Moe!MoeInit
<1>1. ScatterInv /\ RowsLabelled /\ RowsCopied
  BY ScatterInvInit, RowsLabelledInit DEF ApplyInit, Init, RowsCopied, Lanes
<1>2. LaunchOrder
  BY <1>1 DEF ApplyInit, LaunchOrder
<1>3. GatherGrid \in Nat /\ Programs \subseteq Nat /\ \A g \in Programs : g = g + 0 * GatherGrid
  BY ApplyAssumption DEF Programs
<1>4. TokensAhead
  <2>1. output = [t \in Tokens |-> Unwritten] /\ cur_token = [g \in Programs |-> g]
    BY DEF ApplyInit
  <2>2. \A g \in Programs : \E n \in Nat : cur_token[g] = g + n * GatherGrid
    BY <1>3, <2>1
  <2>3. QED
    BY <1>3, <2>1, <2>2 DEF TokensAhead
<1>5. QED
  BY <1>2, <1>4 DEF LayerInv, ApplyInit, Moe!MoeInit

LEMMA LayerInvNext ==
  ASSUME DefinedLanes, LayerInv, [ApplyNext]_all
  PROVE  LayerInv' /\ [Moe!MoeNext]_(Moe!moeVars)
<1>1. LaunchOrder' /\ topk_ids' = topk_ids
  BY LaunchOrderNext DEF LayerInv
<1>2. ASSUME cur_token' = cur_token, output' = output
      PROVE  LayerInv' /\ [Moe!MoeNext]_(Moe!moeVars)
  BY <1>1, <1>2 DEF LayerInv, TokensAhead, Moe!moeVars
<1>3. ASSUME NEW g \in Programs, GatherToken(g)
      PROVE  LayerInv' /\ [Moe!MoeNext]_(Moe!moeVars)
  BY <1>1, <1>3, GatherWrites DEF LayerInv
<1>4. QED
  BY <1>2, <1>3 DEF ApplyNext, Permute, Mm1, ActMulQuant, Mm2, Launch, moe, all

--------------------------------------------------------------------------------
\* Each launch finds the routed rows where the one before it left them, and the gather
\* has written no token that is still ahead of a program.
THEOREM LayerInvariant == ASSUME DefinedLanes PROVE ApplySafe => []LayerInv
<1>1. QED
  BY LayerInvInit, LayerInvNext, PTL DEF ApplySafe

\* The layer implements MoeReduce: a token's output is written once, with exactly the
\* answers of the experts it is routed to.
THEOREM LayerImplementsMoe == ASSUME DefinedLanes PROVE ApplySafe => MoeSafe
<1>1. QED
  BY LayerInvInit, LayerInvNext, PTL DEF ApplySafe, MoeSafe
================================================================================
