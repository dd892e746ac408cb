-------------------------- MODULE SparseIndexerProofs --------------------------
(***************************************************************************)
(* The rows of the sparse indexer are of their own query, weights and      *)
(* keys, for every setting, prompts, lengths, context and workspace.       *)
(* The argument is an invariant over the stages of a step: the cache holds *)
(* every key of the tokens so far (Written); the builder's chunks cover    *)
(* the prefill tokens, each fits the workspace, and one that does not      *)
(* gather follows one of the same requests (Planned); what is left of the  *)
(* chunks and what is done cover the tokens together (Gathers).            *)
(***************************************************************************)
EXTENDS SparseIndexer, FiniteSetTheorems, SequenceTheorems, WellFoundedInduction, TLAPS

\* The cache holds the keys of the first n tokens of a request, each made of its token.
KeysAre(r, n) ==
  \A x \in 0 .. (n \div Ratio) - 1 :
    /\ << r, x >> \in DOMAIN keyCache
    /\ keyCache[<< r, x >>] = [token |-> tokens[r][(x + 1) * Ratio - 1], dtype |-> key_dtype]

\* Types, and the stages that can be reached: a chunk never needs more than was reserved.
IndexerType ==
  /\ ixEnv \in IndexerEnvs
  /\ progress \in [Requests -> 0 .. IndexerContext]
  /\ lag \in [Requests -> Nat]
  /\ tokens \in [Requests -> [0 .. IndexerContext - 1 -> Nat]]
  /\ ixStage \in {"construct", "refused", "idle", "build", "insert", "raised", "prefill", "served"}
  /\ ixStage \notin {"construct", "refused"} => ~ Refused

\* The step's requests are different ones, none longer than the context, and the lengths
\* that attention shares with the builder are theirs.
BatchOk ==
  /\ batch \in Seq([req : Requests, len : 1 .. IndexerContext])
  /\ \A k \in DOMAIN batch : SeqLen(k) <= IndexerContext
  /\ \A k, l \in DOMAIN batch : batch[k].req = batch[l].req => k = l
  /\ commonLens = [k \in DOMAIN batch |-> SeqLen(k)]

\* A chunk as the builder hands it to the op.
Chunk == [start : Nat, end : Nat, rows : Nat, reqs : Nat \X Nat, skip_kv_gather : BOOLEAN]

\* A chunk is of consecutive requests, within their tokens, and its logits fit.
ValidChunk(c) ==
  \E s, e \in DOMAIN batch :
    /\ s <= e /\ c.reqs = << s, e >>
    /\ Before(s) <= c.start /\ c.end <= Before(e + 1)
    /\ FitsReserved(c)

\* A chunk that finds its keys gathered follows one of the same requests.
ChunksOk(q) ==
  /\ q \in Seq(Chunk)
  /\ \A i \in DOMAIN q : ValidChunk(q[i])
  /\ \A i \in DOMAIN q : i > 1 /\ q[i].skip_kv_gather => q[i - 1].reqs = q[i].reqs

\* A token is still to be computed by a chunk.
Covered(q, t) == \E i \in DOMAIN q : q[i].start <= t /\ t < q[i].end

\* A workspace holds the keys of the requests s .. e, one request after the other.
Holds(space, s, e) ==
  \A k \in s .. e : \A x \in 0 .. (SeqLen(k) \div Ratio) - 1 :
    space[KeyRows[k - 1] - KeyRows[s - 1] + x + 1] =
      << << batch[k].req, x >>, keyCache[<< batch[k].req, x >>] >>

\* The lengths a plan of the decode half reads.
ViewOf(m, lens) == CASE m.view = "common" -> lens.common
                     [] m.view = "decode" -> lens.decode
                     [] m.view = "expanded" -> lens.expanded

\* A plan for the first n tokens: each row has its token's request and visible keys, in the
\* shape the kernel's schedule was made for.
PlanRight(m, lens, n) ==
  LET rows == Len(m.lens)
      cols == n \div rows
  IN /\ m # NoDecode /\ ~ m.padding
     /\ Cumsum(m.lens)[rows] = n /\ cols \in Nat \ {0} /\ rows * cols = n
     /\ \A t \in 0 .. n - 1 :
          /\ m.tables[(t \div cols) + 1] = batch[Owner(t)].req
          /\ ViewOf(m, lens)[t + 1] = VisibleKeys(t)
     /\ ixEnv.deep_gemm => m.schedule = [lens |-> ViewOf(m, lens), cols |-> cols,
                                         metadata_extra |-> indexer_n_head > 0]

\* Tokens to decode have a right plan, and no plan is made without one.
DecodeOk ==
  IF split_decodes_and_prefills = 0 THEN decode = NoDecode
  ELSE PlanRight(decode, [common |-> commonLens, decode |-> decodeLens, expanded |-> expandedLens],
                 StartLoc[split_decodes_and_prefills])

\* What TopKIsOfItsKeys says of one token.
RowRight(t) ==
  LET r == batch[Owner(t)].req
      Current(x) == << << r, x >>, [token |-> tokens[r][(x + 1) * Ratio - 1],
                                    dtype |-> topk[t + 1].read] >>
  IN IF VisibleKeys(t) = 0 THEN topk[t + 1].keys = {}
     ELSE /\ topk[t + 1].query = t /\ topk[t + 1].weights = t
          /\ topk[t + 1].keys = { Current(x) : x \in 0 .. VisibleKeys(t) - 1 }

\* The tokens behind those that are decoded.
PrefillTokens == StartLoc[split_decodes_and_prefills] .. NumTokens - 1

\* From the build on, the chunks and the decode metadata are right for the step.
Planned ==
  ixStage \in {"insert", "prefill"} => ChunksOk(chunks) /\ DecodeOk

\* No prefill token is lost between the chunks that are left and the rows that are written.
Gathers ==
  /\ ixStage = "insert" =>
       /\ chunks # << >> => ~ chunks[1].skip_kv_gather
       /\ \A t \in PrefillTokens : Covered(chunks, t) \/ VisibleKeys(t) = 0
  /\ ixStage = "prefill" =>
       /\ chunks # << >> /\ chunks[1].skip_kv_gather =>
            Holds(workspace, chunks[1].reqs[1], chunks[1].reqs[2])
       /\ \A t \in PrefillTokens : Covered(chunks, t) \/ RowRight(t)

\* The cache has the keys of what was computed, and once inserted those of the step.
Written ==
  /\ \A r \in Requests : KeysAre(r, progress[r])
  /\ ixStage \in {"prefill", "served"} =>
       /\ \A k \in DOMAIN batch : KeysAre(batch[k].req, SeqLen(k))
       /\ Asserted
       /\ DOMAIN topk = 1 .. NumTokens

\* Once served, every token has its row.
AllRight == ixStage = "served" => \A t \in 0 .. NumTokens - 1 : RowRight(t)

\* The inductive invariant.
IndexerInv ==
  /\ IndexerType
  /\ ixStage \in {"build", "insert", "prefill", "served"} => BatchOk
  /\ Planned /\ Gathers /\ Written /\ AllRight

--------------------------------------------------------------------------------
(* Cumulative sums.                                                            *)

\* Every set of naturals that has an element has a least one.
LEMMA LeastElement ==
  ASSUME NEW S, S \subseteq Nat, S # {}
  PROVE  \E n \in S : \A m \in S : n <= m
<1>1. PICK x \in S : \A y \in S : ~ (<< y, x >> \in OpToRel(<, Nat))
  BY NatLessThanWellFounded, WFMin
<1>2. ASSUME NEW m \in S PROVE x <= m
  <2>1. x \in Nat /\ m \in Nat OBVIOUS
  <2>2. ~ (<< m, x >> \in {ss \in Nat \X Nat : ss[1] < ss[2]}) BY <1>1 DEF OpToRel
  <2>3. ~ (m < x) BY <2>1, <2>2
  <2>4. QED BY <2>3, <2>1
<1>3. QED BY <1>2

\* The recursion of Cumsum has a solution, so the function it defines obeys it.
LEMMA CumsumRecursion ==
  ASSUME NEW c \in Seq(Nat)
  PROVE  /\ Cumsum(c) \in [0 .. Len(c) -> Nat]
         /\ Cumsum(c)[0] = 0
         /\ \A k \in 1 .. Len(c) : Cumsum(c)[k] = Cumsum(c)[k - 1] + c[k]
<1> DEFINE n == Len(c)
           Good(s, k) == /\ s \in [0 .. k -> Nat] /\ s[0] = 0
                         /\ \A i \in 1 .. k : s[i] = s[i - 1] + c[i]
           Bad == {k \in 0 .. n : ~ \E s : Good(s, k)}
<1>0. n \in Nat /\ \A k \in 1 .. n : c[k] \in Nat OBVIOUS
<1> HIDE DEF n
<1>1. Bad = {}
  <2> SUFFICES ASSUME Bad # {} PROVE FALSE OBVIOUS
  <2>1. Bad \subseteq Nat BY <1>0
  <2>2. PICK k \in Bad : \A m \in Bad : k <= m
    <3> HIDE DEF Bad
    <3> QED BY LeastElement, <2>1
  <2>3. k # 0
    <3>1. Good([i \in 0 .. 0 |-> 0], 0) OBVIOUS
    <3>2. QED BY <3>1
  <2>4. k \in 1 .. n /\ k - 1 \in 0 .. n BY <1>0, <2>3
  <2>5. PICK s : Good(s, k - 1)
    <3>1. k \in Nat /\ k - 1 \in 0 .. n BY <1>0, <2>4
    <3>2. ~ (k <= k - 1) BY <3>1
    <3>3. k - 1 \notin Bad
      <4> HIDE DEF Bad
      <4> QED BY <2>2, <3>2
    <3>4. QED BY <3>1, <3>3
  <2>6. c[k] \in Nat BY <1>0, <2>4
  <2> DEFINE longer == [i \in 0 .. k |-> IF i = k THEN s[k - 1] + c[k] ELSE s[i]]
  <2>7. longer \in [0 .. k -> Nat] /\ longer[0] = 0 BY <2>4, <2>5, <2>6
  <2>8. ASSUME NEW i \in 1 .. k PROVE longer[i] = longer[i - 1] + c[i]
    <3>1. CASE i = k BY <3>1, <2>4
    <3>2. CASE i # k BY <3>2, <2>4, <2>5
    <3>3. QED BY <3>1, <3>2
  <2>9. Good(longer, k) BY <2>7, <2>8
  <2>10. QED BY <2>9
<1>2. PICK s : Good(s, n)
  <2>1. n \in 0 .. n BY <1>0
  <2>2. QED BY <1>1, <2>1
<1>3. s = [k \in 0 .. n |-> IF k = 0 THEN 0 ELSE s[k - 1] + c[k]]
  <2>1. \A k \in 0 .. n : s[k] = IF k = 0 THEN 0 ELSE s[k - 1] + c[k] BY <1>0, <1>2
  <2>2. QED BY <2>1, <1>2
<1>4. Cumsum(c) = [k \in 0 .. n |-> IF k = 0 THEN 0 ELSE Cumsum(c)[k - 1] + c[k]]
  BY <1>3 DEF Cumsum, n
<1> DEFINE f == Cumsum(c)
           B == {k \in 0 .. n : f[k] \notin Nat}
<1>5. f = [k \in 0 .. n |-> IF k = 0 THEN 0 ELSE f[k - 1] + c[k]] BY <1>4
<1> HIDE DEF f
<1>6. \A k \in 0 .. n : f[k] \in Nat
  <2> SUFFICES ASSUME B # {} PROVE FALSE OBVIOUS
  <2>1. B \subseteq Nat BY <1>0
  <2>2. PICK k \in B : \A m \in B : k <= m
    <3> HIDE DEF B
    <3> QED BY LeastElement, <2>1
  <2>3. CASE k = 0 BY <2>3, <1>5
  <2>4. CASE k # 0
    <3>1. k \in 1 .. n /\ k - 1 \in 0 .. n BY <2>2, <2>4, <1>0
    <3>2. k - 1 \notin B BY <3>1, <2>2
    <3>3. f[k] = f[k - 1] + c[k] BY <3>1, <1>5
    <3>4. QED BY <3>1, <3>2, <3>3, <1>0
  <2>5. QED BY <2>3, <2>4
<1>7. f \in [0 .. n -> Nat] BY <1>5, <1>6
<1>8. f[0] = 0 /\ \A k \in 1 .. n : f[k] = f[k - 1] + c[k] BY <1>0, <1>5
<1>9. QED BY <1>7, <1>8 DEF f, n

\* The sums grow.
LEMMA CumsumMonotone ==
  ASSUME NEW c \in Seq(Nat), NEW i \in 0 .. Len(c), NEW j \in 0 .. Len(c), i <= j
  PROVE  Cumsum(c)[i] <= Cumsum(c)[j]
<1> DEFINE f == Cumsum(c)
           B == {k \in 0 .. Len(c) : i <= k /\ ~ (f[i] <= f[k])}
<1>1. /\ f \in [0 .. Len(c) -> Nat]
      /\ \A k \in 1 .. Len(c) : f[k] = f[k - 1] + c[k]
  BY CumsumRecursion
<1>2. Len(c) \in Nat /\ \A k \in 1 .. Len(c) : c[k] \in Nat OBVIOUS
<1> HIDE DEF f
<1>3. B = {}
  <2> SUFFICES ASSUME B # {} PROVE FALSE OBVIOUS
  <2>1. B \subseteq Nat BY <1>2
  <2>2. PICK k \in B : \A m \in B : k <= m
    <3> HIDE DEF B
    <3> QED BY LeastElement, <2>1
  <2>3. k # i BY <1>1
  <2>4. k \in 1 .. Len(c) /\ k - 1 \in 0 .. Len(c) /\ i <= k - 1 BY <1>2, <2>2, <2>3
  <2>5. f[i] <= f[k - 1] BY <2>2, <2>4
  <2>6. f[k] = f[k - 1] + c[k] /\ c[k] \in Nat BY <1>1, <1>2, <2>4
  <2>7. f[i] \in Nat /\ f[k - 1] \in Nat BY <1>1, <2>4
  <2>8. QED BY <2>5, <2>6, <2>7, SMTT(60)
<1>4. QED BY <1>3 DEF f

\* A number below the last sum lies in an interval,
LEMMA IntervalFound ==
  ASSUME NEW c \in Seq(Nat), NEW i \in Nat, i < Cumsum(c)[Len(c)]
  PROVE  /\ Interval(Cumsum(c), i) \in 1 .. Len(c)
         /\ Cumsum(c)[Interval(Cumsum(c), i) - 1] <= i /\ i < Cumsum(c)[Interval(Cumsum(c), i)]
<1> DEFINE f == Cumsum(c)
           B == {k \in 0 .. Len(c) : i < f[k]}
<1>1. f \in [0 .. Len(c) -> Nat] /\ f[0] = 0 BY CumsumRecursion
<1>2. Len(c) \in Nat OBVIOUS
<1> HIDE DEF f
<1>3. PICK k \in B : \A m \in B : k <= m
  <2>1. Len(c) \in B BY <1>2 DEF f
  <2>2. B \subseteq Nat BY <1>2
  <2> HIDE DEF B
  <2>3. QED BY LeastElement, <2>1, <2>2
<1>4. k # 0 BY <1>1
<1>5. k \in 1 .. Len(c) /\ k - 1 \in 0 .. Len(c) BY <1>2, <1>3, <1>4
<1>6. k - 1 \notin B BY <1>3, <1>5
<1>7. f[k - 1] <= i /\ i < f[k] BY <1>1, <1>3, <1>5, <1>6, SMTT(60)
<1>8. DOMAIN f \ {0} = 1 .. Len(c) BY <1>1, <1>2
<1>9. \E m \in 1 .. Len(c) : f[m - 1] <= i /\ i < f[m] BY <1>5, <1>7
<1>10. QED BY <1>8, <1>9 DEF Interval, f

\* and in one only.
LEMMA IntervalIs ==
  ASSUME NEW c \in Seq(Nat), NEW i \in Nat, NEW k \in 1 .. Len(c),
         Cumsum(c)[k - 1] <= i, i < Cumsum(c)[k]
  PROVE  Interval(Cumsum(c), i) = k /\ i < Cumsum(c)[Len(c)]
<1> DEFINE f == Cumsum(c)
           m == Interval(f, i)
<1>1. f \in [0 .. Len(c) -> Nat] BY CumsumRecursion
<1>2. Len(c) \in Nat OBVIOUS
<1>3. k \in 0 .. Len(c) /\ Len(c) \in 0 .. Len(c) /\ k <= Len(c) /\ k - 1 \in 0 .. Len(c) BY <1>2
<1>4. f[k] <= f[Len(c)] BY <1>3, CumsumMonotone
<1>5. i < f[Len(c)] BY <1>4, <1>1, <1>3, SMTT(60)
<1>6. m \in 1 .. Len(c) /\ f[m - 1] <= i /\ i < f[m] BY <1>5, IntervalFound
<1> HIDE DEF m
<1>7. m - 1 \in 0 .. Len(c) /\ m \in 0 .. Len(c) BY <1>2, <1>6
<1>8. ~ (m <= k - 1)
  <2> SUFFICES ASSUME m <= k - 1 PROVE FALSE OBVIOUS
  <2>1. f[m] <= f[k - 1] BY <1>3, <1>7, CumsumMonotone
  <2> HIDE DEF f
  <2>2. f[m] \in Nat /\ f[k - 1] \in Nat BY <1>1, <1>3, <1>7
  <2>3. f[k - 1] <= i BY DEF f
  <2>4. QED BY <1>6, <2>1, <2>2, <2>3
<1>9. ~ (k <= m - 1)
  <2> SUFFICES ASSUME k <= m - 1 PROVE FALSE OBVIOUS
  <2>1. f[k] <= f[m - 1] BY <1>3, <1>7, CumsumMonotone
  <2> HIDE DEF f
  <2>2. f[m - 1] \in Nat /\ f[k] \in Nat BY <1>1, <1>3, <1>7
  <2>3. i < f[k] BY DEF f
  <2>4. QED BY <1>6, <2>1, <2>2, <2>3
<1>10. m = k BY <1>2, <1>3, <1>6, <1>8, <1>9
<1>11. QED BY <1>5, <1>10 DEF f, m

\* Where every entry is the same the sums are its multiples.
LEMMA CumsumUniform ==
  ASSUME NEW c \in Seq(Nat), NEW n \in 0 .. Len(c), NEW L \in Nat,
         \A k \in 1 .. n : c[k] = L, NEW j \in 0 .. n
  PROVE  Cumsum(c)[j] = j * L
<1> DEFINE f == Cumsum(c)
           B == {k \in 0 .. n : f[k] # k * L}
<1>1. f[0] = 0 /\ \A k \in 1 .. Len(c) : f[k] = f[k - 1] + c[k] BY CumsumRecursion
<1>2. Len(c) \in Nat /\ n \in Nat OBVIOUS
<1> HIDE DEF f
<1>3. B = {}
  <2> SUFFICES ASSUME B # {} PROVE FALSE OBVIOUS
  <2>1. B \subseteq Nat BY <1>2
  <2>2. PICK k \in B : \A m \in B : k <= m
    <3> HIDE DEF B
    <3> QED BY LeastElement, <2>1
  <2>3. k # 0 BY <1>1
  <2>4. k \in 1 .. n /\ k \in 1 .. Len(c) /\ k - 1 \in 0 .. n BY <1>2, <2>2, <2>3
  <2>5. f[k - 1] = (k - 1) * L BY <2>2, <2>4
  <2>6. f[k] = f[k - 1] + L BY <1>1, <2>4
  <2>7. (k - 1) * L + L = k * L BY <2>4
  <2>8. QED BY <2>2, <2>5, <2>6, <2>7
<1>4. QED BY <1>3 DEF f

--------------------------------------------------------------------------------
(* The step's batch.                                                           *)

\* What the requests of a step are, and their lengths.
LEMMA BatchIs ==
  ASSUME IndexerType, BatchOk
  PROVE  /\ Len(batch) \in Nat /\ DOMAIN batch = 1 .. Len(batch)
         /\ Ratio \in {1, 2}
         /\ \A k \in 1 .. Len(batch) :
              /\ batch[k].req \in Requests /\ QueryLen(k) \in Nat \ {0}
              /\ progress[batch[k].req] \in Nat /\ lag[batch[k].req] \in Nat
              /\ SeqLen(k) = progress[batch[k].req] + QueryLen(k)
              /\ SeqLen(k) \in Nat /\ SeqLen(k) <= IndexerContext
              /\ UpperBound(k) = SeqLen(k) + lag[batch[k].req]
              /\ SeqLen(k) \div Ratio \in Nat /\ UpperBound(k) \div Ratio \in Nat
              /\ SeqLen(k) \div Ratio <= UpperBound(k) \div Ratio
<1>1. Len(batch) \in Nat /\ DOMAIN batch = 1 .. Len(batch) BY DEF BatchOk
<1>2. Ratio \in {1, 2} BY DEF Ratio
<1>3. ASSUME NEW k \in 1 .. Len(batch)
      PROVE  /\ batch[k].req \in Requests /\ QueryLen(k) \in Nat \ {0}
             /\ progress[batch[k].req] \in Nat /\ lag[batch[k].req] \in Nat
             /\ SeqLen(k) <= IndexerContext
  <2>1. batch[k] \in [req : Requests, len : 1 .. IndexerContext]
    <3>1. batch \in Seq([req : Requests, len : 1 .. IndexerContext]) BY DEF BatchOk
    <3>2. QED BY <3>1, ElementOfSeq
  <2>2. IndexerContext \in Nat BY IndexerAssumption
  <2>3. QED BY <2>1, <2>2, <1>1, SMTT(60) DEF QueryLen, IndexerType, BatchOk
<1>4. ASSUME NEW k \in 1 .. Len(batch)
      PROVE  /\ SeqLen(k) = progress[batch[k].req] + QueryLen(k)
             /\ UpperBound(k) = SeqLen(k) + lag[batch[k].req]
  BY DEF SeqLen, QueryLen, UpperBound
<1>5. ASSUME NEW a \in Nat, NEW b \in Nat
      PROVE  a \div Ratio \in Nat /\ (a + b) \div Ratio \in Nat /\ (a \div Ratio) <= (a + b) \div Ratio
  <2>1. CASE Ratio = 1 BY <2>1
  <2>2. CASE Ratio = 2 BY <2>2
  <2>3. QED BY <1>2, <2>1, <2>2
<1>6. ASSUME NEW k \in 1 .. Len(batch)
      PROVE  SeqLen(k) \in Nat /\ SeqLen(k) \div Ratio \in Nat /\ UpperBound(k) \div Ratio \in Nat
             /\ SeqLen(k) \div Ratio <= UpperBound(k) \div Ratio
  <2>1. SeqLen(k) \in Nat BY <1>3, <1>4, SMTT(60)
  <2>2. QED BY <2>1, <1>3, <1>4, <1>5
<1>7. QED BY <1>1, <1>2, <1>3, <1>4, <1>6

\* The three prefix sums are of sequences of naturals.
LEMMA SumsAre ==
  ASSUME IndexerType, BatchOk
  PROVE  \E lens, keys, upper \in Seq(Nat) :
           /\ Len(lens) = Len(batch) /\ Len(keys) = Len(batch) /\ Len(upper) = Len(batch)
           /\ StartLoc = Cumsum(lens) /\ KeyRows = Cumsum(keys) /\ UpperRows = Cumsum(upper)
           /\ \A k \in 1 .. Len(batch) : /\ lens[k] = QueryLen(k)
                                         /\ keys[k] = SeqLen(k) \div Ratio
                                         /\ upper[k] = UpperBound(k) \div Ratio
<1> DEFINE n == Len(batch)
           lens == [k \in 1 .. n |-> QueryLen(k)]
           keys == [k \in 1 .. n |-> SeqLen(k) \div Ratio]
           upper == [k \in 1 .. n |-> UpperBound(k) \div Ratio]
<1>1. n \in Nat /\ DOMAIN batch = 1 .. n BY BatchIs
<1>2. \A k \in 1 .. n : QueryLen(k) \in Nat /\ SeqLen(k) \div Ratio \in Nat /\ UpperBound(k) \div Ratio \in Nat
  BY BatchIs
<1> HIDE DEF n
<1>3. lens \in Seq(Nat) /\ Len(lens) = n BY <1>1, <1>2
<1>4. keys \in Seq(Nat) /\ Len(keys) = n BY <1>1, <1>2
<1>5. upper \in Seq(Nat) /\ Len(upper) = n BY <1>1, <1>2
<1>6. StartLoc = Cumsum(lens) /\ KeyRows = Cumsum(keys) /\ UpperRows = Cumsum(upper)
  BY <1>1 DEF StartLoc, KeyRows, UpperRows
<1>7. \A k \in 1 .. n : lens[k] = QueryLen(k) /\ keys[k] = SeqLen(k) \div Ratio
                        /\ upper[k] = UpperBound(k) \div Ratio
  OBVIOUS
<1> HIDE DEF lens, keys, upper
<1>8. QED BY <1>3, <1>4, <1>5, <1>6, <1>7 DEF n

LEMMA StartsAre ==
  ASSUME IndexerType, BatchOk
  PROVE  /\ StartLoc \in [0 .. Len(batch) -> Nat] /\ StartLoc[0] = 0
         /\ KeyRows \in [0 .. Len(batch) -> Nat] /\ UpperRows \in [0 .. Len(batch) -> Nat]
         /\ \A k \in 1 .. Len(batch) : /\ StartLoc[k] = StartLoc[k - 1] + QueryLen(k)
                                       /\ KeyRows[k] = KeyRows[k - 1] + (SeqLen(k) \div Ratio)
                                       /\ UpperRows[k] = UpperRows[k - 1] + (UpperBound(k) \div Ratio)
         /\ \A i, j \in 0 .. Len(batch) : i <= j => StartLoc[i] <= StartLoc[j]
         /\ \A i, j \in 0 .. Len(batch) : i <= j => KeyRows[i] <= KeyRows[j]
         /\ \A i, j \in 0 .. Len(batch) : i <= j => UpperRows[i] <= UpperRows[j]
         /\ NumTokens \in Nat
<1>1. PICK lens, keys, upper \in Seq(Nat) :
           /\ Len(lens) = Len(batch) /\ Len(keys) = Len(batch) /\ Len(upper) = Len(batch)
           /\ StartLoc = Cumsum(lens) /\ KeyRows = Cumsum(keys) /\ UpperRows = Cumsum(upper)
           /\ \A k \in 1 .. Len(batch) : /\ lens[k] = QueryLen(k)
                                         /\ keys[k] = SeqLen(k) \div Ratio
                                         /\ upper[k] = UpperBound(k) \div Ratio
  BY SumsAre
<1>2. Len(batch) \in Nat BY BatchIs
<1>3. /\ StartLoc \in [0 .. Len(batch) -> Nat] /\ StartLoc[0] = 0
      /\ \A k \in 1 .. Len(batch) : StartLoc[k] = StartLoc[k - 1] + QueryLen(k)
  BY <1>1, CumsumRecursion
<1>4. /\ KeyRows \in [0 .. Len(batch) -> Nat]
      /\ \A k \in 1 .. Len(batch) : KeyRows[k] = KeyRows[k - 1] + (SeqLen(k) \div Ratio)
  BY <1>1, CumsumRecursion
<1>5. /\ UpperRows \in [0 .. Len(batch) -> Nat]
      /\ \A k \in 1 .. Len(batch) : UpperRows[k] = UpperRows[k - 1] + (UpperBound(k) \div Ratio)
  BY <1>1, CumsumRecursion
<1>6. \A i, j \in 0 .. Len(batch) : i <= j => StartLoc[i] <= StartLoc[j] BY <1>1, CumsumMonotone
<1>7. \A i, j \in 0 .. Len(batch) : i <= j => KeyRows[i] <= KeyRows[j] BY <1>1, CumsumMonotone
<1>8. \A i, j \in 0 .. Len(batch) : i <= j => UpperRows[i] <= UpperRows[j] BY <1>1, CumsumMonotone
<1>9. NumTokens \in Nat
  <2>1. Len(batch) \in 0 .. Len(batch) BY <1>2
  <2>2. QED BY <2>1, <1>3 DEF NumTokens
<1>10. QED BY <1>3, <1>4, <1>5, <1>6, <1>7, <1>8, <1>9

\* The request of a token, and the request of a row of gathered keys.
LEMMA OwnerFound ==
  ASSUME IndexerType, BatchOk, NEW t \in 0 .. NumTokens - 1
  PROVE  /\ Owner(t) \in 1 .. Len(batch)
         /\ StartLoc[Owner(t) - 1] <= t /\ t < StartLoc[Owner(t)]
<1>1. PICK lens \in Seq(Nat) : Len(lens) = Len(batch) /\ StartLoc = Cumsum(lens) BY SumsAre
<1>2. t \in Nat /\ t < Cumsum(lens)[Len(lens)] BY StartsAre, <1>1 DEF NumTokens
<1>3. QED BY <1>1, <1>2, IntervalFound DEF Owner

LEMMA OwnerIs ==
  ASSUME IndexerType, BatchOk, NEW t \in Nat, NEW k \in 1 .. Len(batch),
         StartLoc[k - 1] <= t, t < StartLoc[k]
  PROVE  Owner(t) = k /\ t \in 0 .. NumTokens - 1
<1>1. PICK lens \in Seq(Nat) : Len(lens) = Len(batch) /\ StartLoc = Cumsum(lens) BY SumsAre
<1>2. Interval(Cumsum(lens), t) = k /\ t < Cumsum(lens)[Len(lens)] BY <1>1, IntervalIs
<1>3. NumTokens \in Nat BY StartsAre
<1>4. QED BY <1>1, <1>2, <1>3 DEF Owner, NumTokens

\* The request of a row of gathered keys.
LEMMA RowIs ==
  ASSUME IndexerType, BatchOk, NEW i \in Nat, NEW k \in 1 .. Len(batch),
         KeyRows[k - 1] <= i, i < KeyRows[k]
  PROVE  Interval(KeyRows, i) = k
<1>1. PICK keys \in Seq(Nat) : Len(keys) = Len(batch) /\ KeyRows = Cumsum(keys) BY SumsAre
<1>2. QED BY <1>1, IntervalIs

\* A token lies within its request, and sees no more keys than the request has.
LEMMA PositionIs ==
  ASSUME IndexerType, BatchOk, NEW t \in 0 .. NumTokens - 1
  PROVE  /\ Owner(t) \in 1 .. Len(batch)
         /\ Position(t) = progress[batch[Owner(t)].req] + (t - StartLoc[Owner(t) - 1])
         /\ Position(t) \in Nat /\ Position(t) >= progress[batch[Owner(t)].req]
         /\ Position(t) + 1 <= SeqLen(Owner(t))
         /\ VisibleKeys(t) \in Nat /\ VisibleKeys(t) <= SeqLen(Owner(t)) \div Ratio
<1> DEFINE k == Owner(t)
<1>1. k \in 1 .. Len(batch) /\ StartLoc[k - 1] <= t /\ t < StartLoc[k] BY OwnerFound
<1>2. Len(batch) \in Nat /\ t \in Nat BY BatchIs
<1>3. k - 1 \in 0 .. Len(batch) /\ k \in 0 .. Len(batch) BY <1>1, <1>2
<1>4. StartLoc[k - 1] \in Nat /\ StartLoc[k] \in Nat /\ StartLoc[k] = StartLoc[k - 1] + QueryLen(k)
  BY <1>1, <1>3, StartsAre
<1>5. /\ progress[batch[k].req] \in Nat /\ QueryLen(k) \in Nat
      /\ SeqLen(k) = progress[batch[k].req] + QueryLen(k)
  BY <1>1, BatchIs
<1>6. Position(t) = progress[batch[k].req] + (t - StartLoc[k - 1]) BY DEF Position, Before
<1> HIDE DEF k
<1>7. /\ Position(t) = progress[batch[k].req] + (t - StartLoc[k - 1])
      /\ Position(t) \in Nat /\ Position(t) >= progress[batch[k].req]
      /\ Position(t) + 1 <= SeqLen(k)
  <2>1. ASSUME NEW p \in Nat, NEW q \in Nat, NEW a \in Nat, NEW b \in Nat, b = a + q, a <= t, t < b
        PROVE  p + (t - a) \in Nat /\ p + (t - a) >= p /\ p + (t - a) + 1 <= p + q
    BY <2>1, <1>2
  <2> DEFINE p == progress[batch[k].req]
  <2>2. /\ p + (t - StartLoc[k - 1]) \in Nat /\ p + (t - StartLoc[k - 1]) >= p
        /\ p + (t - StartLoc[k - 1]) + 1 <= p + QueryLen(k)
    <3>1. p \in Nat /\ QueryLen(k) \in Nat BY <1>5
    <3> HIDE DEF p
    <3>2. QED BY <3>1, <2>1, <1>1, <1>4
  <2>3. Position(t) = p + (t - StartLoc[k - 1]) BY <1>6
  <2>4. SeqLen(k) = p + QueryLen(k) BY <1>5
  <2> HIDE DEF p
  <2>5. /\ Position(t) \in Nat /\ Position(t) >= p /\ Position(t) + 1 <= SeqLen(k)
    BY <2>2, <2>3, <2>4
  <2>6. QED BY <2>3, <2>5 DEF p
<1>8. Ratio \in {1, 2} /\ SeqLen(k) \in Nat BY <1>1, BatchIs
<1>9. VisibleKeys(t) = (Position(t) + 1) \div Ratio BY DEF VisibleKeys
<1>10. VisibleKeys(t) \in Nat /\ VisibleKeys(t) <= SeqLen(k) \div Ratio
  <2>1. CASE Ratio = 1 BY <2>1, <1>7, <1>8, <1>9
  <2>2. CASE Ratio = 2 BY <2>2, <1>7, <1>8, <1>9
  <2>3. QED BY <2>1, <2>2, <1>8
<1>11. QED BY <1>1, <1>7, <1>10 DEF k

--------------------------------------------------------------------------------
(* The formats.                                                                *)

\* Writer and reader agree wherever the op does not refuse: a fp4 cache implies V4 and a device
\* that takes it, and every module that chooses a format is rebound.
LEMMA FormatsAgree ==
  ASSUME ixEnv \in IndexerEnvs, ~ Refused, Asserted
  PROVE  /\ Reader = key_dtype
         /\ indexer_n_head > 0 <=> Reader = "fp4"
<1>1. ixEnv.v4 \in BOOLEAN /\ ixEnv.sm89 \in BOOLEAN /\ ixEnv.mxfp4 \in BOOLEAN BY IndexerAssumption
<1>2. /\ UseFp4Cache = ixEnv.mxfp4
      /\ fused_indexer_q_rope_quant = IndexerFormat(TRUE)
      /\ compress_norm_rope_store_triton = IndexerFormat(TRUE)
  BY DEF UseFp4Cache, Patched, _INDEXER_ALIAS_CONSUMERS, dsa_indexer_uses_fp4,
         fused_indexer_q_rope_quant, compress_norm_rope_store_triton
<1>3. ixEnv.mxfp4 => ixEnv.sm89 /\ ixEnv.v4 BY <1>1, <1>2 DEF Refused, Asserted
<1>4. indexer_n_head > 0 <=> ixEnv.mxfp4
  BY <1>1, <1>3 DEF indexer_n_head, get_kv_cache_spec, dsa_indexer_uses_fp4
<1>5. CASE ixEnv.mxfp4
  <2>1. Reader = "fp4" /\ key_dtype = "fp4"
    BY <1>2, <1>3, <1>5 DEF Reader, key_dtype, IndexerFormat
  <2>2. QED BY <2>1, <1>4, <1>5
<1>6. CASE ~ ixEnv.mxfp4
  <2>1. Reader = q_dtype /\ ~ UseFp4Cache BY <1>2, <1>6 DEF Reader
  <2>2. CASE ixEnv.v4
    <3>1. q_dtype = key_dtype BY <1>2, <2>2 DEF q_dtype, key_dtype
    <3>2. q_dtype # "fp4" BY <1>2, <2>1, <2>2 DEF q_dtype, IndexerFormat
    <3>3. QED BY <3>1, <3>2, <2>1, <1>4, <1>6
  <2>3. CASE ~ ixEnv.v4
    <3>1. q_dtype = "int8" \/ q_dtype = "fp8" BY <2>3 DEF q_dtype
    <3>2. q_dtype = key_dtype /\ q_dtype # "fp4" BY <2>3, <3>1 DEF key_dtype
    <3>3. QED BY <3>2, <2>1, <1>4, <1>6
  <2>4. QED BY <2>2, <2>3
<1>7. QED BY <1>5, <1>6

--------------------------------------------------------------------------------
(* The builder's split of the step.                                            *)

\* There is a longest prefix of requests to decode.
LEMMA SplitIs ==
  ASSUME IndexerType, BatchOk
  PROVE  /\ split_decodes_and_prefills \in 0 .. Len(batch)
         /\ \A k \in 1 .. split_decodes_and_prefills :
              /\ QueryLen(k) <= decode_threshold
              /\ RequireUniform => QueryLen(k) = QueryLen(1)
<1> DEFINE Decodes(n) == \A k \in 1 .. n : /\ QueryLen(k) <= decode_threshold
                                           /\ RequireUniform => QueryLen(k) = QueryLen(1)
           Stop(n) == Decodes(n) /\ (n < Len(batch) => ~ Decodes(n + 1))
           B == {n \in 0 .. Len(batch) : n = Len(batch) \/ ~ Decodes(n + 1)}
<1>1. Len(batch) \in Nat BY BatchIs
<1> HIDE DEF Decodes
<1>2. PICK n \in B : \A m \in B : n <= m
  <2>1. Len(batch) \in B /\ B \subseteq Nat BY <1>1
  <2> HIDE DEF B
  <2>2. QED BY <2>1, LeastElement
<1>3. Decodes(n)
  <2>1. CASE n = 0 BY <2>1 DEF Decodes
  <2>2. CASE n # 0
    <3>1. n \in Nat /\ n - 1 \in 0 .. Len(batch) /\ ~ (n <= n - 1) /\ n - 1 # Len(batch) /\ n - 1 + 1 = n
      BY <1>1, <1>2, <2>2
    <3>2. n - 1 \notin B BY <3>1, <1>2
    <3>3. Decodes(n - 1 + 1) BY <3>1, <3>2
    <3>4. QED BY <3>1, <3>3
  <2>3. QED BY <2>1, <2>2
<1>4. n \in 0 .. Len(batch) /\ Stop(n) BY <1>1, <1>2, <1>3
<1>5. split_decodes_and_prefills = CHOOSE m \in 0 .. Len(batch) : Stop(m)
  BY DEF split_decodes_and_prefills, Decodes
<1> HIDE DEF Stop
<1>6. split_decodes_and_prefills \in 0 .. Len(batch) /\ Stop(split_decodes_and_prefills) BY <1>4, <1>5
<1>7. QED BY <1>6 DEF Stop, Decodes

\* A run of requests from s ends.
LEMMA EndIs ==
  ASSUME IndexerType, BatchOk, NEW s \in 1 .. Len(batch)
  PROVE  ChunkEnd(s) \in s .. Len(batch)
<1> DEFINE Fits(e) == /\ ChunkN(s, e) <= PrefillRows
                      /\ ChunkM(s, e) * ChunkN(s, e) <= max_logits_elems
           Stop(e) == /\ \A x \in s + 1 .. e : Fits(x)
                      /\ e > s => Fits(s)
                      /\ e < Len(batch) => ~ (Fits(s) /\ Fits(e + 1))
           B == {e \in s .. Len(batch) : e = Len(batch) \/ ~ (Fits(s) /\ Fits(e + 1))}
<1>1. Len(batch) \in Nat /\ s \in Nat BY BatchIs
<1>2. ChunkEnd(s) = CHOOSE e \in s .. Len(batch) : Stop(e) BY DEF ChunkEnd
<1> HIDE DEF Fits
<1>3. PICK e \in B : \A m \in B : e <= m
  <2>1. Len(batch) \in B /\ B \subseteq Nat BY <1>1
  <2> HIDE DEF B
  <2>2. QED BY <2>1, LeastElement
<1>4. ASSUME NEW x \in s + 1 .. e PROVE Fits(x) /\ Fits(s)
  <2>1. x \in Nat /\ x - 1 \in s .. Len(batch) /\ ~ (e <= x - 1) /\ x - 1 # Len(batch) /\ x - 1 + 1 = x
    BY <1>1, <1>3
  <2>2. x - 1 \notin B BY <2>1, <1>3
  <2>3. Fits(s) /\ Fits(x - 1 + 1) BY <2>1, <2>2
  <2>4. QED BY <2>1, <2>3
<1>5. e > s => Fits(s)
  <2>1. e > s => e \in s + 1 .. e BY <1>1, <1>3
  <2>2. QED BY <2>1, <1>4
<1>6. e \in s .. Len(batch) /\ Stop(e)
  <2>1. e < Len(batch) => ~ (Fits(s) /\ Fits(e + 1)) BY <1>1, <1>3
  <2>2. QED BY <2>1, <1>3, <1>4, <1>5
<1> HIDE DEF Stop
<1>7. QED BY <1>2, <1>6

--------------------------------------------------------------------------------
(* The slices of a chunk.                                                      *)

\* Quotients and products, as the slices need them.
LEMMA Quotient ==
  ASSUME NEW a \in Nat, NEW q \in Nat \ {0}
  PROVE  /\ a \div q \in Nat /\ (a \div q) * q <= a /\ a < ((a \div q) * q) + q
OBVIOUS

LEMMA ProductMonotone ==
  ASSUME NEW a \in Nat, NEW b \in Nat, NEW c \in Nat, a <= b
  PROVE  a * c \in Nat /\ b * c \in Nat /\ a * c <= b * c
<1>1. PICK d \in Nat : b = a + d
  <2>1. b - a \in Nat /\ b = a + (b - a) OBVIOUS
  <2>2. QED BY <2>1
<1>2. (a + d) * c = a * c + d * c OBVIOUS
<1>3. a * c \in Nat /\ d * c \in Nat OBVIOUS
<1>4. QED BY <1>1, <1>2, <1>3

\* Cut in pieces of at most q, a range is covered by as many as reach its end.
LEMMA Pieces ==
  ASSUME NEW m \in Nat, NEW q \in Nat \ {0}
  PROVE  /\ (m + q - 1) \div q \in Nat
         /\ \A i \in 1 .. (m + q - 1) \div q : /\ (i - 1) * q \in Nat /\ i * q \in Nat
                                               /\ (i - 1) * q < m /\ i * q = (i - 1) * q + q
                                               /\ (i - 1) * q > 0 <=> i > 1
         /\ \A y \in 0 .. m - 1 : /\ (y \div q) + 1 \in 1 .. (m + q - 1) \div q
                                  /\ (y \div q) * q <= y /\ y < (y \div q) * q + q
<1> DEFINE n == (m + q - 1) \div q
<1>1. m + q - 1 \in Nat OBVIOUS
<1>2. n \in Nat /\ n * q <= m + q - 1 /\ m + q - 1 < n * q + q
  BY <1>1, Quotient
<1> HIDE DEF n
<1>3. ASSUME NEW i \in 1 .. n
      PROVE  /\ (i - 1) * q \in Nat /\ i * q \in Nat
             /\ (i - 1) * q < m /\ i * q = (i - 1) * q + q
             /\ (i - 1) * q > 0 <=> i > 1
  <2>1. i \in Nat /\ i - 1 \in Nat /\ i <= n BY <1>2
  <2>2. i * q = (i - 1) * q + q BY <2>1
  <2>3. i * q <= n * q /\ i * q \in Nat /\ n * q \in Nat BY <2>1, <1>2, ProductMonotone
  <2>4. (i - 1) * q \in Nat BY <2>1
  <2>5. (i - 1) * q < m BY <2>2, <2>3, <2>4, <1>2
  <2>6. i > 1 => 1 * q <= (i - 1) * q BY <2>1, ProductMonotone
  <2>7. ~ (i > 1) => (i - 1) * q = 0
    <3>1. SUFFICES ASSUME ~ (i > 1) PROVE (i - 1) * q = 0 OBVIOUS
    <3>2. i - 1 = 0 BY <2>1, <3>1
    <3>3. QED BY <3>2
  <2>8. QED BY <2>2, <2>3, <2>4, <2>5, <2>6, <2>7
<1>4. ASSUME NEW y \in 0 .. m - 1
      PROVE  /\ (y \div q) + 1 \in 1 .. n
             /\ (y \div q) * q <= y /\ y < (y \div q) * q + q
  <2> DEFINE d == y \div q
  <2>1. y \in Nat OBVIOUS
  <2>2. d \in Nat /\ d * q <= y /\ y < d * q + q BY <2>1, Quotient
  <2> HIDE DEF d
  <2>3. ~ (n <= d)
    <3> SUFFICES ASSUME n <= d PROVE FALSE OBVIOUS
    <3>1. n * q <= d * q /\ n * q \in Nat /\ d * q \in Nat BY <1>2, <2>2, ProductMonotone
    <3>2. QED BY <3>1, <1>2, <2>2
  <2>4. QED BY <2>2, <2>3, <1>2 DEF d
<1>5. QED BY <1>2, <1>3, <1>4 DEF n

\* A piece of the logits fits the bytes its length was chosen for.
LEMMA PieceFits ==
  ASSUME NEW d \in Nat, NEW n \in Nat \ {0}, NEW b \in {2, 4}, NEW bytes \in Nat,
         d <= Larger(1, Larger(1, bytes \div b) \div n), d > 1
  PROVE  d * n * b <= bytes
<1> DEFINE M == Larger(1, bytes \div b)
<1>1. bytes \div b \in Nat /\ (bytes \div b) * b <= bytes BY Quotient
<1>2. M \in Nat BY <1>1 DEF Larger
<1>3. M \div n \in Nat /\ (M \div n) * n <= M BY <1>2, Quotient
<1> HIDE DEF M
<1>4. d <= M \div n BY <1>3 DEF Larger, M
<1>5. d * n <= M /\ d * n \in Nat
  <2>1. d * n <= (M \div n) * n /\ (M \div n) * n \in Nat /\ d * n \in Nat BY <1>3, <1>4, ProductMonotone
  <2>2. QED BY <2>1, <1>2, <1>3
<1>6. M > 1
  <2>1. 2 * n <= d * n BY ProductMonotone
  <2>2. 2 * n >= 2 OBVIOUS
  <2>3. QED BY <2>1, <2>2, <1>2, <1>5
<1>7. M = bytes \div b BY <1>1, <1>6 DEF Larger, M
<1>8. (d * n) * b <= M * b /\ M * b \in Nat /\ (d * n) * b \in Nat BY <1>2, <1>5, ProductMonotone
<1>9. M * b <= bytes BY <1>1, <1>7
<1>10. d * n * b = (d * n) * b OBVIOUS
<1>11. QED BY <1>8, <1>9, <1>10

\* Rows and keys of a run of requests.
LEMMA ChunkSizes ==
  ASSUME IndexerType, BatchOk, NEW s \in 1 .. Len(batch), NEW e \in s .. Len(batch)
  PROVE  /\ s - 1 \in 0 .. Len(batch) /\ s \in 0 .. Len(batch) /\ e \in 0 .. Len(batch)
         /\ Before(s) = StartLoc[s - 1] /\ Before(e + 1) = StartLoc[e]
         /\ StartLoc[s - 1] \in Nat /\ StartLoc[e] = StartLoc[s - 1] + ChunkM(s, e)
         /\ ChunkM(s, e) \in Nat /\ ChunkN(s, e) \in Nat
<1>1. Len(batch) \in Nat BY BatchIs
<1>2. s - 1 \in 0 .. Len(batch) /\ s \in 0 .. Len(batch) /\ e \in 0 .. Len(batch) /\ s - 1 <= e /\ e + 1 - 1 = e
  BY <1>1
<1>3. /\ StartLoc[s - 1] \in Nat /\ StartLoc[e] \in Nat /\ StartLoc[s - 1] <= StartLoc[e]
      /\ UpperRows[s - 1] \in Nat /\ UpperRows[e] \in Nat /\ UpperRows[s - 1] <= UpperRows[e]
  BY <1>2, StartsAre
<1>4. ChunkM(s, e) = StartLoc[e] - StartLoc[s - 1] /\ ChunkN(s, e) = UpperRows[e] - UpperRows[s - 1]
  BY DEF ChunkM, ChunkN
<1>5. Before(s) = StartLoc[s - 1] /\ Before(e + 1) = StartLoc[e] BY <1>2 DEF Before
<1>6. QED BY <1>2, <1>3, <1>4, <1>5

\* The chunks of one run: consecutive slices that cover its tokens, the first of which gathers.
LEMMA SliceChunksAre ==
  ASSUME IndexerType, BatchOk, NEW s \in 1 .. Len(batch), NEW e \in s .. Len(batch),
         ChunkN(s, e) # 0
  PROVE  /\ ChunksOk(SliceChunks(s, e))
         /\ \A i \in DOMAIN SliceChunks(s, e) :
              /\ SliceChunks(s, e)[i].reqs = << s, e >>
              /\ SliceChunks(s, e)[i].skip_kv_gather <=> i > 1
         /\ \A t \in StartLoc[s - 1] .. StartLoc[e] - 1 : Covered(SliceChunks(s, e), t)
<1> DEFINE m == ChunkM(s, e)
           n == ChunkN(s, e)
           q == Larger(1, max_logits_elems \div n)
           count == (m + q - 1) \div q
           a == StartLoc[s - 1]
           C(i) == [start |-> a + ((i - 1) * q), end |-> a + Smaller(i * q, m),
                    rows |-> n, reqs |-> << s, e >>, skip_kv_gather |-> (i - 1) * q > 0]
<1>1. /\ m \in Nat /\ n \in Nat \ {0} /\ a \in Nat /\ StartLoc[e] = a + m
      /\ Before(s) = a /\ Before(e + 1) = StartLoc[e]
  BY ChunkSizes
<1>2. max_logits_elems = Larger(1, LogitsBytes \div bytes_per_elem) /\ bytes_per_elem \in {2, 4}
      /\ LogitsBytes \in Nat
  BY IndexerAssumption DEF max_logits_elems, bytes_per_elem
<1>3. max_logits_elems \in Nat
  <2>1. LogitsBytes \div bytes_per_elem \in Nat BY <1>2, Quotient
  <2>2. QED BY <2>1, <1>2 DEF Larger
<1>4. q \in Nat \ {0}
  <2>1. max_logits_elems \div n \in Nat BY <1>1, <1>3, Quotient
  <2>2. QED BY <2>1 DEF Larger
<1>5. SliceChunks(s, e) = [i \in 1 .. count |-> C(i)]
  <2>1. n > 0 BY <1>1
  <2>2. QuerySlices(s, e) = [i \in 1 .. count |-> [start |-> (i - 1) * q, stop |-> Smaller(i * q, m)]]
    BY <2>1 DEF QuerySlices
  <2> HIDE DEF count, q, m
  <2>3. \A i \in 1 .. count :
           build_prefill_chunk_metadata(s, e, [start |-> (i - 1) * q, stop |-> Smaller(i * q, m)]) = C(i)
    BY <1>1 DEF build_prefill_chunk_metadata
  <2>4. \A i \in 1 .. count : build_prefill_chunk_metadata(s, e, QuerySlices(s, e)[i]) = C(i)
    BY <2>2, <2>3
  <2>5. DOMAIN QuerySlices(s, e) = 1 .. count BY <2>2
  <2> HIDE DEF C
  <2>6. QED BY <2>4, <2>5, <2>1 DEF SliceChunks
<1>6. /\ count \in Nat
      /\ \A i \in 1 .. count : /\ (i - 1) * q \in Nat /\ i * q \in Nat
                               /\ (i - 1) * q < m /\ i * q = (i - 1) * q + q
                               /\ (i - 1) * q > 0 <=> i > 1
      /\ \A y \in 0 .. m - 1 : /\ (y \div q) + 1 \in 1 .. count
                               /\ (y \div q) * q <= y /\ y < (y \div q) * q + q
  <2> HIDE DEF q
  <2>1. QED BY <1>1, <1>4, Pieces
<1> HIDE DEF count
<1>7. ASSUME NEW i \in 1 .. count
      PROVE  /\ C(i) \in Chunk /\ ValidChunk(C(i))
             /\ C(i).reqs = << s, e >> /\ (C(i).skip_kv_gather <=> i > 1)
  <2> DEFINE x == (i - 1) * q
             d == Smaller(i * q, m) - x
  <2>1. x \in Nat /\ x < m /\ i * q = x + q /\ i * q \in Nat /\ (x > 0 <=> i > 1) BY <1>6
  <2> HIDE DEF x
  <2>2. d \in Nat /\ d <= q /\ Smaller(i * q, m) = x + d /\ x + d <= m
    <3> HIDE DEF q
    <3>1. QED BY <1>1, <1>4, <2>1, SMTT(60) DEF Smaller
  <2> HIDE DEF d
  <2>3. C(i) = [start |-> a + x, end |-> a + (x + d), rows |-> n, reqs |-> << s, e >>,
                skip_kv_gather |-> x > 0]
    BY <2>2 DEF x
  <2> DEFINE c == C(i)
  <2>4. /\ c.start = a + x /\ c.end = a + (x + d) /\ c.rows = n /\ c.reqs = << s, e >>
        /\ c.skip_kv_gather = (x > 0)
    BY <2>3
  <2>5. c \in Chunk
    <3>0. s \in Nat /\ e \in Nat BY BatchIs
    <3> HIDE DEF n, q, m, a, C
    <3>1. s \in Nat /\ e \in Nat /\ a + x \in Nat /\ a + (x + d) \in Nat BY <3>0, <1>1, <2>1, <2>2
    <3>2. QED BY <3>1, <1>1, <2>3 DEF Chunk
  <2> HIDE DEF c, n, q, m, a
  <2>6. c.end - c.start = d BY <1>1, <2>1, <2>2, <2>4
  <2>7. FitsReserved(c)
    <3> SUFFICES ASSUME c.end - c.start > 1
                 PROVE  (c.end - c.start) * c.rows * (IF UseFp4Cache THEN 2 ELSE 4) <= LogitsBytes
      BY DEF FitsReserved
    <3>1. (IF UseFp4Cache THEN 2 ELSE 4) = bytes_per_elem
      BY DEF bytes_per_elem, UseFp4Cache, Patched, _INDEXER_ALIAS_CONSUMERS
    <3>2. d * n * bytes_per_elem <= LogitsBytes
      <4>1. d > 1 /\ d <= Larger(1, Larger(1, LogitsBytes \div bytes_per_elem) \div n)
        BY <2>2, <2>6, <1>2 DEF q
      <4>2. QED BY <4>1, <1>1, <1>2, <2>2, PieceFits
    <3>3. QED BY <3>1, <3>2, <2>4, <2>6
  <2>8. ValidChunk(c)
    <3>1. s \in DOMAIN batch /\ e \in DOMAIN batch /\ s <= e BY BatchIs
    <3>2. Before(s) <= c.start /\ c.end <= Before(e + 1) BY <1>1, <2>1, <2>2, <2>4, SMTT(60)
    <3>3. QED BY <3>1, <3>2, <2>4, <2>7 DEF ValidChunk
  <2>9. QED BY <2>1, <2>4, <2>5, <2>8 DEF c
<1>8. ASSUME NEW t \in a .. StartLoc[e] - 1 PROVE \E i \in 1 .. count : C(i).start <= t /\ t < C(i).end
  <2> DEFINE y == t - a
  <2>1. y \in 0 .. m - 1 /\ t = a + y BY <1>1
  <2> HIDE DEF y
  <2> DEFINE d == y \div q
  <2>2. d + 1 \in 1 .. count /\ d * q <= y /\ y < d * q + q BY <1>6, <2>1
  <2>3. d \in Nat BY <2>1, <1>4, Quotient
  <2> HIDE DEF d
  <2>4. ((d + 1) - 1) * q = d * q /\ (d + 1) * q = d * q + q /\ d * q \in Nat
    <3> HIDE DEF q
    <3>1. (d + 1) - 1 = d BY <2>3
    <3>2. QED BY <1>4, <2>3, <3>1
  <2>5. C(d + 1).start = a + (d * q) /\ C(d + 1).end = a + Smaller(d * q + q, m)
    <3>1. C(d + 1) = [start |-> a + (((d + 1) - 1) * q), end |-> a + Smaller((d + 1) * q, m),
                      rows |-> n, reqs |-> << s, e >>, skip_kv_gather |-> ((d + 1) - 1) * q > 0]
      BY Zenon
    <3> HIDE DEF C, n, q, a, m
    <3>2. C(d + 1) = [start |-> a + (d * q), end |-> a + Smaller(d * q + q, m),
                      rows |-> n, reqs |-> << s, e >>, skip_kv_gather |-> d * q > 0]
      BY <2>4, <3>1, Zenon
    <3>3. QED BY <3>2
  <2> HIDE DEF q, a, m
  <2>6. a + (d * q) <= t /\ t < a + Smaller(d * q + q, m)
    BY <1>1, <1>4, <2>1, <2>2, <2>4, SMTT(60) DEF Smaller
  <2>7. QED BY <2>2, <2>5, <2>6
<1> HIDE DEF C
<1>9. SliceChunks(s, e) \in Seq(Chunk) /\ DOMAIN SliceChunks(s, e) = 1 .. count BY <1>5, <1>6, <1>7
<1>10. \A i \in 1 .. count : SliceChunks(s, e)[i] = C(i) BY <1>5
<1>11. \A i \in 1 .. count : i > 1 => i - 1 \in 1 .. count BY <1>6
<1>12. ChunksOk(SliceChunks(s, e)) BY <1>7, <1>9, <1>10, <1>11 DEF ChunksOk
<1>13. \A t \in a .. StartLoc[e] - 1 : Covered(SliceChunks(s, e), t) BY <1>8, <1>9, <1>10 DEF Covered
<1>14. QED BY <1>7, <1>9, <1>10, <1>12, <1>13 DEF a

--------------------------------------------------------------------------------
(* All the chunks of a step.                                                   *)

\* A tail of the step's chunks that begins with one that gathers.
Whole(q) == ChunksOk(q) /\ (q # << >> => ~ q[1].skip_kv_gather)

\* The chunks of one run followed by those of the others.
LEMMA Joined ==
  ASSUME NEW q, NEW u, Whole(q), Whole(u)
  PROVE  /\ Whole(q \o u)
         /\ \A t : Covered(q, t) \/ Covered(u, t) => Covered(q \o u, t)
<1>1. q \in Seq(Chunk) /\ u \in Seq(Chunk) BY DEF Whole, ChunksOk
<1> DEFINE j == q \o u
<1>2. /\ j \in Seq(Chunk) /\ Len(j) = Len(q) + Len(u)
      /\ \A i \in 1 .. Len(q) + Len(u) : j[i] = IF i <= Len(q) THEN q[i] ELSE u[i - Len(q)]
  BY <1>1, ConcatProperties
<1>3. /\ Len(q) \in Nat /\ DOMAIN q = 1 .. Len(q) /\ Len(u) \in Nat /\ DOMAIN u = 1 .. Len(u)
      /\ DOMAIN j = 1 .. Len(q) + Len(u)
  BY <1>1, <1>2, LenProperties
<1> HIDE DEF j
<1>4. \A i \in DOMAIN q : j[i] = q[i] /\ i \in DOMAIN j BY <1>2, <1>3
<1>5. \A i \in DOMAIN u : j[Len(q) + i] = u[i] /\ Len(q) + i \in DOMAIN j
  <2> TAKE i \in DOMAIN u
  <2>1. Len(q) + i \in 1 .. Len(q) + Len(u) /\ ~ (Len(q) + i <= Len(q)) /\ (Len(q) + i) - Len(q) = i
    BY <1>3
  <2>2. QED BY <2>1, <1>2, <1>3
<1>6. ASSUME NEW i \in DOMAIN j, i \notin DOMAIN q PROVE i - Len(q) \in DOMAIN u /\ j[i] = u[i - Len(q)]
  BY <1>2, <1>3, <1>6
<1>7. \A i \in DOMAIN j : ValidChunk(j[i])
  <2> TAKE i \in DOMAIN j
  <2>1. CASE i \in DOMAIN q BY <2>1, <1>4 DEF Whole, ChunksOk
  <2>2. CASE i \notin DOMAIN q BY <2>2, <1>6 DEF Whole, ChunksOk
  <2>3. QED BY <2>1, <2>2
<1>8. ASSUME NEW i \in DOMAIN j, i > 1, j[i].skip_kv_gather PROVE j[i - 1].reqs = j[i].reqs
  <2>1. CASE i \in DOMAIN q
    <3>1. i - 1 \in DOMAIN q BY <2>1, <1>3, <1>8
    <3>2. QED BY <3>1, <2>1, <1>4, <1>8 DEF Whole, ChunksOk
  <2>2. CASE i \notin DOMAIN q
    <3> DEFINE x == i - Len(q)
    <3>1. x \in DOMAIN u /\ j[i] = u[x] BY <2>2, <1>6
    <3>2. u # << >> BY <3>1
    <3>3. x # 1 BY <3>1, <3>2, <1>8 DEF Whole
    <3>4. x > 1 /\ x - 1 \in DOMAIN u /\ Len(q) + (x - 1) = i - 1 BY <3>1, <3>3, <1>3
    <3>5. j[i - 1] = u[x - 1] BY <3>4, <1>5
    <3>6. u[x - 1].reqs = u[x].reqs BY <3>1, <3>4, <1>8 DEF Whole, ChunksOk
    <3>7. QED BY <3>1, <3>5, <3>6
  <2>3. QED BY <2>1, <2>2
<1>9. j # << >> => ~ j[1].skip_kv_gather
  <2>1. CASE q = << >>
    <3>1. j = u BY <2>1, <1>1, ConcatEmptySeq DEF j
    <3>2. QED BY <3>1 DEF Whole
  <2>2. CASE q # << >>
    <3>1. 1 \in DOMAIN q BY <2>2, <1>1, <1>3, EmptySeq
    <3>2. QED BY <3>1, <2>2, <1>4 DEF Whole
  <2>3. QED BY <2>1, <2>2
<1>10. Whole(j) BY <1>2, <1>7, <1>8, <1>9 DEF Whole, ChunksOk
<1>11. ASSUME NEW t, Covered(q, t) \/ Covered(u, t) PROVE Covered(j, t)
  <2>1. CASE Covered(q, t) BY <2>1, <1>4 DEF Covered
  <2>2. CASE Covered(u, t)
    <3>1. PICK i \in DOMAIN u : u[i].start <= t /\ t < u[i].end BY <2>2 DEF Covered
    <3>2. QED BY <3>1, <1>5 DEF Covered
  <2>3. QED BY <1>11, <2>1, <2>2
<1>12. QED BY <1>10, <1>11 DEF j

\* The recursion of the split has a solution.
LEMMA SplitRecursion ==
  ASSUME IndexerType, BatchOk, NEW s \in 1 .. Len(batch) + 1
  PROVE  _split_indexer_prefill_chunks[s] =
           IF s > Len(batch) THEN << >>
           ELSE SliceChunks(s, ChunkEnd(s)) \o _split_indexer_prefill_chunks[ChunkEnd(s) + 1]
<1> DEFINE n == Len(batch)
           Rest(u, i) == IF i > n THEN << >> ELSE SliceChunks(i, ChunkEnd(i)) \o u[ChunkEnd(i) + 1]
           Good(u, k) == \A i \in (n + 1) - k .. n + 1 : u[i] = Rest(u, i)
           Bad == {k \in 0 .. n : ~ \E u : Good(u, k)}
<1>0. n \in Nat /\ \A i \in 1 .. n : ChunkEnd(i) \in i .. n BY BatchIs, EndIs
<1> HIDE DEF n
<1>1. Bad = {}
  <2> SUFFICES ASSUME Bad # {} PROVE FALSE OBVIOUS
  <2>1. Bad \subseteq Nat BY <1>0
  <2>2. PICK k \in Bad : \A m \in Bad : k <= m
    <3> HIDE DEF Bad
    <3> QED BY LeastElement, <2>1
  <2>3. k # 0
    <3>1. Good([i \in {n + 1} |-> << >>], 0)
      <4>1. \A i \in (n + 1) - 0 .. n + 1 : i = n + 1 /\ i > n BY <1>0
      <4>2. QED BY <4>1
    <3>2. QED BY <3>1
  <2>4. k \in 1 .. n /\ k \in Nat /\ k - 1 \in 0 .. n /\ ~ (k <= k - 1) BY <1>0, <2>3
  <2>5. PICK u : Good(u, k - 1)
    <3>1. k - 1 \notin Bad
      <4> HIDE DEF Bad
      <4> QED BY <2>2, <2>4
    <3>2. QED BY <3>1, <2>4
  <2> DEFINE a == (n + 1) - k
             v == [i \in a .. n + 1 |-> IF i = a THEN Rest(u, a) ELSE u[i]]
  <2>6. a \in 1 .. n /\ (n + 1) - (k - 1) = a + 1 BY <1>0, <2>4
  <2> HIDE DEF a
  <2>7. ASSUME NEW i \in a .. n + 1 PROVE v[i] = Rest(v, i)
    <3>1. i \in 1 .. n + 1 /\ (i # a => i \in a + 1 .. n + 1) BY <2>6, <1>0
    <3>2. Rest(v, i) = Rest(u, i)
      <4>1. CASE i > n BY <4>1
      <4>2. CASE ~ (i > n)
        <5>1. i \in 1 .. n BY <3>1, <4>2, <1>0
        <5>2. ChunkEnd(i) \in i .. n BY <5>1, <1>0
        <5>3. ChunkEnd(i) + 1 \in a .. n + 1 /\ ChunkEnd(i) + 1 # a BY <5>1, <5>2, <2>6, <1>0
        <5>4. v[ChunkEnd(i) + 1] = u[ChunkEnd(i) + 1] BY <5>3
        <5> HIDE DEF v
        <5>5. QED BY <5>4
      <4>3. QED BY <4>1, <4>2
    <3>3. v[i] = IF i = a THEN Rest(u, a) ELSE u[i] OBVIOUS
    <3> HIDE DEF v, Rest
    <3>4. i # a => u[i] = Rest(u, i) BY <3>1, <2>5, <2>6
    <3>5. QED BY <3>2, <3>3, <3>4
  <2>8. Good(v, k)
    <3> HIDE DEF v, Rest
    <3> QED BY <2>7 DEF a
  <2>9. QED BY <2>8
<1>2. PICK u : Good(u, n)
  <2>1. n \in 0 .. n BY <1>0
  <2>2. QED BY <1>1, <2>1
<1> DEFINE w == [i \in 1 .. n + 1 |-> u[i]]
<1>3. w = [i \in 1 .. n + 1 |-> Rest(w, i)]
  <2>1. ASSUME NEW i \in 1 .. n + 1 PROVE w[i] = Rest(w, i)
    <3>1. (n + 1) - n = 1 BY <1>0
    <3>2. u[i] = Rest(u, i)
      <4> HIDE DEF Rest
      <4> QED BY <1>2, <3>1
    <3>3. Rest(w, i) = Rest(u, i)
      <4>1. CASE i > n BY <4>1
      <4>2. CASE ~ (i > n)
        <5>1. i \in 1 .. n BY <4>2, <1>0
        <5>2. ChunkEnd(i) + 1 \in 1 .. n + 1 BY <5>1, <1>0
        <5>3. w[ChunkEnd(i) + 1] = u[ChunkEnd(i) + 1] BY <5>2
        <5> HIDE DEF w
        <5>4. QED BY <5>3
      <4>3. QED BY <4>1, <4>2
    <3>4. w[i] = u[i] OBVIOUS
    <3>5. QED BY <3>2, <3>3, <3>4
  <2> HIDE DEF Rest
  <2>2. w = [i \in 1 .. n + 1 |-> w[i]] OBVIOUS
  <2> HIDE DEF w
  <2>3. QED BY <2>1, <2>2
<1> DEFINE f == _split_indexer_prefill_chunks
<1>4. f = [i \in 1 .. n + 1 |-> Rest(f, i)]
  <2> HIDE DEF w
  <2>1. \E x : x = [i \in 1 .. n + 1 |-> Rest(x, i)] BY <1>3
  <2>2. QED BY <2>1 DEF _split_indexer_prefill_chunks, n
<1> HIDE DEF f, Rest
<1>5. f[s] = Rest(f, s) BY <1>4 DEF n
<1>6. QED BY <1>5 DEF f, Rest, n

\* The chunks from any request on cover its tokens and the later ones, except those of runs that
\* have no key at all.
LEMMA ChunksAre ==
  ASSUME IndexerType, BatchOk, NEW s \in 1 .. Len(batch) + 1
  PROVE  /\ Whole(_split_indexer_prefill_chunks[s])
         /\ \A t \in StartLoc[s - 1] .. NumTokens - 1 :
              Covered(_split_indexer_prefill_chunks[s], t) \/ VisibleKeys(t) = 0
<1> DEFINE n == Len(batch)
           f == _split_indexer_prefill_chunks
           Right(i) == /\ Whole(f[i])
                       /\ \A t \in StartLoc[i - 1] .. NumTokens - 1 : Covered(f[i], t) \/ VisibleKeys(t) = 0
           Bad == {k \in 0 .. n : ~ Right((n + 1) - k)}
<1>0. n \in Nat BY BatchIs
<1>1. Bad = {}
  <2> SUFFICES ASSUME Bad # {} PROVE FALSE OBVIOUS
  <2>1. Bad \subseteq Nat BY <1>0
  <2>2. PICK k \in Bad : \A m \in Bad : k <= m
    <3> HIDE DEF Bad
    <3> QED BY LeastElement, <2>1
  <2> DEFINE a == (n + 1) - k
  <2>3. ~ Right(a) /\ a \in 1 .. n + 1 BY <2>2, <1>0
  <2>4. ASSUME NEW i \in a + 1 .. n + 1 PROVE Right(i)
    <3> DEFINE m == (n + 1) - i
    <3>1. m \in 0 .. n /\ ~ (k <= m) /\ (n + 1) - m = i BY <1>0, <2>2, <2>3
    <3> HIDE DEF m, Right
    <3>2. m \notin Bad
      <4> HIDE DEF Bad
      <4> QED BY <2>2, <3>1
    <3>3. QED BY <3>1, <3>2
  <2>5. f[a] = IF a > n THEN << >> ELSE SliceChunks(a, ChunkEnd(a)) \o f[ChunkEnd(a) + 1]
    BY <2>3, SplitRecursion
  <2> HIDE DEF a, f
  <2>6. CASE a > n
    <3>1. f[a] = << >> BY <2>5, <2>6
    <3>2. Whole(f[a]) BY <3>1 DEF Whole, ChunksOk
    <3>3. StartLoc[a - 1] = NumTokens /\ NumTokens \in Nat
      <4>1. a - 1 = n BY <2>3, <2>6, <1>0
      <4>2. QED BY <4>1, StartsAre DEF NumTokens
    <3>4. QED BY <2>3, <3>2, <3>3
  <2>7. CASE ~ (a > n)
    <3> DEFINE e == ChunkEnd(a)
               q == SliceChunks(a, e)
    <3>1. a \in 1 .. n BY <2>3, <2>7, <1>0
    <3>2. e \in a .. n BY <3>1, EndIs
    <3> HIDE DEF e
    <3>3. e + 1 \in a + 1 .. n + 1 /\ (e + 1) - 1 = e /\ e \in 1 .. n BY <3>1, <3>2, <1>0
    <3>4. Right(e + 1) BY <2>4, <3>3
    <3>5. Whole(q) /\ \A t \in StartLoc[a - 1] .. StartLoc[e] - 1 : Covered(q, t) \/ VisibleKeys(t) = 0
      <4>1. CASE ChunkN(a, e) # 0
        <5>1. /\ ChunksOk(q)
              /\ \A i \in DOMAIN q : q[i].skip_kv_gather <=> i > 1
              /\ \A t \in StartLoc[a - 1] .. StartLoc[e] - 1 : Covered(q, t)
          BY <3>1, <3>2, <4>1, SliceChunksAre
        <5>2. q \in Seq(Chunk) BY <5>1 DEF ChunksOk
        <5> HIDE DEF q
        <5>3. q # << >> => 1 \in DOMAIN q BY <5>2, EmptySeq, LenProperties
        <5>4. QED BY <5>1, <5>3 DEF Whole
      <4>2. CASE ChunkN(a, e) = 0
        <5>1. q = << >> BY <4>2 DEF SliceChunks
        <5>2. Whole(q) BY <5>1 DEF Whole, ChunksOk
        <5>3. ASSUME NEW t \in StartLoc[a - 1] .. StartLoc[e] - 1 PROVE VisibleKeys(t) = 0
          <6> DEFINE o == Owner(t)
          <6>1. /\ a - 1 \in 0 .. n /\ e \in 0 .. n /\ n \in 0 .. n /\ e <= n BY <3>1, <3>2, <1>0
          <6>2. /\ StartLoc[a - 1] \in Nat /\ StartLoc[e] \in Nat /\ StartLoc[e] <= StartLoc[n]
            BY <6>1, StartsAre
          <6>3. t \in 0 .. NumTokens - 1 /\ t \in Nat
            <7>1. NumTokens \in Nat /\ NumTokens = StartLoc[n] BY StartsAre DEF NumTokens
            <7>2. QED BY <7>1, <6>2
          <6>4. o \in 1 .. n /\ StartLoc[o - 1] <= t /\ t < StartLoc[o] BY <6>3, OwnerFound
          <6> HIDE DEF o
          <6>5. o \in 0 .. n /\ o - 1 \in 0 .. n BY <6>4, <1>0
          <6>6. StartLoc[o] \in Nat /\ StartLoc[o - 1] \in Nat BY <6>5, StartsAre
          <6>7. a <= o
            <7> SUFFICES ASSUME o <= a - 1 PROVE FALSE BY <3>1, <6>4, <1>0
            <7>1. StartLoc[o] <= StartLoc[a - 1] BY <6>1, <6>5, StartsAre
            <7>2. QED BY <7>1, <6>2, <6>3, <6>4, <6>6
          <6>8. o <= e
            <7> SUFFICES ASSUME e <= o - 1 PROVE FALSE BY <3>2, <3>3, <6>4, <1>0
            <7>1. StartLoc[e] <= StartLoc[o - 1] BY <6>1, <6>5, StartsAre
            <7>2. QED BY <7>1, <6>2, <6>3, <6>4, <6>6
          <6>9. /\ UpperRows[a - 1] <= UpperRows[o - 1] /\ UpperRows[o] <= UpperRows[e]
            <7>1. a - 1 <= o - 1 BY <6>7, <6>4, <3>1, <1>0
            <7>2. QED BY <7>1, <6>1, <6>5, <6>8, StartsAre
          <6>10. /\ UpperRows[a - 1] \in Nat /\ UpperRows[o - 1] \in Nat /\ UpperRows[e] \in Nat
                 /\ UpperRows[o] = UpperRows[o - 1] + (UpperBound(o) \div Ratio)
            BY <6>1, <6>4, <6>5, StartsAre
          <6>11. UpperRows[e] - UpperRows[a - 1] = 0 BY <4>2 DEF ChunkN
          <6>12. /\ SeqLen(o) \div Ratio \in Nat /\ UpperBound(o) \div Ratio \in Nat
                 /\ SeqLen(o) \div Ratio <= UpperBound(o) \div Ratio
            BY <6>4, BatchIs
          <6>13. UpperBound(o) \div Ratio = 0 BY <6>9, <6>10, <6>11, <6>12, SMTT(60)
          <6>14. VisibleKeys(t) \in Nat /\ VisibleKeys(t) <= SeqLen(o) \div Ratio
            BY <6>3, PositionIs DEF o
          <6>15. QED BY <6>12, <6>13, <6>14
        <5>4. QED BY <5>2, <5>3
      <4>3. QED BY <4>1, <4>2
    <3>6. f[a] = q \o f[e + 1] BY <2>5, <2>7 DEF e
    <3> HIDE DEF q
    <3>7. Whole(f[e + 1]) BY <3>4
    <3>8. Whole(f[a]) /\ \A t : Covered(q, t) \/ Covered(f[e + 1], t) => Covered(f[a], t)
      BY <3>5, <3>6, <3>7, Joined
    <3>9. ASSUME NEW t \in StartLoc[a - 1] .. NumTokens - 1
          PROVE  Covered(f[a], t) \/ VisibleKeys(t) = 0
      <4>1. a - 1 \in 0 .. n /\ e \in 0 .. n BY <3>1, <3>2, <1>0
      <4>2. StartLoc[a - 1] \in Nat /\ StartLoc[e] \in Nat /\ NumTokens \in Nat BY <4>1, StartsAre
      <4>3. t \in StartLoc[a - 1] .. StartLoc[e] - 1 \/ t \in StartLoc[(e + 1) - 1] .. NumTokens - 1
        BY <4>2, <3>3
      <4>4. QED BY <4>3, <3>4, <3>5, <3>8
    <3>10. QED BY <2>3, <3>8, <3>9
  <2>8. QED BY <2>6, <2>7
<1>2. (n + 1) - s \in 0 .. n /\ (n + 1) - ((n + 1) - s) = s BY <1>0
<1> HIDE DEF Right
<1>3. Right((n + 1) - ((n + 1) - s)) BY <1>1, <1>2
<1>4. Right(s) BY <1>2, <1>3
<1>5. QED BY <1>4 DEF Right

--------------------------------------------------------------------------------
(* The decode metadata.                                                        *)

\* The requests the native kernel decodes have as many queries each.
LEMMA UniformIs ==
  ASSUME IndexerType, BatchOk, split_decodes_and_prefills > 0, ~ ixEnv.use_flattening
  PROVE  LET n == split_decodes_and_prefills
             L == QueryLen(1)
         IN /\ L \in Nat \ {0} /\ L <= 1 + ixEnv.drafts /\ MaxDecodeLen = L
            /\ DOMAIN DecodeLens = 1 .. n /\ \A k \in 1 .. n : QueryLen(k) = L /\ DecodeLens[k] = L
            /\ StartLoc[n] = n * L
            /\ \A t \in 0 .. n * L - 1 :
                 /\ (t \div L) + 1 \in 1 .. n /\ Owner(t) = (t \div L) + 1 /\ t \in 0 .. NumTokens - 1
                 /\ Position(t) + 1 = SeqLen(Owner(t)) - L + 1 + (t % L)
<1> DEFINE n == split_decodes_and_prefills
           L == QueryLen(1)
<1>1. n \in 1 .. Len(batch) /\ Len(batch) \in Nat /\ n \in Nat \ {0} BY SplitIs, BatchIs
<1>2. \A k \in 1 .. n : QueryLen(k) = L BY SplitIs DEF RequireUniform
<1>3. L \in Nat \ {0} /\ L <= 1 + ixEnv.drafts
  <2>1. 1 \in 1 .. n /\ 1 \in 1 .. Len(batch) BY <1>1
  <2>2. QED BY <2>1, SplitIs, BatchIs DEF decode_threshold
<1> HIDE DEF L
<1>4. DOMAIN DecodeLens = 1 .. n /\ \A k \in 1 .. n : DecodeLens[k] = L BY <1>2 DEF DecodeLens
<1>5. MaxDecodeLen = L
  <2>1. { QueryLen(k) : k \in DOMAIN DecodeLens } = {L}
    <3>1. 1 \in 1 .. n BY <1>1
    <3> HIDE DEF n
    <3>2. QED BY <3>1, <1>2, <1>4
  <2>2. MaxDecodeLen = CHOOSE x \in {L} : \A y \in {L} : x >= y BY <2>1 DEF MaxDecodeLen, Max
  <2>3. L >= L BY <1>3
  <2>4. QED BY <2>2, <2>3
<1> HIDE DEF n
<1>6. \A j \in 0 .. n : StartLoc[j] = j * L
  <2>1. PICK lens \in Seq(Nat) : /\ Len(lens) = Len(batch) /\ StartLoc = Cumsum(lens)
                                 /\ \A k \in 1 .. Len(batch) : lens[k] = QueryLen(k)
    BY SumsAre
  <2>2. \A k \in 1 .. n : lens[k] = L BY <2>1, <1>1, <1>2
  <2>3. n \in 0 .. Len(lens) /\ L \in Nat BY <2>1, <1>1, <1>3
  <2>4. QED BY <2>1, <2>2, <2>3, CumsumUniform
<1>7. ASSUME NEW t \in 0 .. n * L - 1
      PROVE  /\ (t \div L) + 1 \in 1 .. n /\ Owner(t) = (t \div L) + 1 /\ t \in 0 .. NumTokens - 1
             /\ Position(t) + 1 = SeqLen(Owner(t)) - L + 1 + (t % L)
  <2> DEFINE d == t \div L
  <2>0. n * L \in Nat BY <1>1, <1>3
  <2>1. t \in Nat /\ t < n * L BY <2>0
  <2>2. d \in Nat /\ d * L <= t /\ t < (d * L) + L /\ t = (d * L) + (t % L) /\ t % L \in Nat
    <3>1. t = (d * L) + (t % L) /\ t % L \in Nat BY <2>1, <1>3
    <3>2. QED BY <3>1, <2>1, <1>3, Quotient
  <2> HIDE DEF d
  <2>3. d < n
    <3> SUFFICES ASSUME n <= d PROVE FALSE BY <1>1, <2>2
    <3>1. n * L <= d * L /\ d * L \in Nat BY <1>1, <1>3, <2>2, ProductMonotone
    <3>2. QED BY <3>1, <2>0, <2>1, <2>2
  <2>4. d + 1 \in 1 .. n /\ d \in 0 .. n /\ d + 1 \in 0 .. n /\ d + 1 \in 1 .. Len(batch) /\ (d + 1) - 1 = d
    BY <2>2, <2>3, <1>1
  <2>5. StartLoc[(d + 1) - 1] = d * L /\ StartLoc[d + 1] = (d * L) + L
    <3>1. (d + 1) * L = (d * L) + L BY <2>2, <1>3
    <3>2. QED BY <3>1, <2>4, <1>6
  <2>6. Owner(t) = d + 1 /\ t \in 0 .. NumTokens - 1 BY <2>1, <2>2, <2>4, <2>5, OwnerIs
  <2>7. Position(t) = progress[batch[d + 1].req] + (t - (d * L)) BY <2>5, <2>6, PositionIs
  <2>8. /\ SeqLen(d + 1) = progress[batch[d + 1].req] + QueryLen(d + 1)
        /\ progress[batch[d + 1].req] \in Nat
    BY <2>4, BatchIs
  <2>9. QueryLen(d + 1) = L BY <2>4, <1>2
  <2>10. Position(t) + 1 = SeqLen(d + 1) - L + 1 + (t % L)
    <3> DEFINE p == progress[batch[d + 1].req]
    <3>1. p \in Nat /\ Position(t) = p + (t - (d * L)) /\ SeqLen(d + 1) = p + L BY <2>7, <2>8, <2>9
    <3>2. d * L \in Nat BY <2>2, <1>3
    <3>3. ASSUME NEW a \in Nat, NEW x \in Nat, NEW r \in Nat, t = x + r
          PROVE  a + (t - x) + 1 = (a + L) - L + 1 + r
      BY <3>3, <1>3, <2>1
    <3> HIDE DEF p
    <3>4. Position(t) + 1 = (p + (t - (d * L))) + 1 /\ SeqLen(d + 1) - L + 1 + (t % L) = (p + L) - L + 1 + (t % L)
      BY <3>1
    <3>5. p + (t - (d * L)) + 1 = (p + L) - L + 1 + (t % L) BY <3>1, <3>2, <3>3, <2>2
    <3>6. QED BY <3>4, <3>5
  <2>11. QED BY <2>4, <2>6, <2>10 DEF d
<1>8. StartLoc[n] = n * L
  <2>1. n \in 0 .. n BY <1>1
  <2>2. QED BY <2>1, <1>6
<1>9. QED BY <1>2, <1>3, <1>4, <1>5, <1>7, <1>8 DEF n, L

\* What the metadata are once they say where the lengths lie.
LEMMA MetadataIs ==
  DecodeMetadata.lens = CompressedLens(_prepare_decode_tensors)
    /\ LET d == _prepare_decode_tensors.decode
           m == DecodeMetadata.metadata
           lens == DecodeMetadata.lens
       IN \A v, c, tables, l, p, s :
            d = [view |-> v, cols |-> c, tables |-> tables, lens |-> l, padding |-> p, schedule |-> s]
            => /\ m.view = lens.view /\ m.tables = tables /\ m.lens = l /\ m.padding = p
               /\ ixEnv.deep_gemm => m.schedule = [lens |-> ViewOf(m, lens), cols |-> c,
                                                  metadata_extra |-> indexer_n_head > 0]
<1>1. DecodeMetadata.lens = CompressedLens(_prepare_decode_tensors) BY DEF DecodeMetadata
<1> DEFINE d == _prepare_decode_tensors.decode
           m == DecodeMetadata.metadata
           lens == CompressedLens(_prepare_decode_tensors)
           view == CASE lens.view = "common" -> lens.common
                     [] lens.view = "decode" -> lens.decode
                     [] lens.view = "expanded" -> lens.expanded
<1>2. m = [d EXCEPT !.view = lens.view,
                    !.schedule = IF ixEnv.deep_gemm
                                 THEN get_paged_mqa_logits_metadata(view, d.cols) ELSE @]
  <2> DEFINE x == [d EXCEPT !.view = lens.view,
                            !.schedule = IF ixEnv.deep_gemm
                                         THEN get_paged_mqa_logits_metadata(view, d.cols) ELSE @]
  <2>1. DecodeMetadata = [lens |-> lens, metadata |-> x] BY DEF DecodeMetadata
  <2> HIDE DEF x
  <2>2. m = x BY <2>1
  <2>3. QED BY <2>2 DEF x
<1>3. ASSUME NEW v, NEW c, NEW tables, NEW l, NEW p, NEW s,
             d = [view |-> v, cols |-> c, tables |-> tables, lens |-> l, padding |-> p, schedule |-> s]
      PROVE  /\ m.view = lens.view /\ m.tables = tables /\ m.lens = l /\ m.padding = p
             /\ ixEnv.deep_gemm => m.schedule = [lens |-> ViewOf(m, lens), cols |-> c,
                                                metadata_extra |-> indexer_n_head > 0]
  <2> HIDE DEF m, d, lens, view
  <2>1. m.view = lens.view /\ m.tables = tables /\ m.lens = l /\ m.padding = p BY <1>2, <1>3
  <2>2. d.cols = c BY <1>3
  <2>3. ixEnv.deep_gemm => m.schedule = get_paged_mqa_logits_metadata(view, c) BY <1>2, <1>3, <2>2
  <2>4. ViewOf(m, lens) = view BY <2>1 DEF ViewOf, view
  <2>5. QED BY <2>1, <2>3, <2>4 DEF get_paged_mqa_logits_metadata
<1>4. QED BY <1>1, <1>3

\* Whichever buffer is compressed, the plan reads it and the shared lengths stay.
LEMMA CompressedIs ==
  ASSUME IndexerType, NEW d,
         \/ d.decode.view = "decode" /\ seq_lens_is_buffer_view
         \/ d.decode.view = "common" /\ ~ seq_lens_is_buffer_view
  PROVE  LET lens == CompressedLens(d)
             before == IF d.decode.view = "decode" THEN d.buffer ELSE commonLens
         IN /\ lens.common = commonLens
            /\ lens.view \in {"common", "decode", "expanded"}
            /\ d.decode.view = "decode" => lens.view = "decode"
            /\ \A m : m.view = lens.view =>
                 ViewOf(m, lens) = IF Ratio = 1 THEN before ELSE Compress(before)
<1>1. CASE Ratio = 1 BY <1>1 DEF CompressedLens, ViewOf
<1>2. CASE Ratio # 1 /\ d.decode.view = "decode" BY <1>2 DEF CompressedLens, ViewOf
<1>3. CASE Ratio # 1 /\ d.decode.view # "decode" BY <1>3 DEF CompressedLens, ViewOf
<1>4. QED BY <1>1, <1>2, <1>3

\* A length in keys, wherever it was found.
LEMMA InKeys ==
  ASSUME IndexerType, NEW T \in Nat, NEW lens, 1 .. T \subseteq DOMAIN lens, NEW t \in 0 .. T - 1,
         lens[t + 1] = Position(t) + 1, Position(t) \in Nat
  PROVE  (IF Ratio = 1 THEN lens ELSE Compress(lens))[t + 1] = VisibleKeys(t)
<1>1. t + 1 \in DOMAIN lens OBVIOUS
<1>2. CASE Ratio = 1
  <2>1. VisibleKeys(t) = Position(t) + 1 BY <1>2 DEF VisibleKeys
  <2>2. QED BY <1>2, <2>1
<1>3. CASE Ratio # 1
  <2>1. Compress(lens)[t + 1] = lens[t + 1] \div Ratio BY <1>1 DEF Compress
  <2>2. QED BY <1>3, <2>1 DEF VisibleKeys
<1>4. QED BY <1>2, <1>3

\* The decode plan is right, in each of the kernel's modes.
LEMMA PlanIsRight ==
  ASSUME IndexerType, BatchOk, split_decodes_and_prefills > 0
  PROVE  /\ PlanRight(DecodeMetadata.metadata, DecodeMetadata.lens, StartLoc[split_decodes_and_prefills])
         /\ DecodeMetadata.lens.common = commonLens
<1> DEFINE n == split_decodes_and_prefills
           T == StartLoc[n]
           P == _prepare_decode_tensors
           d == P.decode
           m == DecodeMetadata.metadata
           lens == DecodeMetadata.lens
<1>1. n \in 1 .. Len(batch) /\ Len(batch) \in Nat /\ n \in Nat \ {0} /\ Before(n + 1) = T
  <2>1. n \in 1 .. Len(batch) /\ Len(batch) \in Nat /\ n \in Nat \ {0} /\ (n + 1) - 1 = n BY SplitIs, BatchIs
  <2>2. QED BY <2>1 DEF Before
<1>2. T \in Nat \ {0} /\ T <= NumTokens /\ NumTokens \in Nat
  <2>1. n \in 0 .. Len(batch) /\ 1 \in 0 .. Len(batch) /\ 0 \in 0 .. Len(batch) /\ 1 \in 1 .. Len(batch)
        /\ 1 <= n /\ n <= Len(batch) /\ Len(batch) \in 0 .. Len(batch) /\ 1 - 1 = 0
    BY <1>1
  <2>2. StartLoc[1] = StartLoc[0] + QueryLen(1) /\ QueryLen(1) \in Nat \ {0} /\ StartLoc[0] = 0
    BY <2>1, StartsAre, BatchIs
  <2>3. StartLoc[1] <= T /\ T <= StartLoc[Len(batch)] /\ T \in Nat BY <2>1, StartsAre
  <2>4. QED BY <2>2, <2>3, StartsAre DEF NumTokens
<1>3. lens = CompressedLens(P) BY MetadataIs
<1>4. ASSUME NEW t \in 0 .. T - 1
      PROVE  t \in 0 .. NumTokens - 1 /\ Position(t) \in Nat /\ t + 1 \in 1 .. T /\ (t + 1) - 1 = t
  <2>1. t \in 0 .. NumTokens - 1 /\ t + 1 \in 1 .. T /\ (t + 1) - 1 = t BY <1>2
  <2>2. QED BY <2>1, PositionIs
<1> HIDE DEF n
<1>5. CASE ~ use_native
  <2> DEFINE perToken == [t \in 1 .. T |-> Position(t - 1) + 1]
             tables == [t \in 1 .. T |-> batch[Owner(t - 1)].req]
             ones == [t \in 1 .. T |-> 1]
  <2>1. /\ P.buffer = perToken
        /\ d = [view |-> "decode", cols |-> 1, tables |-> tables, lens |-> ones, padding |-> FALSE,
                schedule |-> << >>]
    <3>1. DOMAIN perToken = 1 .. T OBVIOUS
    <3>2. P = [buffer |-> perToken,
               decode |-> [view |-> "decode", cols |-> 1, tables |-> [t \in DOMAIN perToken |-> batch[Owner(t - 1)].req],
                           lens |-> [t \in DOMAIN perToken |-> 1], padding |-> FALSE, schedule |-> << >>]]
      BY <1>5, <1>1 DEF _prepare_decode_tensors, n
    <3> HIDE DEF perToken, P
    <3>3. QED BY <3>1, <3>2
  <2> HIDE DEF P, lens
  <2>2. d.view = "decode" /\ seq_lens_is_buffer_view BY <2>1, <1>5 DEF seq_lens_is_buffer_view
  <2>3. /\ lens.common = commonLens /\ lens.view = "decode"
        /\ \A x : x.view = lens.view => ViewOf(x, lens) = IF Ratio = 1 THEN perToken ELSE Compress(perToken)
    BY <2>1, <2>2, <1>3, CompressedIs
  <2>4. /\ m.view = lens.view /\ m.tables = tables /\ m.lens = ones /\ m.padding = FALSE
        /\ ixEnv.deep_gemm => m.schedule = [lens |-> ViewOf(m, lens), cols |-> 1,
                                           metadata_extra |-> indexer_n_head > 0]
    <3> HIDE DEF tables, ones, perToken, m
    <3>1. QED BY <2>1, MetadataIs DEF P, lens, m
  <2>5. Len(ones) = T /\ ones \in Seq(Nat) /\ \A k \in 1 .. T : ones[k] = 1 BY <1>2
  <2>6. Cumsum(ones)[T] = T
    <3> HIDE DEF ones, T
    <3>1. T \in 0 .. Len(ones) /\ T \in 0 .. T BY <2>5, <1>2
    <3>2. Cumsum(ones)[T] = T * 1 BY <3>1, <2>5, CumsumUniform
    <3>3. QED BY <3>2, <1>2
  <2>7. T \div T = 1 /\ T * 1 = T
    <3> HIDE DEF T
    <3>1. T \div T \in Nat /\ (T \div T) * T <= T /\ T < ((T \div T) * T) + T BY <1>2, Quotient
    <3>2. (T \div T) # 0 BY <3>1, <1>2
    <3>3. ~ (2 <= (T \div T))
      <4> SUFFICES ASSUME 2 <= (T \div T) PROVE FALSE OBVIOUS
      <4>1. 2 * T <= (T \div T) * T BY <3>1, <1>2, ProductMonotone
      <4>2. QED BY <4>1, <3>1, <1>2
    <3>4. QED BY <3>1, <3>2, <3>3, <1>2
  <2>8. ASSUME NEW t \in 0 .. T - 1
        PROVE  m.tables[(t \div 1) + 1] = batch[Owner(t)].req /\ ViewOf(m, lens)[t + 1] = VisibleKeys(t)
    <3>1. t \div 1 = t BY <1>2
    <3>2. tables[t + 1] = batch[Owner(t)].req /\ perToken[t + 1] = Position(t) + 1
      <4> HIDE DEF T
      <4>1. QED BY <1>4
    <3>3. 1 .. T \subseteq DOMAIN perToken OBVIOUS
    <3> HIDE DEF T, perToken, tables
    <3>4. (IF Ratio = 1 THEN perToken ELSE Compress(perToken))[t + 1] = VisibleKeys(t)
      BY <3>2, <3>3, <1>2, <1>4, InKeys
    <3>5. QED BY <3>1, <3>2, <3>4, <2>3, <2>4
  <2> HIDE DEF T, perToken, tables, ones, m
  <2>9. m # NoDecode BY <2>3, <2>4 DEF NoDecode
  <2>10. PlanRight(m, lens, T) BY <2>4, <2>5, <2>6, <2>7, <2>8, <2>9, <1>2 DEF PlanRight
  <2>11. QED BY <2>3, <2>10 DEF m, lens, T, n
<1>6. CASE use_native
  <2> DEFINE L == QueryLen(1)
             drafted == ixEnv.drafts > 0
             perRow == [i \in 1 .. n * L |-> SeqLen(((i - 1) \div L) + 1) - L + 1 + ((i - 1) % L)]
             tables == [k \in 1 .. n |-> batch[k].req]
  <2>1. ~ ixEnv.use_flattening BY <1>6 DEF use_native
  <2>2. /\ L \in Nat \ {0} /\ L <= 1 + ixEnv.drafts /\ MaxDecodeLen = L
        /\ DOMAIN DecodeLens = 1 .. n /\ \A k \in 1 .. n : QueryLen(k) = L /\ DecodeLens[k] = L
        /\ T = n * L
        /\ \A t \in 0 .. n * L - 1 :
             /\ (t \div L) + 1 \in 1 .. n /\ Owner(t) = (t \div L) + 1 /\ t \in 0 .. NumTokens - 1
             /\ Position(t) + 1 = SeqLen(Owner(t)) - L + 1 + (t % L)
    BY <2>1, UniformIs DEF n
  <2>3. ixEnv.drafts \in Nat BY IndexerAssumption DEF IndexerType
  <2>4. ~ (\E k \in 1 .. n : QueryLen(k) # MaxDecodeLen) BY <2>2
  <2> HIDE DEF L
  <2>5. /\ P.buffer = IF drafted THEN perRow ELSE decodeLens
        /\ d = [view |-> IF drafted THEN "decode" ELSE "common", cols |-> IF drafted THEN L ELSE 1,
                tables |-> tables, lens |-> DecodeLens, padding |-> FALSE, schedule |-> << >>]
    <3>1. (\E k \in 1 .. n : QueryLen(k) # L) = FALSE BY <2>2, <2>4
    <3>2. P = [buffer |-> IF drafted THEN perRow ELSE decodeLens,
               decode |-> [view |-> IF drafted THEN "decode" ELSE "common", cols |-> IF drafted THEN L ELSE 1,
                           tables |-> tables, lens |-> DecodeLens,
                           padding |-> \E k \in 1 .. n : QueryLen(k) # L, schedule |-> << >>]]
      BY <1>6, <2>2 DEF _prepare_decode_tensors, n
    <3> HIDE DEF perRow, P, tables
    <3>3. QED BY <3>1, <3>2
  <2> HIDE DEF P, lens
  <2> DEFINE before == IF drafted THEN perRow ELSE commonLens
  <2>6. IF drafted THEN d.view = "decode" /\ seq_lens_is_buffer_view
        ELSE d.view = "common" /\ ~ seq_lens_is_buffer_view
    BY <2>5, <2>3, <1>6 DEF seq_lens_is_buffer_view
  <2>7. /\ lens.common = commonLens /\ lens.view \in {"common", "decode", "expanded"}
        /\ \A x : x.view = lens.view => ViewOf(x, lens) = IF Ratio = 1 THEN before ELSE Compress(before)
    <3>1. (IF d.view = "decode" THEN P.buffer ELSE commonLens) = before BY <2>5, <2>6
    <3> HIDE DEF before
    <3>2. QED BY <3>1, <2>6, <1>3, CompressedIs
  <2>8. /\ m.view = lens.view /\ m.tables = tables /\ m.lens = DecodeLens /\ m.padding = FALSE
        /\ ixEnv.deep_gemm => m.schedule = [lens |-> ViewOf(m, lens), cols |-> IF drafted THEN L ELSE 1,
                                           metadata_extra |-> indexer_n_head > 0]
    <3> HIDE DEF tables, m, before
    <3>1. QED BY <2>5, MetadataIs DEF P, lens, m
  <2>9. drafted \/ L = 1 BY <2>2, <2>3
  <2>10. DecodeLens \in Seq(Nat) /\ Len(DecodeLens) = n
    <3>1. DecodeLens = [k \in 1 .. n |-> DecodeLens[k]] BY <2>2 DEF DecodeLens, n
    <3>2. \A k \in 1 .. n : DecodeLens[k] \in Nat BY <2>2
    <3>3. n \in Nat BY <1>1
    <3>4. QED BY <3>1, <3>2, <3>3
  <2>11. Cumsum(DecodeLens)[n] = n * L
    <3>1. n \in 0 .. Len(DecodeLens) /\ n \in 0 .. n /\ L \in Nat BY <2>2, <2>10, <1>1
    <3>2. QED BY <3>1, <2>2, <2>10, CumsumUniform
  <2>12. (n * L) \div n = L
    <3> DEFINE x == (n * L) \div n
    <3>1. n * L \in Nat /\ n * L = L * n BY <1>1, <2>2
    <3>2. x \in Nat /\ x * n <= n * L /\ n * L < (x * n) + n BY <1>1, <3>1, Quotient
    <3> HIDE DEF x
    <3>3. ~ (x + 1 <= L)
      <4> SUFFICES ASSUME x + 1 <= L PROVE FALSE OBVIOUS
      <4>1. (x + 1) * n <= L * n /\ (x + 1) * n = (x * n) + n BY <1>1, <2>2, <3>2, ProductMonotone
      <4>2. x * n \in Nat BY <3>2, <1>1
      <4>3. QED BY <4>1, <4>2, <3>1, <3>2, <1>1, <2>2
    <3>4. ~ (L + 1 <= x)
      <4> SUFFICES ASSUME L + 1 <= x PROVE FALSE OBVIOUS
      <4>1. (L + 1) * n <= x * n /\ (L + 1) * n = (L * n) + n BY <1>1, <2>2, <3>2, ProductMonotone
      <4>2. x * n \in Nat BY <3>2, <1>1
      <4>3. QED BY <4>1, <4>2, <3>1, <3>2, <1>1
    <3>5. QED BY <3>2, <3>3, <3>4, <2>2 DEF x
  <2>13. ASSUME NEW t \in 0 .. T - 1
         PROVE  m.tables[(t \div L) + 1] = batch[Owner(t)].req /\ ViewOf(m, lens)[t + 1] = VisibleKeys(t)
    <3>1. /\ (t \div L) + 1 \in 1 .. n /\ Owner(t) = (t \div L) + 1
          /\ Position(t) + 1 = SeqLen(Owner(t)) - L + 1 + (t % L)
      BY <2>2
    <3>2. m.tables[(t \div L) + 1] = batch[Owner(t)].req BY <3>1, <2>8
    <3>3. 1 .. T \subseteq DOMAIN before /\ before[t + 1] = Position(t) + 1
      <4>1. CASE drafted
        <5>1. before = perRow BY <4>1
        <5>2. t + 1 \in 1 .. n * L /\ (t + 1) - 1 = t BY <1>4, <2>2
        <5>3. perRow[t + 1] = SeqLen((t \div L) + 1) - L + 1 + (t % L) BY <5>2
        <5>4. DOMAIN perRow = 1 .. n * L OBVIOUS
        <5> HIDE DEF perRow, before
        <5>5. QED BY <5>1, <5>3, <5>4, <3>1, <2>2
      <4>2. CASE ~ drafted
        <5>0. L = 1 BY <4>2, <2>9
        <5>1. L = 1 /\ T = n
          <6>1. T = n * 1 BY <5>0, <2>2
          <6> HIDE DEF T
          <6>2. QED BY <5>0, <6>1, <1>1
        <5>2. t \div L = t /\ t % L = 0 /\ t \in Nat BY <5>1, <1>1
        <5>3. Owner(t) = t + 1 /\ Position(t) + 1 = SeqLen(t + 1)
          <6>1. t + 1 \in 1 .. Len(batch) BY <3>1, <5>2, <1>1
          <6>2. SeqLen(t + 1) \in Nat BY <6>1, BatchIs
          <6>3. SeqLen(t + 1) - 1 + 1 + 0 = SeqLen(t + 1) BY <6>2
          <6>4. QED BY <3>1, <5>1, <5>2, <6>3
        <5>4. commonLens = [k \in 1 .. Len(batch) |-> SeqLen(k)] BY BatchIs DEF BatchOk
        <5>5. t + 1 \in 1 .. Len(batch) BY <3>1, <5>2, <1>1
        <5>6. commonLens[t + 1] = SeqLen(t + 1) BY <5>4, <5>5
        <5>7. 1 .. T \subseteq DOMAIN commonLens BY <5>1, <5>4, <1>1
        <5>8. before = commonLens BY <4>2
        <5> HIDE DEF before
        <5>9. QED BY <5>3, <5>6, <5>7, <5>8
      <4>3. QED BY <4>1, <4>2
    <3> HIDE DEF T, before, m
    <3>4. (IF Ratio = 1 THEN before ELSE Compress(before))[t + 1] = VisibleKeys(t)
      BY <3>3, <1>2, <1>4, InKeys
    <3>5. QED BY <3>2, <3>4, <2>7, <2>8
  <2> HIDE DEF T, tables, m, before, drafted
  <2>14. m # NoDecode BY <2>7, <2>8 DEF NoDecode
  <2>15. (IF drafted THEN L ELSE 1) = L BY <2>9
  <2>16. PlanRight(m, lens, T)
    BY <2>2, <2>8, <2>10, <2>11, <2>12, <2>13, <2>14, <2>15, <1>1 DEF PlanRight
  <2>17. QED BY <2>7, <2>16 DEF m, lens, T, n
<1>7. QED BY <1>5, <1>6

--------------------------------------------------------------------------------
(* The steps.                                                                  *)

LEMMA InitInv == IndexerInit => IndexerInv
<1> SUFFICES ASSUME IndexerInit PROVE IndexerInv OBVIOUS
<1>1. IndexerContext \in Nat BY IndexerAssumption
<1>2. IndexerType BY <1>1 DEF IndexerInit, IndexerType
<1>3. ASSUME NEW r \in Requests PROVE KeysAre(r, progress[r])
  <2>1. progress[r] = 0 /\ Ratio \in {1, 2} BY DEF IndexerInit, Ratio
  <2>2. progress[r] \div Ratio = 0 BY <2>1
  <2>3. QED BY <2>2 DEF KeysAre
<1>4. ixStage = "construct" BY DEF IndexerInit
<1>5. QED BY <1>2, <1>3, <1>4 DEF IndexerInv, Planned, Gathers, Written, AllRight

\* What depends only on the step's requests.
LEMMA Frame ==
  ASSUME UNCHANGED << ixEnv, progress, lag, batch >>
  PROVE  /\ Ratio' = Ratio /\ StartLoc' = StartLoc /\ KeyRows' = KeyRows /\ NumTokens' = NumTokens
         /\ split_decodes_and_prefills' = split_decodes_and_prefills
         /\ PrefillTokens' = PrefillTokens
         /\ \A t : Owner(t)' = Owner(t) /\ Position(t)' = Position(t) /\ VisibleKeys(t)' = VisibleKeys(t)
         /\ \A k : SeqLen(k)' = SeqLen(k)
         /\ key_dtype' = key_dtype /\ indexer_n_head' = indexer_n_head
         /\ Asserted' = Asserted /\ Refused' = Refused
<1>1. Ratio' = Ratio /\ (\A k : QueryLen(k)' = QueryLen(k) /\ SeqLen(k)' = SeqLen(k))
  BY DEF Ratio, QueryLen, SeqLen
<1>2. StartLoc' = StartLoc /\ KeyRows' = KeyRows
  <2>1. [k \in DOMAIN batch |-> QueryLen(k)]' = [k \in DOMAIN batch |-> QueryLen(k)] BY <1>1
  <2>2. [k \in DOMAIN batch |-> SeqLen(k) \div Ratio]' = [k \in DOMAIN batch |-> SeqLen(k) \div Ratio] BY <1>1
  <2>3. \A a : Cumsum(a)' = Cumsum(a) OBVIOUS
  <2>4. StartLoc' = StartLoc BY <2>1, <2>3 DEF StartLoc
  <2>5. KeyRows' = KeyRows BY <2>2, <2>3 DEF KeyRows
  <2>6. QED BY <2>4, <2>5
<1>3. NumTokens' = NumTokens /\ (\A t : Owner(t)' = Owner(t)) BY <1>2 DEF NumTokens, Owner, Interval
<1>4. \A t : Position(t)' = Position(t) BY <1>2, <1>3 DEF Position, Before
<1>5. \A t : VisibleKeys(t)' = VisibleKeys(t) BY <1>1, <1>4 DEF VisibleKeys
<1>6. split_decodes_and_prefills' = split_decodes_and_prefills
  BY <1>1 DEF split_decodes_and_prefills, decode_threshold, RequireUniform
<1>7. PrefillTokens' = PrefillTokens BY <1>2, <1>3, <1>6 DEF PrefillTokens
<1>8. UseFp4Cache' = UseFp4Cache /\ Refused' = Refused /\ indexer_n_head' = indexer_n_head
  BY DEF UseFp4Cache, Patched, dsa_indexer_uses_fp4, UpstreamUsesFp4, Refused, indexer_n_head,
         get_kv_cache_spec
<1>9. fused_indexer_q_rope_quant' = fused_indexer_q_rope_quant
      /\ compress_norm_rope_store_triton' = compress_norm_rope_store_triton
  BY <1>8 DEF fused_indexer_q_rope_quant, compress_norm_rope_store_triton, IndexerFormat, Patched
<1>10. q_dtype' = q_dtype BY <1>9 DEF q_dtype, use_ppu_int8_indexer
<1>11. key_dtype' = key_dtype BY <1>9, <1>10 DEF key_dtype
<1>12. Asserted' = Asserted BY <1>8, <1>10 DEF Asserted
<1>13. QED BY <1>1, <1>2, <1>3, <1>4, <1>5, <1>6, <1>7, <1>8, <1>11, <1>12

LEMMA FrameChunks ==
  ASSUME UNCHANGED << ixEnv, progress, lag, batch >>
  PROVE  /\ \A q : ChunksOk(q)' <=> ChunksOk(q)
         /\ \A m, lens, n : PlanRight(m, lens, n)' <=> PlanRight(m, lens, n)
<1>1. UseFp4Cache' = UseFp4Cache BY DEF UseFp4Cache, Patched, dsa_indexer_uses_fp4, UpstreamUsesFp4
<1>2. \A c : FitsReserved(c)' <=> FitsReserved(c) BY <1>1 DEF FitsReserved
<1>3. \A k : Before(k)' = Before(k) BY Frame DEF Before
<1>4. \A c : ValidChunk(c)' <=> ValidChunk(c) BY <1>2, <1>3 DEF ValidChunk
<1>5. \A q : ChunksOk(q)' <=> ChunksOk(q) BY <1>4 DEF ChunksOk
<1>6. \A m, lens, n : PlanRight(m, lens, n)' <=> PlanRight(m, lens, n)
  <2> TAKE m, lens, n
  <2>1. ViewOf(m, lens)' = ViewOf(m, lens) /\ NoDecode' = NoDecode BY DEF ViewOf, NoDecode
  <2>2. Cumsum(m.lens)' = Cumsum(m.lens) OBVIOUS
  <2>3. /\ \A t : VisibleKeys(t)' = VisibleKeys(t) /\ Owner(t)' = Owner(t)
        /\ indexer_n_head' = indexer_n_head
    BY Frame
  <2>4. QED BY <2>1, <2>2, <2>3 DEF PlanRight
<1>7. QED BY <1>5, <1>6

LEMMA FrameRows ==
  ASSUME UNCHANGED << ixEnv, progress, lag, batch, tokens, keyCache >>
  PROVE  /\ \A r, n : KeysAre(r, n)' <=> KeysAre(r, n)
         /\ \A space, s, e : Holds(space, s, e)' <=> Holds(space, s, e)
<1>1. \A r, n : KeysAre(r, n)' <=> KeysAre(r, n) BY Frame DEF KeysAre
<1>2. \A space, s, e : Holds(space, s, e)' <=> Holds(space, s, e)
  <2>1. KeyRows' = KeyRows /\ Ratio' = Ratio /\ \A k : SeqLen(k)' = SeqLen(k) BY Frame
  <2>2. QED BY <2>1 DEF Holds
<1>3. QED BY <1>1, <1>2

LEMMA ConstructInv == IndexerInv /\ construct => IndexerInv'
<1> SUFFICES ASSUME IndexerInv, construct PROVE IndexerInv' OBVIOUS
<1>1. UNCHANGED << ixEnv, progress, lag, batch, tokens, keyCache >> BY DEF construct
<1>2. ixStage' \in {"refused", "idle"} /\ (ixStage' = "idle" => ~ Refused) BY DEF construct
<1>3. IndexerType'
  <2>1. Refused' = Refused BY <1>1, Frame
  <2>2. QED BY <1>1, <1>2, <2>1 DEF IndexerInv, IndexerType
<1>4. \A r \in Requests : KeysAre(r, progress[r])' BY <1>1, FrameRows DEF IndexerInv, Written
<1>5. QED BY <1>2, <1>3, <1>4 DEF IndexerInv, Planned, Gathers, Written, AllRight

LEMMA ScheduleInv == IndexerInv /\ ScheduleStep => IndexerInv'
<1> SUFFICES ASSUME IndexerInv, ScheduleStep PROVE IndexerInv' OBVIOUS
<1>1. UNCHANGED << ixEnv, progress, lag, tokens, keyCache >> /\ ixStage' = "build" /\ ixStage = "idle"
  BY DEF ScheduleStep
<1>2. Ratio' = Ratio /\ key_dtype' = key_dtype /\ Refused' = Refused
  BY <1>1 DEF Ratio, key_dtype, compress_norm_rope_store_triton, q_dtype, fused_indexer_q_rope_quant,
     IndexerFormat, UseFp4Cache, Patched, dsa_indexer_uses_fp4, UpstreamUsesFp4, use_ppu_int8_indexer, Refused
<1>3. IndexerType' BY <1>1, <1>2 DEF IndexerInv, IndexerType
<1>4. \A r \in Requests : KeysAre(r, progress[r])' BY <1>1, <1>2 DEF IndexerInv, Written, KeysAre
<1>5. BatchOk'
  <2>1. PICK R \in SUBSET { r \in Requests : progress[r] < IndexerContext } \ {{}} :
          \E order \in SetToSeqs(R), len \in [R -> 1 .. IndexerContext] :
            /\ \A r \in R : len[r] \in Lengths(r)
            /\ batch' = [k \in DOMAIN order |-> [req |-> order[k], len |-> len[order[k]]]]
            /\ commonLens' = [k \in DOMAIN order |-> progress[order[k]] + len[order[k]]]
    BY DEF ScheduleStep
  <2>2. PICK order \in SetToSeqs(R), len \in [R -> 1 .. IndexerContext] :
            /\ \A r \in R : len[r] \in Lengths(r)
            /\ batch' = [k \in DOMAIN order |-> [req |-> order[k], len |-> len[order[k]]]]
            /\ commonLens' = [k \in DOMAIN order |-> progress[order[k]] + len[order[k]]]
    BY <2>1
  <2> DEFINE n == Cardinality(R)
  <2>3. n \in Nat /\ R \subseteq Requests
    <3>1. IndexerPrompts \in Seq(1 .. IndexerContext) BY IndexerAssumption
    <3>2. Len(IndexerPrompts) \in Nat /\ Requests = 1 .. Len(IndexerPrompts) BY <3>1, LenProperties DEF Requests
    <3>3. IsFiniteSet(Requests) BY <3>2, FS_Interval
    <3>4. R \subseteq Requests OBVIOUS
    <3>5. QED BY <3>3, <3>4, FS_Subset, FS_CardinalityType
  <2> HIDE DEF n
  <2>4. order \in [1 .. n -> R] /\ \A i, j \in 1 .. n : i # j => order[i] # order[j]
    BY DEF SetToSeqs, n
  <2>5. batch' = [k \in 1 .. n |-> [req |-> order[k], len |-> len[order[k]]]]
        /\ commonLens' = [k \in 1 .. n |-> progress[order[k]] + len[order[k]]]
    BY <2>2, <2>4
  <2>6. batch' \in Seq([req : Requests, len : 1 .. IndexerContext])
    <3>1. \A k \in 1 .. n : [req |-> order[k], len |-> len[order[k]]] \in [req : Requests, len : 1 .. IndexerContext]
      BY <2>3, <2>4
    <3>2. QED BY <2>3, <2>5, <3>1
  <2>7. DOMAIN batch' = 1 .. n BY <2>5
  <2>8. ASSUME NEW k \in 1 .. n
        PROVE  SeqLen(k)' = progress[order[k]] + len[order[k]] /\ SeqLen(k)' <= IndexerContext
    <3> DEFINE r == order[k]
    <3>1. SeqLen(k)' = progress[r] + len[r] BY <2>5, <1>1 DEF SeqLen
    <3>2. r \in R /\ r \in Requests /\ progress[r] \in 0 .. IndexerContext /\ progress[r] < IndexerContext
      BY <2>3, <2>4 DEF IndexerInv, IndexerType
    <3>3. len[r] \in Lengths(r) BY <2>2, <3>2
    <3>4. IndexerPrompts[r] \in 1 .. IndexerContext /\ IndexerContext \in Nat
      BY <3>2, IndexerAssumption, ElementOfSeq, LenProperties DEF Requests
    <3>5. len[r] \in 1 .. IndexerContext - progress[r]
      <4>1. ixEnv.drafts \in Nat BY IndexerAssumption DEF IndexerInv, IndexerType
      <4>2. CASE progress[r] < IndexerPrompts[r]
        <5>1. len[r] \in 1 .. IndexerPrompts[r] - progress[r] BY <3>3, <4>2 DEF Lengths
        <5> HIDE DEF r
        <5>2. QED BY <5>1, <3>2, <3>4
      <4>3. CASE ~ (progress[r] < IndexerPrompts[r])
        <5>1. len[r] \in 1 .. Smaller(1 + ixEnv.drafts, IndexerContext - progress[r])
          BY <3>3, <4>3 DEF Lengths
        <5> HIDE DEF r
        <5>2. QED BY <5>1, <3>2, <3>4, <4>1 DEF Smaller
      <4>4. QED BY <4>2, <4>3
    <3> HIDE DEF r
    <3>6. progress[r] + len[r] <= IndexerContext BY <3>2, <3>4, <3>5
    <3>7. QED BY <3>1, <3>6 DEF r
  <2>9. \A k, l \in 1 .. n : batch'[k].req = batch'[l].req => k = l BY <2>4, <2>5
  <2>10. commonLens' = [k \in 1 .. n |-> SeqLen(k)'] BY <2>5, <2>8
  <2>11. QED BY <2>6, <2>7, <2>8, <2>9, <2>10 DEF BatchOk
<1>6. QED BY <1>1, <1>3, <1>4, <1>5 DEF IndexerInv, Planned, Gathers, Written, AllRight

LEMMA BuildInv == IndexerInv /\ build => IndexerInv'
<1> SUFFICES ASSUME IndexerInv, build PROVE IndexerInv' OBVIOUS
<1> DEFINE n == split_decodes_and_prefills
<1>1. /\ UNCHANGED << ixEnv, progress, lag, batch, tokens, keyCache >>
      /\ ixStage = "build" /\ ixStage' = "insert"
      /\ chunks' = IF n < Len(batch) THEN PrefillChunks ELSE << >>
  BY DEF build
<1>2. IndexerType /\ BatchOk /\ Written BY <1>1 DEF IndexerInv
<1>3. IndexerType'
  <2>1. Refused' = Refused BY <1>1, Frame
  <2>2. QED BY <1>1, <1>2, <2>1 DEF IndexerType
<1>4. \A r \in Requests : KeysAre(r, progress[r])' BY <1>1, <1>2, FrameRows DEF Written
<1>5. n \in 0 .. Len(batch) /\ Len(batch) \in Nat BY <1>2, SplitIs, BatchIs
<1>6. commonLens' = commonLens
  <2>1. CASE n > 0 BY <2>1, <1>2, PlanIsRight DEF build
  <2>2. CASE ~ (n > 0) BY <2>2 DEF build
  <2>3. QED BY <2>1, <2>2
<1>7. BatchOk'
  <2>1. \A k : SeqLen(k)' = SeqLen(k) BY <1>1, Frame
  <2>2. QED BY <1>1, <1>2, <1>6, <2>1 DEF BatchOk
<1>8. /\ Whole(chunks')
      /\ \A t \in PrefillTokens : Covered(chunks', t) \/ VisibleKeys(t) = 0
  <2> HIDE DEF n
  <2>1. CASE n < Len(batch)
    <3>1. n + 1 \in 1 .. Len(batch) + 1 /\ (n + 1) - 1 = n BY <2>1, <1>5
    <3>2. /\ Whole(_split_indexer_prefill_chunks[n + 1])
          /\ \A t \in StartLoc[(n + 1) - 1] .. NumTokens - 1 :
               Covered(_split_indexer_prefill_chunks[n + 1], t) \/ VisibleKeys(t) = 0
      BY <3>1, <1>2, ChunksAre
    <3>3. chunks' = _split_indexer_prefill_chunks[n + 1] BY <2>1, <1>1 DEF PrefillChunks, n
    <3>4. PrefillTokens = StartLoc[n] .. NumTokens - 1 BY DEF PrefillTokens, n
    <3>5. QED BY <3>1, <3>2, <3>3, <3>4
  <2>2. CASE ~ (n < Len(batch))
    <3>1. n = Len(batch) /\ chunks' = << >> BY <2>2, <1>1, <1>5
    <3>2. Whole(<< >>) BY <1>2 DEF Whole, ChunksOk
    <3>3. PrefillTokens = {}
      <4>1. PrefillTokens = NumTokens .. NumTokens - 1 BY <3>1 DEF PrefillTokens, NumTokens, n
      <4>2. NumTokens \in Nat BY <1>2, StartsAre
      <4>3. QED BY <4>1, <4>2
    <3>4. QED BY <3>1, <3>2, <3>3
  <2>3. QED BY <2>1, <2>2
<1>9. ChunksOk(chunks)'
  <2>1. ChunksOk(chunks') BY <1>8 DEF Whole
  <2>2. QED BY <2>1, <1>1, FrameChunks
<1>10. /\ chunks' # << >> => ~ chunks'[1].skip_kv_gather
       /\ \A t \in PrefillTokens' : Covered(chunks, t)' \/ VisibleKeys(t)' = 0
  <2>1. PrefillTokens' = PrefillTokens /\ \A t : VisibleKeys(t)' = VisibleKeys(t) BY <1>1, Frame
  <2>2. chunks' # << >> => ~ chunks'[1].skip_kv_gather BY <1>8 DEF Whole
  <2>3. \A t : Covered(chunks, t)' <=> Covered(chunks', t) BY DEF Covered
  <2>4. QED BY <1>8, <2>1, <2>2, <2>3
<1>11. DecodeOk'
  <2>1. split_decodes_and_prefills' = n /\ StartLoc' = StartLoc BY <1>1, Frame
  <2>2. CASE n = 0
    <3>1. decode' = NoDecode BY <2>2 DEF build
    <3>2. NoDecode' = NoDecode BY DEF NoDecode
    <3>3. QED BY <3>1, <3>2, <2>1, <2>2 DEF DecodeOk
  <2>3. CASE n # 0
    <3> DEFINE lens == DecodeMetadata.lens
               held == [common |-> lens.common, decode |-> lens.decode, expanded |-> lens.expanded]
               m == DecodeMetadata.metadata
    <3>1. n > 0 BY <2>3, <1>5
    <3>2. /\ commonLens' = lens.common /\ decodeLens' = lens.decode
          /\ expandedLens' = lens.expanded /\ decode' = m
      BY <3>1 DEF build
    <3>3. PlanRight(m, lens, StartLoc[n]) BY <3>1, <1>2, PlanIsRight
    <3> HIDE DEF lens, m
    <3>4. ViewOf(m, held) = ViewOf(m, lens) BY DEF ViewOf
    <3>5. PlanRight(m, held, StartLoc[n]) BY <3>3, <3>4 DEF PlanRight
    <3> HIDE DEF held
    <3>6. \A c, h, T : PlanRight(c, h, T)' <=> PlanRight(c, h, T) BY <1>1, FrameChunks
    <3>7. held = [common |-> commonLens', decode |-> decodeLens', expanded |-> expandedLens']
      BY <3>2 DEF held
    <3> HIDE DEF n
    <3>8. PlanRight(decode, [common |-> commonLens, decode |-> decodeLens, expanded |-> expandedLens],
                    StartLoc[split_decodes_and_prefills])'
      BY <3>2, <3>5, <3>6, <3>7, <2>1
    <3>9. QED BY <3>8, <2>1, <2>3 DEF DecodeOk
  <2>4. QED BY <2>2, <2>3
<1>12. QED
  <2>1. Planned' BY <1>9, <1>11 DEF Planned
  <2>2. Gathers' BY <1>1, <1>10 DEF Gathers
  <2>3. Written' BY <1>1, <1>4 DEF Written
  <2>4. AllRight' BY <1>1 DEF AllRight
  <2>5. QED BY <1>3, <1>7, <2>1, <2>2, <2>3, <2>4 DEF IndexerInv

\* What a step's tokens write: the keys whose windows they close, each of its last token.
LEMMA InsertedIs ==
  ASSUME IndexerType, BatchOk
  PROVE  /\ \A k \in DOMAIN indexer_k_quant_and_cache :
              indexer_k_quant_and_cache[k] =
                [token |-> tokens[k[1]][(k[2] + 1) * Ratio - 1], dtype |-> key_dtype]
         /\ \A k \in 1 .. Len(batch) : \A x \in 0 .. (SeqLen(k) \div Ratio) - 1 :
              \/ x \in 0 .. (progress[batch[k].req] \div Ratio) - 1
              \/ << batch[k].req, x >> \in DOMAIN indexer_k_quant_and_cache
<1> DEFINE new == indexer_k_quant_and_cache
<1>1. Ratio \in {1, 2} BY BatchIs
<1>2. DOMAIN new = { KeyOf(t) : t \in Closing } BY DEF indexer_k_quant_and_cache
<1>3. ASSUME NEW k \in DOMAIN new
      PROVE  new[k] = [token |-> tokens[k[1]][(k[2] + 1) * Ratio - 1], dtype |-> key_dtype]
  <2> DEFINE t == CHOOSE u \in Closing : KeyOf(u) = k
  <2>1. t \in Closing /\ KeyOf(t) = k BY <1>2
  <2>2. new[k] = [token |-> tokens[batch[Owner(t)].req][Position(t)], dtype |-> key_dtype]
    BY <1>2 DEF indexer_k_quant_and_cache
  <2> HIDE DEF t, new
  <2>3. t \in 0 .. NumTokens - 1 /\ (Position(t) + 1) % Ratio = 0 BY <2>1 DEF Closing
  <2>4. k[1] = batch[Owner(t)].req /\ k[2] = (Position(t) + 1) \div Ratio - 1 BY <2>1 DEF KeyOf
  <2>5. Position(t) \in Nat BY <2>3, PositionIs
  <2>6. (k[2] + 1) * Ratio - 1 = Position(t)
    <3>1. CASE Ratio = 1 BY <3>1, <2>4, <2>5
    <3>2. CASE Ratio = 2 BY <3>2, <2>3, <2>4, <2>5
    <3>3. QED BY <3>1, <3>2, <1>1
  <2>7. QED BY <2>2, <2>4, <2>6
<1>4. ASSUME NEW k \in 1 .. Len(batch), NEW x \in 0 .. (SeqLen(k) \div Ratio) - 1,
             x \notin 0 .. (progress[batch[k].req] \div Ratio) - 1
      PROVE  << batch[k].req, x >> \in DOMAIN new
  <2> DEFINE p == (x + 1) * Ratio - 1
             done == progress[batch[k].req]
             t == StartLoc[k - 1] + (p - done)
  <2>1. /\ done \in Nat /\ QueryLen(k) \in Nat /\ SeqLen(k) = done + QueryLen(k)
        /\ SeqLen(k) \in Nat /\ Len(batch) \in Nat
    BY BatchIs
  <2>2. k - 1 \in 0 .. Len(batch) /\ k \in 0 .. Len(batch) BY <2>1
  <2>3. StartLoc[k - 1] \in Nat /\ StartLoc[k] = StartLoc[k - 1] + QueryLen(k) BY <2>2, StartsAre
  <2> HIDE DEF done
  <2>4. x \in Nat /\ x < SeqLen(k) \div Ratio /\ done \div Ratio <= x
    <3>1. x \notin 0 .. (done \div Ratio) - 1 BY <1>4 DEF done
    <3>2. done \div Ratio \in Nat /\ SeqLen(k) \div Ratio \in Nat
      <4>1. CASE Ratio = 1 BY <4>1, <2>1
      <4>2. CASE Ratio = 2 BY <4>2, <2>1
      <4>3. QED BY <4>1, <4>2, <1>1
    <3>3. QED BY <3>1, <3>2
  <2>5. p \in Nat /\ done <= p /\ p < done + QueryLen(k)
    <3>1. CASE Ratio = 1 BY <3>1, <2>1, <2>4
    <3>2. CASE Ratio = 2 BY <3>2, <2>1, <2>4
    <3>3. QED BY <3>1, <3>2, <1>1
  <2>6. (p + 1) % Ratio = 0 /\ (p + 1) \div Ratio - 1 = x
    <3>1. CASE Ratio = 1 BY <3>1, <2>4
    <3>2. CASE Ratio = 2 BY <3>2, <2>4
    <3>3. QED BY <3>1, <3>2, <1>1
  <2> HIDE DEF p
  <2>7. t \in Nat /\ StartLoc[k - 1] <= t /\ t < StartLoc[k]
    <3>1. ASSUME NEW a \in Nat, NEW q \in Nat, NEW d \in Nat, NEW z \in Nat, d <= z, z < d + q
          PROVE  a + (z - d) \in Nat /\ a <= a + (z - d) /\ a + (z - d) < a + q
      BY <3>1
    <3>2. QED BY <3>1, <2>1, <2>3, <2>5, SMTT(60)
  <2>8. t - StartLoc[k - 1] = p - done
    <3>1. ASSUME NEW a \in Nat, NEW d \in Nat, NEW z \in Nat PROVE (a + (z - d)) - a = z - d OBVIOUS
    <3>2. QED BY <3>1, <2>1, <2>3, <2>5
  <2> HIDE DEF t
  <2>9. Owner(t) = k /\ t \in 0 .. NumTokens - 1 BY <2>7, OwnerIs
  <2>10. Position(t) = done + (t - StartLoc[k - 1]) BY <2>9, PositionIs DEF done
  <2>11. Position(t) = p
    <3>1. Position(t) = done + (p - done) BY <2>8, <2>10
    <3>2. QED BY <3>1, <2>1, <2>5
  <2>12. t \in Closing BY <2>6, <2>9, <2>11 DEF Closing
  <2>13. KeyOf(t) = << batch[k].req, x >> BY <2>6, <2>9, <2>11 DEF KeyOf
  <2> HIDE DEF new
  <2>14. QED BY <2>12, <2>13, <1>2
<1>5. QED BY <1>3, <1>4

LEMMA InsertInv == IndexerInv /\ insert => IndexerInv'
<1> SUFFICES ASSUME IndexerInv, insert PROVE IndexerInv' OBVIOUS
<1>1. /\ UNCHANGED << ixEnv, progress, lag, batch, tokens, commonLens, decodeLens, expandedLens,
                      chunks, decode >>
      /\ ixStage = "insert" /\ ixStage' = IF Asserted THEN "prefill" ELSE "raised"
  BY DEF insert
<1>2. IndexerType /\ BatchOk /\ Written /\ ChunksOk(chunks) /\ DecodeOk
  BY <1>1 DEF IndexerInv, Planned
<1>3. IndexerType'
  <2>1. Refused' = Refused BY <1>1, Frame
  <2>2. QED BY <1>1, <1>2, <2>1 DEF IndexerType
<1>4. BatchOk'
  <2>1. \A k : SeqLen(k)' = SeqLen(k) BY <1>1, Frame
  <2>2. QED BY <1>1, <1>2, <2>1 DEF BatchOk
<1>5. Planned'
  <2>1. ChunksOk(chunks') BY <1>1, <1>2
  <2>2. ChunksOk(chunks)' BY <2>1, <1>1, FrameChunks
  <2>3. split_decodes_and_prefills' = split_decodes_and_prefills /\ StartLoc' = StartLoc BY <1>1, Frame
  <2>4. DecodeOk' BY <1>1, <1>2, <2>3, FrameChunks DEF DecodeOk, NoDecode
  <2>5. QED BY <2>2, <2>4 DEF Planned
<1>6. CASE ~ Asserted
  <2>1. keyCache' = keyCache /\ ixStage' = "raised" BY <1>6 DEF insert
  <2>2. \A r \in Requests : KeysAre(r, progress[r])' BY <1>1, <1>2, <2>1, FrameRows DEF Written
  <2>3. QED BY <1>3, <1>4, <1>5, <2>1, <2>2 DEF IndexerInv, Gathers, Written, AllRight
<1>7. CASE Asserted
  <2> DEFINE new == indexer_k_quant_and_cache
  <2>1. /\ keyCache' = Overwrite(new, keyCache) /\ ixStage' = "prefill"
        /\ topk' = [t \in 1 .. NumTokens |-> NoRow]
    BY <1>7 DEF insert
  <2>2. Ratio' = Ratio /\ key_dtype' = key_dtype BY <1>1, Frame
  <2>3. /\ DOMAIN keyCache' = DOMAIN new \cup DOMAIN keyCache
        /\ \A k \in DOMAIN keyCache' : keyCache'[k] = IF k \in DOMAIN new THEN new[k] ELSE keyCache[k]
    <3> HIDE DEF new
    <3>1. QED BY <2>1 DEF Overwrite
  <2>4. \A k \in DOMAIN new : new[k] = [token |-> tokens[k[1]][(k[2] + 1) * Ratio - 1], dtype |-> key_dtype]
    BY <1>2, InsertedIs
  <2>5. \A k \in 1 .. Len(batch) : \A x \in 0 .. (SeqLen(k) \div Ratio) - 1 :
          \/ x \in 0 .. (progress[batch[k].req] \div Ratio) - 1
          \/ << batch[k].req, x >> \in DOMAIN new
    BY <1>2, InsertedIs
  <2> HIDE DEF new
  <2>6. ASSUME NEW r, NEW x, << r, x >> \in DOMAIN new
        PROVE  /\ << r, x >> \in DOMAIN keyCache'
               /\ keyCache'[<< r, x >>] = [token |-> tokens'[r][(x + 1) * Ratio' - 1], dtype |-> key_dtype']
    <3>1. << r, x >>[1] = r /\ << r, x >>[2] = x OBVIOUS
    <3>2. new[<< r, x >>] = [token |-> tokens[r][(x + 1) * Ratio - 1], dtype |-> key_dtype]
      BY <2>4, <2>6, <3>1
    <3>3. QED BY <2>2, <2>3, <2>6, <3>2, <1>1
  <2>7. ASSUME NEW r \in Requests, NEW x \in 0 .. (progress[r] \div Ratio) - 1
        PROVE  /\ << r, x >> \in DOMAIN keyCache'
               /\ keyCache'[<< r, x >>] = [token |-> tokens'[r][(x + 1) * Ratio' - 1], dtype |-> key_dtype']
    <3>1. CASE << r, x >> \in DOMAIN new BY <3>1, <2>6
    <3>2. CASE << r, x >> \notin DOMAIN new
      <4>1. /\ << r, x >> \in DOMAIN keyCache
            /\ keyCache[<< r, x >>] = [token |-> tokens[r][(x + 1) * Ratio - 1], dtype |-> key_dtype]
        BY <1>2 DEF Written, KeysAre
      <4>2. QED BY <4>1, <3>2, <2>2, <2>3, <1>1
    <3>3. QED BY <3>1, <3>2
  <2>8. \A r \in Requests : KeysAre(r, progress[r])' BY <2>7, <2>2, <1>1 DEF KeysAre
  <2>9. \A k \in DOMAIN batch : KeysAre(batch[k].req, SeqLen(k))'
    <3> SUFFICES ASSUME NEW k \in DOMAIN batch PROVE KeysAre(batch[k].req, SeqLen(k))' OBVIOUS
    <3>1. k \in 1 .. Len(batch) /\ batch[k].req \in Requests BY <1>2, BatchIs
    <3>2. SeqLen(k)' = SeqLen(k) BY <1>1, Frame
    <3>3. \A x \in 0 .. (SeqLen(k) \div Ratio) - 1 :
            /\ << batch[k].req, x >> \in DOMAIN keyCache'
            /\ keyCache'[<< batch[k].req, x >>] =
                 [token |-> tokens'[batch[k].req][(x + 1) * Ratio' - 1], dtype |-> key_dtype']
      BY <3>1, <2>5, <2>6, <2>7
    <3>4. QED BY <3>2, <3>3, <2>2, <1>1 DEF KeysAre
  <2>10. Written'
    <3>1. Asserted' /\ NumTokens' = NumTokens BY <1>1, <1>7, Frame
    <3>2. DOMAIN topk' = 1 .. NumTokens BY <2>1
    <3>3. QED BY <3>1, <3>2, <2>8, <2>9, <1>1 DEF Written
  <2>11. Gathers'
    <3>1. chunks # << >> => ~ chunks[1].skip_kv_gather BY <1>1 DEF IndexerInv, Gathers
    <3>2. \A t \in PrefillTokens : Covered(chunks, t) \/ VisibleKeys(t) = 0 BY <1>1 DEF IndexerInv, Gathers
    <3>3. PrefillTokens' = PrefillTokens /\ (\A t : VisibleKeys(t)' = VisibleKeys(t)) BY <1>1, Frame
    <3>4. \A t : Covered(chunks, t)' <=> Covered(chunks, t) BY <1>1 DEF Covered
    <3>5. ASSUME NEW t \in PrefillTokens, VisibleKeys(t) = 0 PROVE RowRight(t)'
      <4>1. t \in 0 .. NumTokens - 1
        <5>1. split_decodes_and_prefills \in 0 .. Len(batch) BY <1>2, SplitIs
        <5>2. StartLoc[split_decodes_and_prefills] \in Nat /\ NumTokens \in Nat BY <5>1, <1>2, StartsAre
        <5>3. QED BY <5>2 DEF PrefillTokens
      <4>2. t + 1 \in 1 .. NumTokens
        <5>1. NumTokens \in Nat BY <1>2, StartsAre
        <5>2. QED BY <4>1, <5>1
      <4>3. topk'[t + 1].keys = {} BY <2>1, <4>2 DEF NoRow
      <4>4. VisibleKeys(t)' = 0 BY <3>3, <3>5
      <4>5. QED BY <4>3, <4>4 DEF RowRight
    <3>6. QED BY <2>1, <3>1, <3>2, <3>3, <3>4, <3>5, <1>1 DEF Gathers
  <2>12. QED BY <1>3, <1>4, <1>5, <2>1, <2>10, <2>11 DEF IndexerInv, AllRight
<1>8. QED BY <1>6, <1>7

\* A gather leaves every request of the chunk its keys, where FirstRow looks for them.
LEMMA GatherHolds ==
  ASSUME IndexerType, BatchOk, NEW c, NEW s \in 1 .. Len(batch), NEW e \in s .. Len(batch),
         c.reqs = << s, e >>
  PROVE  Holds(cp_gather_indexer_k_quant_cache(c), s, e)
<1> DEFINE space == cp_gather_indexer_k_quant_cache(c)
           G == GatheredKeys(c)
           len(k) == SeqLen(k) \div Ratio
<1>1. Len(batch) \in Nat BY BatchIs
<1>2. c.reqs[1] = s /\ c.reqs[2] = e OBVIOUS
<1>3. /\ DOMAIN G = 1 .. KeyRows[e] - KeyRows[s - 1]
      /\ \A i \in DOMAIN G : LET row == KeyRows[s - 1] + i - 1
                             IN G[i] = << batch[Interval(KeyRows, row)].req,
                                          row - KeyRows[Interval(KeyRows, row) - 1] >>
  BY <1>2 DEF GatheredKeys
<1>4. \A i \in DOMAIN G : space[i] = << G[i], keyCache[G[i]] >>
  <2> HIDE DEF G
  <2>1. space = Overwrite([i \in DOMAIN G |-> << G[i], keyCache[G[i]] >>], workspace)
    BY DEF cp_gather_indexer_k_quant_cache, G
  <2>2. QED BY <2>1 DEF Overwrite
<1> HIDE DEF G, space
<1>5. ASSUME NEW k \in s .. e, NEW x \in 0 .. len(k) - 1
      PROVE  space[KeyRows[k - 1] - KeyRows[s - 1] + x + 1] =
               << << batch[k].req, x >>, keyCache[<< batch[k].req, x >>] >>
  <2> DEFINE i == KeyRows[k - 1] - KeyRows[s - 1] + x + 1
             row == KeyRows[s - 1] + i - 1
  <2>1. /\ k \in 1 .. Len(batch) /\ k - 1 \in 0 .. Len(batch) /\ s - 1 \in 0 .. Len(batch)
        /\ k \in 0 .. Len(batch) /\ e \in 0 .. Len(batch) /\ s - 1 <= k - 1 /\ k <= e
    BY <1>1
  <2>2. /\ KeyRows[s - 1] \in Nat /\ KeyRows[k - 1] \in Nat /\ KeyRows[k] \in Nat /\ KeyRows[e] \in Nat
        /\ KeyRows[s - 1] <= KeyRows[k - 1] /\ KeyRows[k] <= KeyRows[e]
        /\ KeyRows[k] = KeyRows[k - 1] + len(k)
    BY <2>1, StartsAre
  <2>3. len(k) \in Nat BY <2>1, BatchIs
  <2> HIDE DEF len
  <2>4. /\ i \in 1 .. KeyRows[e] - KeyRows[s - 1] /\ row \in Nat
        /\ KeyRows[k - 1] <= row /\ row < KeyRows[k] /\ row - KeyRows[k - 1] = x
    <3>1. ASSUME NEW a \in Nat, NEW b \in Nat, NEW d \in Nat, NEW f \in Nat, NEW l \in Nat,
                 NEW y \in 0 .. l - 1, a <= b, d <= f, d = b + l
          PROVE  /\ b - a + y + 1 \in 1 .. f - a
                 /\ a + (b - a + y + 1) - 1 \in Nat
                 /\ b <= a + (b - a + y + 1) - 1 /\ a + (b - a + y + 1) - 1 < d
                 /\ (a + (b - a + y + 1) - 1) - b = y
      BY <3>1, SMTT(60)
    <3>2. PICK a \in Nat : a = KeyRows[s - 1] BY <2>2
    <3>3. PICK b \in Nat : b = KeyRows[k - 1] BY <2>2
    <3>4. PICK d \in Nat : d = KeyRows[k] BY <2>2
    <3>5. PICK f \in Nat : f = KeyRows[e] BY <2>2
    <3>6. PICK l \in Nat : l = len(k) BY <2>3
    <3>7. x \in 0 .. l - 1 /\ a <= b /\ d <= f /\ d = b + l BY <2>2, <3>2, <3>3, <3>4, <3>5, <3>6
    <3>8. /\ b - a + x + 1 \in 1 .. f - a
          /\ a + (b - a + x + 1) - 1 \in Nat
          /\ b <= a + (b - a + x + 1) - 1 /\ a + (b - a + x + 1) - 1 < d
          /\ (a + (b - a + x + 1) - 1) - b = x
      BY <3>1, <3>7
    <3>9. i = b - a + x + 1 /\ row = a + (b - a + x + 1) - 1 BY <3>2, <3>3
    <3> HIDE DEF i, row
    <3>10. QED BY <3>2, <3>3, <3>4, <3>5, <3>8, <3>9
  <2> HIDE DEF i, row
  <2>5. Interval(KeyRows, row) = k BY <2>1, <2>4, RowIs
  <2>6. G[i] = << batch[k].req, x >>
    <3>1. row = KeyRows[s - 1] + i - 1 BY DEF row
    <3>2. QED BY <3>1, <2>4, <2>5, <1>3
  <2>7. space[i] = << << batch[k].req, x >>, keyCache[<< batch[k].req, x >>] >>
    BY <2>4, <2>6, <1>3, <1>4
  <2>8. QED BY <2>7 DEF i
<1>6. QED BY <1>5 DEF Holds, space

\* The row a token must have, its keys as they were written.
RightRow(row, t) ==
  /\ row.query = t /\ row.weights = t /\ row.read = key_dtype
  /\ row.keys = { << << batch[Owner(t)].req, x >>,
                     [token |-> tokens[batch[Owner(t)].req][(x + 1) * Ratio - 1], dtype |-> key_dtype] >>
                  : x \in 0 .. VisibleKeys(t) - 1 }

\* A row of the prefill kernel, over a workspace that holds the keys of its chunk.
LEMMA LogitsAreRight ==
  ASSUME IndexerType, BatchOk, NEW c, NEW s \in 1 .. Len(batch), NEW e \in s .. Len(batch),
         c.reqs = << s, e >>, NEW space, Holds(space, s, e),
         \A k \in DOMAIN batch : KeysAre(batch[k].req, SeqLen(k)), Reader = key_dtype,
         NEW t \in Nat, Before(s) <= t, t < Before(e + 1)
  PROVE  t \in 0 .. NumTokens - 1 /\ RightRow(mqa_logits(c, t, space), t)
<1> DEFINE k == Owner(t)
           r == batch[k].req
           v == VisibleKeys(t)
           Current(x) == << << r, x >>, [token |-> tokens[r][(x + 1) * Ratio - 1], dtype |-> key_dtype] >>
<1>1. Len(batch) \in Nat /\ DOMAIN batch = 1 .. Len(batch) BY BatchIs
<1>2. /\ s - 1 \in 0 .. Len(batch) /\ e \in 0 .. Len(batch)
      /\ StartLoc[s - 1] <= t /\ t < StartLoc[e] /\ StartLoc[e] \in Nat
  <2>1. /\ s - 1 \in 0 .. Len(batch) /\ e \in 0 .. Len(batch)
        /\ Before(s) = StartLoc[s - 1] /\ Before(e + 1) = StartLoc[e]
    BY ChunkSizes
  <2>2. StartLoc[e] \in Nat BY <2>1, StartsAre
  <2>3. QED BY <2>1, <2>2
<1>3. t \in 0 .. NumTokens - 1
  <2>1. Len(batch) \in 0 .. Len(batch) /\ e <= Len(batch) BY <1>1
  <2>2. StartLoc[e] <= NumTokens /\ NumTokens \in Nat BY <1>2, <2>1, StartsAre DEF NumTokens
  <2>3. QED BY <1>2, <2>2
<1>4. k \in 1 .. Len(batch) /\ StartLoc[k - 1] <= t /\ t < StartLoc[k] BY <1>3, OwnerFound
<1>5. v \in Nat /\ v <= SeqLen(k) \div Ratio BY <1>3, PositionIs
<1>6. SeqLen(k) \div Ratio \in Nat BY <1>4, BatchIs
<1> HIDE DEF k, v
<1>7. k \in s .. e
  <2>1. k - 1 \in 0 .. Len(batch) /\ k \in 0 .. Len(batch) BY <1>1, <1>4
  <2>2. StartLoc[k - 1] \in Nat /\ StartLoc[k] \in Nat /\ StartLoc[s - 1] \in Nat BY <1>2, <2>1, StartsAre
  <2>3. ~ (k <= s - 1)
    <3>1. k <= s - 1 => StartLoc[k] <= StartLoc[s - 1] BY <1>2, <2>1, StartsAre
    <3>2. QED BY <3>1, <2>2, <1>2, <1>4
  <2>4. ~ (e <= k - 1)
    <3>1. e <= k - 1 => StartLoc[e] <= StartLoc[k - 1] BY <1>2, <2>1, StartsAre
    <3>2. QED BY <3>1, <2>2, <1>2, <1>4
  <2>5. QED BY <2>3, <2>4, <1>1, <1>4
<1>8. ASSUME NEW x \in 0 .. v - 1
      PROVE  space[FirstRow(c, t) + (x + 1)] = Current(x)
  <2>1. x \in 0 .. (SeqLen(k) \div Ratio) - 1 BY <1>5, <1>6
  <2>2. space[KeyRows[k - 1] - KeyRows[s - 1] + x + 1] = << << r, x >>, keyCache[<< r, x >>] >>
    BY <2>1, <1>7 DEF Holds
  <2>3. KeysAre(r, SeqLen(k)) BY <1>1, <1>4
  <2>4. keyCache[<< r, x >>] = [token |-> tokens[r][(x + 1) * Ratio - 1], dtype |-> key_dtype]
    BY <2>1, <2>3 DEF KeysAre
  <2>5. FirstRow(c, t) = KeyRows[k - 1] - KeyRows[s - 1] BY DEF FirstRow, k
  <2>6. KeyRows[k - 1] \in Nat /\ KeyRows[s - 1] \in Nat
    <3>1. k - 1 \in 0 .. Len(batch) BY <1>1, <1>4
    <3>2. QED BY <3>1, <1>2, StartsAre
  <2>7. FirstRow(c, t) + (x + 1) = KeyRows[k - 1] - KeyRows[s - 1] + x + 1
    <3>1. ASSUME NEW a \in Nat, NEW b \in Nat PROVE (a - b) + (x + 1) = a - b + x + 1 BY <1>5
    <3>2. QED BY <3>1, <2>5, <2>6
  <2>8. QED BY <2>2, <2>4, <2>7
<1>9. mqa_logits(c, t, space).keys = { Current(x) : x \in 0 .. v - 1 }
  <2>1. mqa_logits(c, t, space).keys = { space[FirstRow(c, t) + i] : i \in 1 .. v } BY DEF mqa_logits, v
  <2> HIDE DEF Current
  <2>2. ASSUME NEW i \in 1 .. v PROVE \E x \in 0 .. v - 1 : space[FirstRow(c, t) + i] = Current(x)
    <3>1. i - 1 \in 0 .. v - 1 /\ (i - 1) + 1 = i BY <1>5
    <3>2. space[FirstRow(c, t) + ((i - 1) + 1)] = Current(i - 1) BY <3>1, <1>8
    <3>3. space[FirstRow(c, t) + i] = Current(i - 1) BY <3>1, <3>2
    <3>4. QED BY <3>1, <3>3
  <2>3. ASSUME NEW x \in 0 .. v - 1 PROVE \E i \in 1 .. v : space[FirstRow(c, t) + i] = Current(x)
    <3>1. x + 1 \in 1 .. v BY <1>5
    <3>2. QED BY <3>1, <1>8
  <2>4. QED BY <2>1, <2>2, <2>3
<1>10. /\ mqa_logits(c, t, space).query = t /\ mqa_logits(c, t, space).weights = t
       /\ mqa_logits(c, t, space).read = key_dtype
  BY DEF mqa_logits
<1>11. QED BY <1>3, <1>9, <1>10 DEF k, v, RightRow

\* With the formats the op reads in, the row of the kernel is the row the token must have.
LEMMA RowOfKernel ==
  ASSUME IndexerType, Written, ixStage = "prefill"
  PROVE  Reader = key_dtype
<1>1. ixEnv \in IndexerEnvs /\ ~ Refused BY DEF IndexerType
<1>2. Asserted BY DEF Written
<1>3. QED BY <1>1, <1>2, FormatsAgree

LEMMA PrefillInv == IndexerInv /\ prefill => IndexerInv'
<1> SUFFICES ASSUME IndexerInv, prefill PROVE IndexerInv' OBVIOUS
<1> DEFINE c == Head(chunks)
           space == IF c.skip_kv_gather THEN workspace ELSE cp_gather_indexer_k_quant_cache(c)
           mine == c.start .. c.end - 1
<1>1. /\ UNCHANGED << ixEnv, progress, lag, batch, tokens, keyCache, commonLens, decodeLens,
                      expandedLens, decode >>
      /\ ixStage = "prefill" /\ chunks # << >> /\ chunks' = Tail(chunks) /\ workspace' = space
      /\ IF ~ ixEnv.deep_gemm THEN ixStage' = "raised" /\ topk' = topk
         ELSE /\ ixStage' = IF FitsReserved(c) THEN "prefill" ELSE "oom"
              /\ topk' = [t \in DOMAIN topk |-> IF t - 1 \in mine THEN mqa_logits(c, t - 1, space) ELSE topk[t]]
  BY DEF prefill
<1>2. IndexerType /\ BatchOk /\ Written /\ ChunksOk(chunks) /\ DecodeOk /\ Gathers
  BY <1>1 DEF IndexerInv, Planned
<1>3. /\ chunks \in Seq(Chunk) /\ c = chunks[1] /\ 1 \in DOMAIN chunks /\ c \in Chunk
      /\ Tail(chunks) \in Seq(Chunk) /\ Len(chunks) \in Nat /\ DOMAIN chunks = 1 .. Len(chunks)
      /\ DOMAIN Tail(chunks) = 1 .. Len(chunks) - 1
      /\ \A i \in 1 .. Len(chunks) - 1 : Tail(chunks)[i] = chunks[i + 1]
  <2>1. chunks \in Seq(Chunk) BY <1>2 DEF ChunksOk
  <2>2. /\ Tail(chunks) \in Seq(Chunk) /\ Len(Tail(chunks)) = Len(chunks) - 1
        /\ \A i \in 1 .. Len(Tail(chunks)) : Tail(chunks)[i] = chunks[i + 1]
    BY <2>1, <1>1, HeadTailProperties
  <2>3. Len(chunks) \in Nat /\ DOMAIN chunks = 1 .. Len(chunks) BY <2>1, LenProperties
  <2>4. DOMAIN Tail(chunks) = 1 .. Len(chunks) - 1 BY <2>2, LenProperties
  <2>5. c = chunks[1] OBVIOUS
  <2>6. 1 \in DOMAIN chunks
    <3>1. Len(chunks) # 0 BY <2>1, <1>1, EmptySeq
    <3>2. QED BY <3>1, <2>3
  <2>7. c \in Chunk BY <2>1, <2>3, <2>5, <2>6, ElementOfSeq
  <2>8. QED BY <2>1, <2>2, <2>3, <2>4, <2>5, <2>6, <2>7
<1>4. c.start \in Nat /\ c.end \in Nat BY <1>3 DEF Chunk
<1> HIDE DEF c
<1>5. PICK s, e \in DOMAIN batch :
        /\ s <= e /\ c.reqs = << s, e >>
        /\ Before(s) <= c.start /\ c.end <= Before(e + 1)
        /\ FitsReserved(c)
  BY <1>2, <1>3 DEF ChunksOk, ValidChunk
<1>6. s \in 1 .. Len(batch) /\ e \in s .. Len(batch) BY <1>2, <1>5, BatchIs
<1>7. c.reqs[1] = s /\ c.reqs[2] = e BY <1>5
<1>8. Holds(space, s, e)
  <2>1. CASE c.skip_kv_gather BY <2>1, <1>1, <1>2, <1>3, <1>7 DEF Gathers
  <2>2. CASE ~ c.skip_kv_gather BY <2>2, <1>2, <1>5, <1>6, GatherHolds
  <2>3. QED BY <2>1, <2>2
<1> HIDE DEF space
<1>9. ASSUME NEW t \in mine
      PROVE  t \in 0 .. NumTokens - 1 /\ RightRow(mqa_logits(c, t, space), t)
  <2>1. Before(s) \in Nat /\ Before(e + 1) \in Nat
    <3>1. Before(s) = StartLoc[s - 1] /\ Before(e + 1) = StartLoc[e]
          /\ s - 1 \in 0 .. Len(batch) /\ e \in 0 .. Len(batch)
      BY <1>2, <1>6, ChunkSizes
    <3>2. QED BY <3>1, <1>2, StartsAre
  <2>2. t \in Nat /\ Before(s) <= t /\ t < Before(e + 1) BY <2>1, <1>4, <1>5
  <2>3. \A k \in DOMAIN batch : KeysAre(batch[k].req, SeqLen(k)) BY <1>1, <1>2 DEF Written
  <2>4. Reader = key_dtype BY <1>1, <1>2, RowOfKernel
  <2>5. c.reqs = << s, e >> /\ IndexerType /\ BatchOk BY <1>2, <1>5
  <2> HIDE DEF mine
  <2>6. QED BY <2>2, <2>3, <2>4, <2>5, <1>6, <1>8, LogitsAreRight
<1> HIDE DEF mine
<1>10. ixStage' \in {"prefill", "raised"} /\ (ixStage' = "prefill" => ixEnv.deep_gemm) BY <1>1, <1>5
<1>11. IndexerType'
  <2>1. Refused' = Refused BY <1>1, Frame
  <2>2. QED BY <1>1, <1>2, <1>10, <2>1 DEF IndexerType
<1>12. BatchOk'
  <2>1. \A k : SeqLen(k)' = SeqLen(k) BY <1>1, Frame
  <2>2. QED BY <1>1, <1>2, <2>1 DEF BatchOk
<1>13. Planned'
  <2>1. ChunksOk(Tail(chunks))
    <3>1. \A i \in 1 .. Len(chunks) - 1 : i + 1 \in DOMAIN chunks BY <1>3
    <3>2. \A i \in DOMAIN Tail(chunks) : ValidChunk(Tail(chunks)[i]) BY <3>1, <1>2, <1>3 DEF ChunksOk
    <3>3. ASSUME NEW i \in DOMAIN Tail(chunks), i > 1, Tail(chunks)[i].skip_kv_gather
          PROVE  Tail(chunks)[i - 1].reqs = Tail(chunks)[i].reqs
      <4>1. i \in 1 .. Len(chunks) - 1 /\ i - 1 \in 1 .. Len(chunks) - 1 /\ (i + 1) - 1 = i /\ (i - 1) + 1 = i
            /\ i + 1 \in DOMAIN chunks /\ i + 1 > 1
        BY <3>3, <1>3
      <4>2. Tail(chunks)[i] = chunks[i + 1] /\ Tail(chunks)[i - 1] = chunks[i]
        BY <4>1, <1>3
      <4>3. chunks[(i + 1) - 1].reqs = chunks[i + 1].reqs BY <4>1, <4>2, <3>3, <1>2 DEF ChunksOk
      <4>4. QED BY <4>1, <4>2, <4>3
    <3>4. QED BY <3>2, <3>3, <1>3 DEF ChunksOk
  <2>2. ChunksOk(chunks') BY <2>1, <1>1
  <2>3. ChunksOk(chunks)' BY <2>2, <1>1, FrameChunks
  <2>4. split_decodes_and_prefills' = split_decodes_and_prefills /\ StartLoc' = StartLoc BY <1>1, Frame
  <2>5. DecodeOk' BY <1>1, <1>2, <2>4, FrameChunks DEF DecodeOk, NoDecode
  <2>6. QED BY <2>3, <2>5 DEF Planned
<1>14. DOMAIN topk = 1 .. NumTokens /\ DOMAIN topk' = 1 .. NumTokens
  <2>1. DOMAIN topk = 1 .. NumTokens BY <1>1, <1>2 DEF Written
  <2>2. QED BY <2>1, <1>1
<1>15. Written'
  <2>1. \A r, n : KeysAre(r, n)' <=> KeysAre(r, n) BY <1>1, FrameRows
  <2>2. /\ \A r \in Requests : KeysAre(r, progress[r])
        /\ \A k \in DOMAIN batch : KeysAre(batch[k].req, SeqLen(k))
        /\ Asserted
    BY <1>1, <1>2 DEF Written
  <2>3. Asserted' /\ NumTokens' = NumTokens /\ \A k : SeqLen(k)' = SeqLen(k) BY <1>1, <2>2, Frame
  <2>4. \A r \in Requests : KeysAre(r, progress[r])' BY <2>1, <2>2, <1>1
  <2>5. \A k \in DOMAIN batch : KeysAre(batch[k].req, SeqLen(k))' BY <2>1, <2>2, <2>3, <1>1
  <2>6. QED BY <2>3, <2>4, <2>5, <1>1, <1>14 DEF Written
<1>16. ASSUME ixEnv.deep_gemm, NEW t \in 0 .. NumTokens - 1, t \in mine PROVE RowRight(t)'
  <2>1. NumTokens \in Nat BY <1>2, StartsAre
  <2>2. t + 1 \in DOMAIN topk /\ (t + 1) - 1 = t BY <2>1, <1>14
  <2>3. topk'[t + 1] = mqa_logits(c, t, space) BY <2>2, <1>1, <1>16
  <2>4. RightRow(topk'[t + 1], t) BY <2>3, <1>9, <1>16
  <2>5. Ratio' = Ratio /\ Owner(t)' = Owner(t) /\ VisibleKeys(t)' = VisibleKeys(t) /\ key_dtype' = key_dtype
    BY <1>1, Frame
  <2>6. RightRow(topk[t + 1], t)' BY <2>4, <2>5, <1>1 DEF RightRow
  <2>7. VisibleKeys(t)' = 0 => 0 .. VisibleKeys(t)' - 1 = {} OBVIOUS
  <2>8. VisibleKeys(t)' = 0 => topk'[t + 1].keys = {} BY <2>6, <2>7 DEF RightRow
  <2>9. QED BY <2>6, <2>8 DEF RightRow, RowRight
<1>17. ASSUME NEW t \in 0 .. NumTokens - 1, t \notin mine, RowRight(t) PROVE RowRight(t)'
  <2>1. NumTokens \in Nat BY <1>2, StartsAre
  <2>2. t + 1 \in DOMAIN topk /\ (t + 1) - 1 = t BY <2>1, <1>14
  <2>3. topk'[t + 1] = topk[t + 1] BY <2>2, <1>1, <1>17
  <2>4. Ratio' = Ratio /\ Owner(t)' = Owner(t) /\ VisibleKeys(t)' = VisibleKeys(t) BY <1>1, Frame
  <2>5. QED BY <2>3, <2>4, <1>1, <1>17 DEF RowRight
<1>18. ASSUME ixStage' = "prefill" PROVE Gathers'
  <2>1. ixEnv.deep_gemm BY <1>18, <1>10
  <2>2. ASSUME chunks' # << >>, chunks'[1].skip_kv_gather
        PROVE  Holds(workspace, chunks[1].reqs[1], chunks[1].reqs[2])'
    <3>1. chunks' = Tail(chunks) /\ Len(chunks') = Len(chunks) - 1 /\ Len(chunks') # 0
      <4>1. chunks' = Tail(chunks) /\ chunks \in Seq(Chunk) BY <1>1, <1>3
      <4>2. Len(Tail(chunks)) = Len(chunks) - 1 BY <4>1, <1>1, HeadTailProperties
      <4>3. Tail(chunks) # << >> BY <2>2, <4>1
      <4>4. Len(Tail(chunks)) # 0 BY <4>3, <1>3, EmptySeq
      <4>5. QED BY <4>1, <4>2, <4>4
    <3>2. 1 \in 1 .. Len(chunks) - 1 /\ 2 \in DOMAIN chunks /\ 2 > 1 /\ 2 - 1 = 1 /\ 1 + 1 = 2
      BY <3>1, <1>3
    <3>3. chunks'[1] = chunks[2] BY <3>1, <3>2, <1>3
    <3>4. chunks[2 - 1].reqs = chunks[2].reqs BY <3>2, <3>3, <2>2, <1>2 DEF ChunksOk
    <3>5. chunks'[1].reqs[1] = s /\ chunks'[1].reqs[2] = e BY <3>2, <3>3, <3>4, <1>3, <1>7
    <3>6. \A w, a, b : Holds(w, a, b)' <=> Holds(w, a, b) BY <1>1, FrameRows
    <3>7. Holds(workspace', s, e) BY <1>1, <1>8
    <3>8. Holds(workspace', chunks'[1].reqs[1], chunks'[1].reqs[2]) BY <3>5, <3>7
    <3>9. QED BY <3>6, <3>8
  <2>3. ASSUME NEW t \in PrefillTokens PROVE Covered(chunks, t)' \/ RowRight(t)'
    <3>1. t \in 0 .. NumTokens - 1 /\ t \in Nat
      <4>1. split_decodes_and_prefills \in 0 .. Len(batch) BY <1>2, SplitIs
      <4>2. StartLoc[split_decodes_and_prefills] \in Nat /\ NumTokens \in Nat BY <4>1, <1>2, StartsAre
      <4>3. QED BY <4>2 DEF PrefillTokens
    <3>2. CASE t \in mine BY <3>1, <3>2, <2>1, <1>16
    <3>3. CASE t \notin mine
      <4>1. Covered(chunks, t) \/ RowRight(t) BY <1>1, <1>2 DEF Gathers
      <4>2. CASE RowRight(t) BY <4>2, <3>1, <3>3, <1>17
      <4>3. CASE Covered(chunks, t)
        <5>1. PICK i \in DOMAIN chunks : chunks[i].start <= t /\ t < chunks[i].end BY <4>3 DEF Covered
        <5>2. i # 1 BY <5>1, <3>1, <3>3, <1>3, <1>4 DEF mine
        <5>3. i - 1 \in 1 .. Len(chunks) - 1 /\ (i - 1) + 1 = i BY <5>2, <1>3
        <5>4. i - 1 \in DOMAIN chunks' /\ chunks'[i - 1] = chunks[i] BY <5>3, <1>1, <1>3
        <5>5. QED BY <5>1, <5>4 DEF Covered
      <4>4. QED BY <4>1, <4>2, <4>3
    <3>4. QED BY <3>2, <3>3
  <2>4. PrefillTokens' = PrefillTokens BY <1>1, Frame
  <2>5. QED BY <2>2, <2>3, <2>4, <1>18 DEF Gathers
<1>19. Gathers' BY <1>10, <1>18 DEF Gathers
<1>20. QED BY <1>10, <1>11, <1>12, <1>13, <1>15, <1>19 DEF IndexerInv, AllRight

\* The rows of the decode kernel, once the plan of the builder is right for the step.
LEMMA DecodeRowsAreRight ==
  ASSUME IndexerType, BatchOk, Written, ixStage = "prefill", ixEnv.deep_gemm,
         split_decodes_and_prefills # 0, DecodeOk
  PROVE  /\ ~ decode.padding
         /\ DOMAIN DecodeRows = 1 .. StartLoc[split_decodes_and_prefills]
         /\ \A t \in 0 .. StartLoc[split_decodes_and_prefills] - 1 :
              t \in 0 .. NumTokens - 1 /\ RightRow(DecodeRows[t + 1], t)
<1> DEFINE lens == [common |-> commonLens, decode |-> decodeLens, expanded |-> expandedLens]
           n == StartLoc[split_decodes_and_prefills]
           rows == Len(decode.lens)
           cols == n \div rows
<1>1. /\ ~ decode.padding
      /\ Cumsum(decode.lens)[rows] = n /\ cols \in Nat \ {0} /\ rows * cols = n
      /\ \A t \in 0 .. n - 1 :
           /\ decode.tables[(t \div cols) + 1] = batch[Owner(t)].req
           /\ ViewOf(decode, lens)[t + 1] = VisibleKeys(t)
      /\ decode.schedule = [lens |-> ViewOf(decode, lens), cols |-> cols,
                            metadata_extra |-> indexer_n_head > 0]
  BY DEF DecodeOk, PlanRight
<1>2. ContextLens = ViewOf(decode, lens) BY DEF ContextLens, ViewOf
<1>3. Reader = key_dtype /\ (indexer_n_head > 0 <=> Reader = "fp4")
  <2>1. ixEnv \in IndexerEnvs /\ ~ Refused /\ Asserted BY DEF IndexerType, Written
  <2>2. QED BY <2>1, FormatsAgree
<1>4. n \in Nat /\ n <= NumTokens /\ NumTokens \in Nat
  <2>1. split_decodes_and_prefills \in 0 .. Len(batch) /\ Len(batch) \in Nat BY SplitIs, BatchIs
  <2>2. Len(batch) \in 0 .. Len(batch) /\ split_decodes_and_prefills <= Len(batch) BY <2>1
  <2>3. QED BY <2>1, <2>2, StartsAre DEF NumTokens
<1> HIDE DEF n, lens
<1>5. DecodeCols = cols BY <1>1 DEF DecodeCols, DecodeTokens
<1> HIDE DEF cols
<1>6. DOMAIN pack_seq = 1 .. n /\ \A i \in 1 .. n : pack_seq[i] = i - 1 BY <1>1, <1>5 DEF pack_seq
<1> HIDE DEF rows
<1>7. Scheduled BY <1>1, <1>2, <1>3, <1>5 DEF Scheduled
<1>8. DOMAIN DecodeRows = 1 .. n /\ \A i \in 1 .. n : DecodeRows[i] = paged_mqa_logits(i)
  BY <1>6, <1>7 DEF DecodeRows
<1>9. ASSUME NEW t \in 0 .. n - 1
      PROVE  t \in 0 .. NumTokens - 1 /\ RightRow(DecodeRows[t + 1], t)
  <2> DEFINE r == batch[Owner(t)].req
  <2>1. t \in 0 .. NumTokens - 1 /\ t + 1 \in 1 .. n /\ (t + 1) - 1 = t BY <1>4
  <2>2. Owner(t) \in 1 .. Len(batch) /\ VisibleKeys(t) \in Nat /\ VisibleKeys(t) <= SeqLen(Owner(t)) \div Ratio
    BY <2>1, PositionIs
  <2>3. KeysAre(r, SeqLen(Owner(t))) /\ SeqLen(Owner(t)) \div Ratio \in Nat
    <3>1. DOMAIN batch = 1 .. Len(batch) BY BatchIs
    <3>2. KeysAre(r, SeqLen(Owner(t))) BY <3>1, <2>2 DEF Written
    <3>3. QED BY <3>2, <2>2, BatchIs
  <2>4. DecodeRows[t + 1] = paged_mqa_logits(t + 1) BY <2>1, <1>8
  <2>5. decode.tables[(((t + 1) - 1) \div DecodeCols) + 1] = r BY <2>1, <1>1, <1>5
  <2>6. ContextLens[t + 1] = VisibleKeys(t) BY <1>1, <1>2
  <2> HIDE DEF r
  <2>7. /\ DecodeRows[t + 1].query = t /\ DecodeRows[t + 1].weights = t /\ DecodeRows[t + 1].read = key_dtype
        /\ DecodeRows[t + 1].keys =
             { << << r, x >>, keyCache[<< r, x >>] >> : x \in 0 .. VisibleKeys(t) - 1 }
    BY <2>1, <2>4, <2>5, <2>6, <1>3, <1>6 DEF paged_mqa_logits
  <2>8. \A x \in 0 .. VisibleKeys(t) - 1 :
          keyCache[<< r, x >>] = [token |-> tokens[r][(x + 1) * Ratio - 1], dtype |-> key_dtype]
    <3>1. \A x \in 0 .. VisibleKeys(t) - 1 : x \in 0 .. (SeqLen(Owner(t)) \div Ratio) - 1 BY <2>2, <2>3
    <3>2. QED BY <3>1, <2>3 DEF KeysAre
  <2>9. { << << r, x >>, keyCache[<< r, x >>] >> : x \in 0 .. VisibleKeys(t) - 1 }
          = { << << r, x >>, [token |-> tokens[r][(x + 1) * Ratio - 1], dtype |-> key_dtype] >>
              : x \in 0 .. VisibleKeys(t) - 1 }
    BY <2>8
  <2>10. QED BY <2>1, <2>7, <2>9 DEF RightRow, r
<1>10. QED BY <1>1, <1>8, <1>9 DEF n

LEMMA DecodeInv == IndexerInv /\ decodeRows => IndexerInv'
<1> SUFFICES ASSUME IndexerInv, decodeRows PROVE IndexerInv' OBVIOUS
<1> DEFINE n == StartLoc[split_decodes_and_prefills]
<1>1. /\ UNCHANGED << ixEnv, progress, lag, batch, tokens, keyCache, commonLens, decodeLens,
                      expandedLens, chunks, decode >>
      /\ ixStage = "prefill" /\ chunks = << >> /\ decode # NoDecode
      /\ ixStage' = IF ixEnv.deep_gemm THEN "served" ELSE "raised"
  BY DEF decodeRows
<1>2. IndexerType /\ BatchOk /\ Written /\ DecodeOk /\ Gathers BY <1>1 DEF IndexerInv, Planned
<1>3. IndexerType'
  <2>1. Refused' = Refused BY <1>1, Frame
  <2>2. QED BY <1>1, <1>2, <2>1 DEF IndexerType
<1>4. BatchOk'
  <2>1. \A k : SeqLen(k)' = SeqLen(k) BY <1>1, Frame
  <2>2. QED BY <1>1, <1>2, <2>1 DEF BatchOk
<1>5. CASE ~ ixEnv.deep_gemm
  <2>1. \A r \in Requests : KeysAre(r, progress[r])' BY <1>1, <1>2, FrameRows DEF Written
  <2>2. ixStage' = "raised" BY <1>1, <1>5
  <2>3. QED BY <1>3, <1>4, <2>1, <2>2 DEF IndexerInv, Planned, Gathers, Written, AllRight
<1>6. CASE ixEnv.deep_gemm
  <2>1. ixStage' = "served" BY <1>1, <1>6
  <2>2. split_decodes_and_prefills # 0 BY <1>1, <1>2 DEF DecodeOk
  <2>3. /\ ~ decode.padding
        /\ DOMAIN DecodeRows = 1 .. n
        /\ \A t \in 0 .. n - 1 : t \in 0 .. NumTokens - 1 /\ RightRow(DecodeRows[t + 1], t)
    BY <2>2, <1>1, <1>2, <1>6, DecodeRowsAreRight
  <2>4. topk' = Overwrite(DecodeRows, topk) BY <2>3, <1>6 DEF decodeRows
  <2>5. n \in Nat /\ n <= NumTokens /\ NumTokens \in Nat
    <3>1. split_decodes_and_prefills \in 0 .. Len(batch) /\ Len(batch) \in Nat BY <1>2, SplitIs, BatchIs
    <3>2. Len(batch) \in 0 .. Len(batch) /\ split_decodes_and_prefills <= Len(batch) BY <3>1
    <3>3. QED BY <3>1, <3>2, <1>2, StartsAre DEF NumTokens
  <2>6. PrefillTokens = n .. NumTokens - 1 BY DEF PrefillTokens
  <2> HIDE DEF n
  <2>7. DOMAIN topk = 1 .. NumTokens BY <1>1, <1>2 DEF Written
  <2>8. DOMAIN topk' = 1 .. NumTokens BY <2>3, <2>4, <2>5, <2>7 DEF Overwrite
  <2>9. Written'
    <3>1. \A r, l : KeysAre(r, l)' <=> KeysAre(r, l) BY <1>1, FrameRows
    <3>2. /\ \A r \in Requests : KeysAre(r, progress[r])
          /\ \A k \in DOMAIN batch : KeysAre(batch[k].req, SeqLen(k))
          /\ Asserted
      BY <1>1, <1>2 DEF Written
    <3>3. Asserted' /\ NumTokens' = NumTokens /\ \A k : SeqLen(k)' = SeqLen(k) BY <1>1, <3>2, Frame
    <3>4. \A r \in Requests : KeysAre(r, progress[r])' BY <3>1, <3>2, <1>1
    <3>5. \A k \in DOMAIN batch : KeysAre(batch[k].req, SeqLen(k))' BY <3>1, <3>2, <3>3, <1>1
    <3>6. QED BY <3>3, <3>4, <3>5, <2>8, <1>1 DEF Written
  <2>10. ASSUME NEW t \in 0 .. NumTokens - 1 PROVE RowRight(t)'
    <3>1. /\ Ratio' = Ratio /\ Owner(t)' = Owner(t) /\ VisibleKeys(t)' = VisibleKeys(t)
          /\ key_dtype' = key_dtype
      BY <1>1, Frame
    <3>2. CASE t < n
      <4>1. t \in 0 .. n - 1 /\ t + 1 \in 1 .. n BY <3>2, <2>5
      <4>2. topk'[t + 1] = DecodeRows[t + 1] BY <4>1, <2>3, <2>4 DEF Overwrite
      <4>3. RightRow(topk'[t + 1], t) BY <4>1, <4>2, <2>3
      <4>4. RightRow(topk[t + 1], t)' BY <4>3, <3>1, <1>1 DEF RightRow
      <4>5. VisibleKeys(t)' = 0 => 0 .. VisibleKeys(t)' - 1 = {} OBVIOUS
      <4>6. VisibleKeys(t)' = 0 => topk'[t + 1].keys = {} BY <4>4, <4>5 DEF RightRow
      <4>7. QED BY <4>4, <4>6 DEF RightRow, RowRight
    <3>3. CASE ~ (t < n)
      <4>1. t \in PrefillTokens /\ t + 1 \notin 1 .. n /\ t + 1 \in 1 .. NumTokens BY <3>3, <2>5, <2>6
      <4>2. topk'[t + 1] = topk[t + 1] BY <4>1, <2>3, <2>4, <2>7 DEF Overwrite
      <4>3. ~ Covered(chunks, t) BY <1>1 DEF Covered
      <4>4. RowRight(t) BY <4>1, <4>3, <1>1, <1>2 DEF Gathers
      <4>5. QED BY <4>2, <4>4, <3>1, <1>1 DEF RowRight
    <3>4. QED BY <3>2, <3>3
  <2>11. AllRight'
    <3>1. NumTokens' = NumTokens BY <1>1, Frame
    <3>2. QED BY <3>1, <2>10 DEF AllRight
  <2>12. QED BY <1>3, <1>4, <2>1, <2>9, <2>11 DEF IndexerInv, Planned, Gathers
<1>7. QED BY <1>5, <1>6

LEMMA PrefillOnlyInv == IndexerInv /\ prefillOnly => IndexerInv'
<1> SUFFICES ASSUME IndexerInv, prefillOnly PROVE IndexerInv' OBVIOUS
<1>1. /\ UNCHANGED << ixEnv, progress, lag, batch, tokens, keyCache, commonLens, topk >>
      /\ ixStage = "prefill" /\ chunks = << >> /\ decode = NoDecode /\ ixStage' = "served"
  BY DEF prefillOnly
<1>2. IndexerType /\ BatchOk /\ Written /\ DecodeOk /\ Gathers BY <1>1 DEF IndexerInv, Planned
<1>3. IndexerType'
  <2>1. Refused' = Refused BY <1>1, Frame
  <2>2. QED BY <1>1, <1>2, <2>1 DEF IndexerType
<1>4. BatchOk'
  <2>1. \A k : SeqLen(k)' = SeqLen(k) BY <1>1, Frame
  <2>2. QED BY <1>1, <1>2, <2>1 DEF BatchOk
<1>5. Written'
  <2>1. \A r, l : KeysAre(r, l)' <=> KeysAre(r, l) BY <1>1, FrameRows
  <2>2. /\ \A r \in Requests : KeysAre(r, progress[r])
        /\ \A k \in DOMAIN batch : KeysAre(batch[k].req, SeqLen(k))
        /\ Asserted /\ DOMAIN topk = 1 .. NumTokens
    BY <1>1, <1>2 DEF Written
  <2>3. Asserted' /\ NumTokens' = NumTokens /\ \A k : SeqLen(k)' = SeqLen(k) BY <1>1, <2>2, Frame
  <2>4. \A r \in Requests : KeysAre(r, progress[r])' BY <2>1, <2>2, <1>1
  <2>5. \A k \in DOMAIN batch : KeysAre(batch[k].req, SeqLen(k))' BY <2>1, <2>2, <2>3, <1>1
  <2>6. QED BY <2>2, <2>3, <2>4, <2>5, <1>1 DEF Written
<1>6. PrefillTokens = 0 .. NumTokens - 1
  <2>1. split_decodes_and_prefills = 0 BY <1>1, <1>2 DEF DecodeOk, PlanRight
  <2>2. StartLoc[0] = 0 BY <1>2, StartsAre
  <2>3. QED BY <2>1, <2>2 DEF PrefillTokens
<1>7. AllRight'
  <2>1. ASSUME NEW t \in 0 .. NumTokens - 1 PROVE RowRight(t)'
    <3>1. Ratio' = Ratio /\ Owner(t)' = Owner(t) /\ VisibleKeys(t)' = VisibleKeys(t) BY <1>1, Frame
    <3>2. ~ Covered(chunks, t) BY <1>1 DEF Covered
    <3>3. RowRight(t) BY <3>2, <1>1, <1>2, <1>6 DEF Gathers
    <3>4. QED BY <3>1, <3>3, <1>1 DEF RowRight
  <2>2. NumTokens' = NumTokens BY <1>1, Frame
  <2>3. QED BY <2>1, <2>2 DEF AllRight
<1>8. QED BY <1>1, <1>3, <1>4, <1>5, <1>7 DEF IndexerInv, Planned, Gathers

LEMMA AcceptInv == IndexerInv /\ Accept => IndexerInv'
<1> SUFFICES ASSUME IndexerInv, Accept PROVE IndexerInv' OBVIOUS
<1> DEFINE K(r) == CHOOSE k \in DOMAIN batch : batch[k].req = r
           In(r) == \E k \in DOMAIN batch : batch[k].req = r
<1>1. PICK kept \in [DOMAIN batch -> 1 .. IndexerContext] :
        /\ \A k \in DOMAIN batch :
             kept[k] \in (IF progress[batch[k].req] < IndexerPrompts[batch[k].req]
                          THEN {QueryLen(k)} ELSE 1 .. QueryLen(k))
        /\ progress' = [r \in Requests |-> IF In(r) THEN progress[r] + kept[K(r)] ELSE progress[r]]
        /\ lag' = [r \in Requests |-> IF In(r) THEN QueryLen(K(r)) - kept[K(r)] ELSE lag[r]]
        /\ tokens' = [r \in Requests |-> [p \in DOMAIN tokens[r] |->
             IF In(r) /\ p >= progress[r] + kept[K(r)] /\ p < progress[r] + QueryLen(K(r))
             THEN tokens[r][p] + 1 ELSE tokens[r][p]]]
  BY DEF Accept
<1>2. ixStage = "served" /\ ixStage' = "idle" /\ UNCHANGED << ixEnv, keyCache >> BY DEF Accept
<1>3. IndexerType /\ BatchOk /\ Written BY <1>2 DEF IndexerInv
<1>4. IndexerContext \in Nat BY IndexerAssumption
<1>5. \A r : In(r) => K(r) \in DOMAIN batch /\ batch[K(r)].req = r OBVIOUS
<1> HIDE DEF K, In
<1>6. ASSUME NEW r, In(r)
      PROVE  /\ QueryLen(K(r)) \in Nat /\ kept[K(r)] \in Nat
             /\ kept[K(r)] <= QueryLen(K(r)) /\ SeqLen(K(r)) = progress[r] + QueryLen(K(r))
             /\ SeqLen(K(r)) <= IndexerContext /\ progress[r] \in Nat
             /\ KeysAre(r, SeqLen(K(r)))
  <2> DEFINE k == K(r)
  <2>1. k \in DOMAIN batch /\ batch[k].req = r BY <1>5, <1>6
  <2> HIDE DEF k
  <2>2. /\ QueryLen(k) \in Nat \ {0} /\ SeqLen(k) = progress[r] + QueryLen(k)
        /\ SeqLen(k) <= IndexerContext /\ progress[r] \in Nat
    BY <2>1, <1>3, BatchIs
  <2>3. kept[k] \in (IF progress[r] < IndexerPrompts[r] THEN {QueryLen(k)} ELSE 1 .. QueryLen(k))
    BY <2>1, <1>1
  <2>4. kept[k] \in Nat /\ kept[k] <= QueryLen(k) BY <2>2, <2>3
  <2>5. KeysAre(r, SeqLen(k)) BY <2>1, <1>2, <1>3 DEF Written
  <2>6. QED BY <2>2, <2>4, <2>5 DEF k
<1>7. \A r \in Requests : /\ progress[r] \in 0 .. IndexerContext /\ lag[r] \in Nat
                          /\ tokens[r] \in [0 .. IndexerContext - 1 -> Nat]
  BY <1>3 DEF IndexerType
<1>8. Ratio' = Ratio /\ key_dtype' = key_dtype /\ Refused' = Refused
  BY <1>2 DEF Ratio, key_dtype, compress_norm_rope_store_triton, q_dtype, fused_indexer_q_rope_quant,
     IndexerFormat, UseFp4Cache, Patched, dsa_indexer_uses_fp4, UpstreamUsesFp4, use_ppu_int8_indexer, Refused
<1>9. IndexerType'
  <2>1. progress' \in [Requests -> 0 .. IndexerContext]
    <3>1. ASSUME NEW r \in Requests
          PROVE  (IF In(r) THEN progress[r] + kept[K(r)] ELSE progress[r]) \in 0 .. IndexerContext
      <4>1. CASE In(r)
        <5>1. ASSUME NEW p \in Nat, NEW q \in Nat, NEW u \in Nat, u <= q, p + q <= IndexerContext
              PROVE  p + u \in 0 .. IndexerContext
          BY <5>1, <1>4
        <5>2. progress[r] + kept[K(r)] \in 0 .. IndexerContext BY <5>1, <4>1, <1>6
        <5>3. QED BY <4>1, <5>2
      <4>2. CASE ~ In(r) BY <4>2, <1>7
      <4>3. QED BY <4>1, <4>2
    <3>2. QED BY <3>1, <1>1
  <2>2. lag' \in [Requests -> Nat]
    <3>1. ASSUME NEW r \in Requests
          PROVE  (IF In(r) THEN QueryLen(K(r)) - kept[K(r)] ELSE lag[r]) \in Nat
      <4>1. CASE In(r)
        <5>1. ASSUME NEW q \in Nat, NEW u \in Nat, u <= q PROVE q - u \in Nat BY <5>1
        <5>2. QueryLen(K(r)) - kept[K(r)] \in Nat BY <5>1, <4>1, <1>6
        <5>3. QED BY <4>1, <5>2
      <4>2. CASE ~ In(r) BY <4>2, <1>7
      <4>3. QED BY <4>1, <4>2
    <3>2. QED BY <3>1, <1>1
  <2>3. tokens' \in [Requests -> [0 .. IndexerContext - 1 -> Nat]]
    <3> DEFINE G(r, p) == IF In(r) /\ p >= progress[r] + kept[K(r)] /\ p < progress[r] + QueryLen(K(r))
                          THEN tokens[r][p] + 1 ELSE tokens[r][p]
    <3>1. tokens' = [r \in Requests |-> [p \in DOMAIN tokens[r] |-> G(r, p)]] BY <1>1
    <3>2. ASSUME NEW r \in Requests, NEW p \in 0 .. IndexerContext - 1 PROVE G(r, p) \in Nat
      <4>1. tokens[r][p] \in Nat BY <1>7
      <4>2. QED BY <4>1
    <3> HIDE DEF G
    <3>3. \A r \in Requests : DOMAIN tokens[r] = 0 .. IndexerContext - 1 BY <1>7
    <3>4. QED BY <3>1, <3>2, <3>3
  <2>4. QED BY <1>2, <1>3, <1>8, <2>1, <2>2, <2>3 DEF IndexerType
<1>10. ASSUME NEW r \in Requests, NEW x \in 0 .. (progress'[r] \div Ratio) - 1
       PROVE  /\ << r, x >> \in DOMAIN keyCache
              /\ keyCache[<< r, x >>] = [token |-> tokens'[r][(x + 1) * Ratio - 1], dtype |-> key_dtype]
  <2> DEFINE p == (x + 1) * Ratio - 1
  <2>1. Ratio \in {1, 2} BY DEF Ratio
  <2>2. progress'[r] \in 0 .. IndexerContext BY <1>9 DEF IndexerType
  <2>3. p \in 0 .. IndexerContext - 1 /\ p < progress'[r] /\ x \in Nat /\ x < progress'[r] \div Ratio
    <3>1. CASE Ratio = 1 BY <3>1, <2>2, <1>4
    <3>2. CASE Ratio = 2 BY <3>2, <2>2, <1>4
    <3>3. QED BY <3>1, <3>2, <2>1
  <2> HIDE DEF p
  <2>4. CASE In(r)
    <3>1. progress'[r] = progress[r] + kept[K(r)] BY <2>4, <1>1
    <3>2. tokens'[r][p] = tokens[r][p]
      <4>1. ~ (p >= progress[r] + kept[K(r)])
        <5>1. progress[r] + kept[K(r)] \in Nat BY <2>4, <1>6
        <5>2. QED BY <5>1, <3>1, <2>3
      <4>2. p \in DOMAIN tokens[r] BY <2>3, <1>7
      <4>3. QED BY <4>1, <4>2, <1>1
    <3>3. x \in 0 .. (SeqLen(K(r)) \div Ratio) - 1
      <4>1. progress'[r] <= SeqLen(K(r)) /\ SeqLen(K(r)) \in Nat /\ progress'[r] \in Nat
        <5>1. ASSUME NEW a \in Nat, NEW q \in Nat, NEW u \in Nat, u <= q PROVE a + u <= a + q /\ a + q \in Nat
          BY <5>1
        <5>2. progress[r] + kept[K(r)] <= progress[r] + QueryLen(K(r)) /\ progress[r] + QueryLen(K(r)) \in Nat
          BY <5>1, <2>4, <1>6
        <5>3. SeqLen(K(r)) = progress[r] + QueryLen(K(r)) BY <2>4, <1>6
        <5>4. QED BY <5>2, <5>3, <3>1, <2>2, <1>4
      <4>2. CASE Ratio = 1 BY <4>1, <4>2, <2>3
      <4>3. CASE Ratio = 2 BY <4>1, <4>3, <2>3
      <4>4. QED BY <4>2, <4>3, <2>1
    <3>4. KeysAre(r, SeqLen(K(r))) BY <2>4, <1>6
    <3>5. QED BY <3>2, <3>3, <3>4 DEF KeysAre, p
  <2>5. CASE ~ In(r)
    <3>1. progress'[r] = progress[r] BY <2>5, <1>1
    <3>2. tokens'[r][p] = tokens[r][p]
      <4>1. p \in DOMAIN tokens[r] BY <2>3, <1>7
      <4>2. QED BY <4>1, <2>5, <1>1
    <3>3. KeysAre(r, progress[r]) BY <1>3 DEF Written
    <3>4. QED BY <3>1, <3>2, <3>3 DEF KeysAre, p
  <2>6. QED BY <2>4, <2>5
<1>11. \A r \in Requests : KeysAre(r, progress[r])' BY <1>2, <1>8, <1>10 DEF KeysAre
<1>12. QED BY <1>2, <1>9, <1>11 DEF IndexerInv, Planned, Gathers, Written, AllRight

LEMMA NextInv == IndexerInv /\ [IndexerNext]_ixVars => IndexerInv'
<1> SUFFICES ASSUME IndexerInv, [IndexerNext]_ixVars PROVE IndexerInv' OBVIOUS
<1>1. CASE construct BY <1>1, ConstructInv
<1>2. CASE ScheduleStep BY <1>2, ScheduleInv
<1>3. CASE build BY <1>3, BuildInv
<1>4. CASE insert BY <1>4, InsertInv
<1>5. CASE prefill BY <1>5, PrefillInv
<1>6. CASE decodeRows BY <1>6, DecodeInv
<1>7. CASE prefillOnly BY <1>7, PrefillOnlyInv
<1>8. CASE Accept BY <1>8, AcceptInv
<1>9. CASE UNCHANGED ixVars
  <2>1. UNCHANGED << ixEnv, progress, tokens, lag, keyCache, batch, commonLens, decodeLens,
                     expandedLens, chunks, decode, workspace, topk, ixStage >>
    BY <1>9 DEF ixVars
  <2>2. IndexerType'
    <3>1. Refused' = Refused BY <2>1, Frame
    <3>2. QED BY <2>1, <3>1 DEF IndexerInv, IndexerType
  <2>3. \A k : SeqLen(k)' = SeqLen(k) BY <2>1, Frame
  <2>4. ixStage' \in {"build", "insert", "prefill", "served"} => BatchOk'
    BY <2>1, <2>3 DEF IndexerInv, BatchOk
  <2>5. Planned'
    <3>1. split_decodes_and_prefills' = split_decodes_and_prefills /\ StartLoc' = StartLoc BY <2>1, Frame
    <3>2. DecodeOk' <=> DecodeOk BY <2>1, <3>1, FrameChunks DEF DecodeOk, NoDecode
    <3>3. ChunksOk(chunks)' <=> ChunksOk(chunks) BY <2>1, FrameChunks
    <3>4. QED BY <2>1, <3>2, <3>3 DEF IndexerInv, Planned
  <2>6. \A t : RowRight(t)' <=> RowRight(t)
    <3>1. Ratio' = Ratio /\ \A t : Owner(t)' = Owner(t) /\ VisibleKeys(t)' = VisibleKeys(t) BY <2>1, Frame
    <3>2. QED BY <2>1, <3>1 DEF RowRight
  <2>7. Gathers'
    <3>1. PrefillTokens' = PrefillTokens /\ (\A t : VisibleKeys(t)' = VisibleKeys(t)) BY <2>1, Frame
    <3>2. \A t : Covered(chunks, t)' <=> Covered(chunks, t) BY <2>1 DEF Covered
    <3>3. Holds(workspace, chunks[1].reqs[1], chunks[1].reqs[2])'
            <=> Holds(workspace, chunks[1].reqs[1], chunks[1].reqs[2])
      BY <2>1, FrameRows
    <3>4. QED BY <2>1, <2>6, <3>1, <3>2, <3>3 DEF IndexerInv, Gathers
  <2>8. Written'
    <3>1. \A r, l : KeysAre(r, l)' <=> KeysAre(r, l) BY <2>1, FrameRows
    <3>2. Asserted' = Asserted /\ NumTokens' = NumTokens BY <2>1, Frame
    <3>3. (\A r \in Requests : KeysAre(r, progress[r]))' BY <2>1, <3>1 DEF IndexerInv, Written
    <3>4. ixStage \in {"prefill", "served"} => (\A k \in DOMAIN batch : KeysAre(batch[k].req, SeqLen(k)))'
      BY <2>1, <2>3, <3>1 DEF IndexerInv, Written
    <3>5. QED BY <2>1, <3>2, <3>3, <3>4 DEF IndexerInv, Written
  <2>9. AllRight'
    <3>1. NumTokens' = NumTokens BY <2>1, Frame
    <3>2. QED BY <2>1, <2>6, <3>1 DEF IndexerInv, AllRight
  <2>10. QED BY <2>2, <2>4, <2>5, <2>7, <2>8, <2>9 DEF IndexerInv
<1>10. QED BY <1>1, <1>2, <1>3, <1>4, <1>5, <1>6, <1>7, <1>8, <1>9 DEF IndexerNext

\* The invariant holds in every reachable state: the plan, the cache, the workspace and the rows
\* of every step agree, whatever the prompts, the split and the rejected drafts.
THEOREM IndexerIsSound == IndexerSpec => []IndexerInv
<1>1. IndexerInit => IndexerInv BY InitInv
<1>2. IndexerInv /\ [IndexerNext]_ixVars => IndexerInv' BY NextInv
<1>3. QED BY <1>1, <1>2, PTL DEF IndexerSpec

\* The invariant says what TopKIsOfItsKeys states.
LEMMA RowsAreOfTheirKeys == IndexerInv => TopKIsOfItsKeys
<1> SUFFICES ASSUME IndexerInv PROVE TopKIsOfItsKeys OBVIOUS
<1>1. ixStage # "oom" BY DEF IndexerInv, IndexerType
<1>2. ixStage = "served" => \A k \in DOMAIN batch : commonLens[k] = SeqLen(k) BY DEF IndexerInv, BatchOk
<1>3. ixStage = "served" => \A t \in 0 .. NumTokens - 1 : RowRight(t) BY DEF IndexerInv, AllRight
<1>4. QED BY <1>1, <1>2, <1>3 DEF TopKIsOfItsKeys, RowRight

\* Every row a served step leaves (ppu_sparse_attn_indexer) is of its own query and weights and
\* exactly the keys its token may see, as they are now; the logits always fitted.
THEOREM TopKAlwaysOfItsKeys == IndexerSpec => []TopKIsOfItsKeys
<1>1. IndexerInv => TopKIsOfItsKeys BY RowsAreOfTheirKeys
<1>2. QED BY <1>1, IndexerIsSound, PTL
================================================================================
