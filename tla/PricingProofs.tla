---------------------------- MODULE PricingProofs ----------------------------
(***************************************************************************)
(* Proofs about Pricing, for any models, prices, token counts and tariff   *)
(* edits: what is true of every single usage row, and what follows for the *)
(* sum of any number of them.                                              *)
(***************************************************************************)
EXTENDS Pricing, WellFoundedInduction, TLAPS

-----------------------------------------------------------------------------
(* Arithmetic.                                                             *)

\* Multiplication by a natural number is monotone.
LEMMA TimesMonotone ==
    ASSUME NEW d \in Nat, NEW a \in Int, NEW b \in Int, a <= b
    PROVE  d * a <= d * b
OBVIOUS

\* The quotient of an integer division, in terms of multiplication.
LEMMA Quotient ==
    ASSUME NEW x \in Int, NEW d \in Nat \ {0}
    PROVE  /\ x \div d \in Int
           /\ d * (x \div d) <= x
           /\ x < d * (x \div d) + d
OBVIOUS

\* Rounding half up misses the amount by at most half a quantum.
LEMMA RoundedHalfUp ==
    ASSUME NEW a \in Int
    PROVE  /\ ToMoney(a) \in Int
           /\ 2 * (TokensPerUnit * ToMoney(a)) <= 2 * a + TokensPerUnit
           /\ 2 * a < 2 * (TokensPerUnit * ToMoney(a)) + TokensPerUnit
<1> DEFINE T == TokensPerUnit
           x == 2 * a + T
           d == 2 * T
<1>1. T \in Nat \ {0} /\ x \in Int /\ d \in Nat \ {0}
  BY PricingAssumption
<1>2. ToMoney(a) = x \div d
  BY DEF ToMoney
<1>3. /\ ToMoney(a) \in Int
      /\ d * ToMoney(a) <= x
      /\ x < d * ToMoney(a) + d
  <2> HIDE DEF x, d
  <2> QED
    BY <1>1, <1>2, Quotient
<1>4. d * ToMoney(a) = 2 * (T * ToMoney(a))
  BY <1>1, <1>3
<1> QED
  BY <1>1, <1>3, <1>4

\* Rounding is monotone.
LEMMA RoundingMonotone ==
    ASSUME NEW a \in Int, NEW b \in Int, a <= b
    PROVE  ToMoney(a) <= ToMoney(b)
<1> DEFINE T == TokensPerUnit
           p == ToMoney(a)
           q == ToMoney(b)
<1>1. T \in Nat \ {0}
  BY PricingAssumption
<1>2. /\ p \in Int /\ 2 * (T * p) <= 2 * a + T
      /\ q \in Int /\ 2 * b < 2 * (T * q) + T
  BY RoundedHalfUp
<1> HIDE DEF p, q
<1> SUFFICES ASSUME q < p PROVE FALSE
  BY <1>2 DEF p, q
<1>3. T * (q + 1) <= T * p
  BY <1>1, <1>2, TimesMonotone
<1>4. T * (q + 1) = T * q + T
  BY <1>1, <1>2
<1> QED
  BY <1>1, <1>2, <1>3, <1>4

\* The cached part of a prompt is between nothing and all of it.
LEMMA CachedIsAPart ==
    ASSUME NEW prompt \in Nat, NEW cached \in Int
    PROVE  /\ Cached(prompt, cached) \in Nat
           /\ Cached(prompt, cached) <= prompt
           /\ Cached(prompt, cached) =
                 IF cached < 0 THEN 0
                 ELSE IF cached <= prompt THEN cached ELSE prompt
<1> DEFINE least == Min({cached, prompt})
<1>1. least = IF cached <= prompt THEN cached ELSE prompt
  <2>1. \E m \in {cached, prompt} : \A y \in {cached, prompt} : m =< y
    OBVIOUS
  <2>2. least \in {cached, prompt} /\ \A y \in {cached, prompt} : least =< y
    BY <2>1 DEF Min
  <2> QED
    BY <2>2
<1>2. Max({0, least}) = IF least < 0 THEN 0 ELSE least
  <2>1. least \in Int
    BY <1>1
  <2> HIDE DEF least
  <2>2. \E m \in {0, least} : \A y \in {0, least} : m >= y
    BY <2>1
  <2>3. /\ Max({0, least}) \in {0, least}
        /\ \A y \in {0, least} : Max({0, least}) >= y
    BY <2>2 DEF Max
  <2> QED
    BY <2>1, <2>3
<1> QED
  BY <1>1, <1>2 DEF Cached

-----------------------------------------------------------------------------
(* Usage rows.                                                             *)

Row == [model: Model, prompt: Tokens, cached: Tokens, completion: Tokens,
        price: ModelPrice, inputCost: Int, outputCost: Int]

\* A row holds what was reported, prices of a tariff, and their costs.
ExplainedRow ==
    {r \in Row : /\ r.inputCost = InputCost(r.price, r.prompt, r.cached)
                 /\ r.outputCost = OutputCost(r.price, r.completion)}

IInv == /\ tariff \in [Model -> ModelPrice]
        /\ rows \in Seq(ExplainedRow)

\* The fields of a price and of a row.
LEMMA PriceFields ==
    ASSUME NEW price \in ModelPrice
    PROVE  /\ price.input \in Nat
           /\ price.cachedInput \in Nat
           /\ price.output \in Nat
BY PricingAssumption DEF ModelPrice

LEMMA RowFields ==
    ASSUME NEW r \in ExplainedRow
    PROVE  /\ r.price \in ModelPrice
           /\ r.prompt \in Nat /\ r.cached \in Nat /\ r.cached \in Int
           /\ r.completion \in Nat
           /\ r.inputCost = InputCost(r.price, r.prompt, r.cached)
           /\ r.outputCost = OutputCost(r.price, r.completion)
<1>1. /\ r.price \in ModelPrice
      /\ r.prompt \in Tokens /\ r.cached \in Tokens /\ r.completion \in Tokens
      /\ r.inputCost = InputCost(r.price, r.prompt, r.cached)
      /\ r.outputCost = OutputCost(r.price, r.completion)
  BY DEF ExplainedRow, Row
<1>2. Tokens \subseteq Nat /\ Tokens \subseteq Int
  BY PricingAssumption
<1>3. r.prompt \in Nat /\ r.cached \in Nat /\ r.cached \in Int
      /\ r.completion \in Nat
  BY <1>1, <1>2
<1> QED
  BY <1>1, <1>3

\* Amounts are integers, and lie between the wholly cached and the uncached one.
LEMMA InputAmountBounds ==
    ASSUME NEW price \in ModelPrice, NEW prompt \in Nat, NEW cached \in Int
    PROVE  /\ InputAmount(price, prompt, cached) \in Nat
           /\ InputAmount(price, prompt, 0) = prompt * price.input
           /\ price.cachedInput <= price.input =>
                 /\ InputAmount(price, prompt, cached) <= prompt * price.input
                 /\ prompt * price.cachedInput
                       <= InputAmount(price, prompt, cached)
<1> DEFINE hit == Cached(prompt, cached)
           fresh == prompt - hit
<1>1. /\ hit \in Nat /\ hit <= prompt /\ fresh \in Nat /\ prompt = fresh + hit
      /\ price.input \in Nat /\ price.cachedInput \in Nat
  <2>1. hit \in Nat /\ hit <= prompt
    BY CachedIsAPart
  <2>2. price.input \in Nat /\ price.cachedInput \in Nat
    BY PriceFields
  <2> HIDE DEF hit
  <2> QED
    BY <2>1, <2>2
<1>2. Cached(prompt, 0) = 0
  <2>1. 0 \in Int /\ 0 <= prompt
    OBVIOUS
  <2> QED
    BY <2>1, CachedIsAPart
<1>3. InputAmount(price, prompt, cached)
         = fresh * price.input + hit * price.cachedInput
  BY DEF InputAmount
<1>4. InputAmount(price, prompt, 0) = prompt * price.input
  BY <1>1, <1>2 DEF InputAmount
<1> HIDE DEF hit, fresh
<1>5. /\ prompt * price.input = fresh * price.input + hit * price.input
      /\ prompt * price.cachedInput
            = fresh * price.cachedInput + hit * price.cachedInput
  BY <1>1
<1>6. /\ fresh * price.input \in Nat /\ hit * price.cachedInput \in Nat
      /\ hit * price.input \in Nat /\ fresh * price.cachedInput \in Nat
  BY <1>1
<1>7. ASSUME price.cachedInput <= price.input
      PROVE  /\ hit * price.cachedInput <= hit * price.input
             /\ fresh * price.cachedInput <= fresh * price.input
  BY <1>1, <1>7, TimesMonotone
<1> QED
  BY <1>3, <1>4, <1>5, <1>6, <1>7

\* What UsageRow writes explains itself, at the tariff of the moment.
LEMMA RowsAreExplained ==
    ASSUME tariff \in [Model -> ModelPrice], NEW m \in Model,
           NEW prompt \in Tokens, NEW cached \in Tokens, NEW completion \in Tokens
    PROVE  UsageRow(m, prompt, cached, completion) \in ExplainedRow
<1>1. /\ tariff[m] \in ModelPrice /\ tariff[m].output \in Nat
      /\ prompt \in Nat /\ cached \in Int /\ completion \in Nat
  <2>1. tariff[m] \in ModelPrice
    OBVIOUS
  <2> QED
    BY <2>1, PriceFields, PricingAssumption
<1>2. InputAmount(tariff[m], prompt, cached) \in Int
  BY <1>1, InputAmountBounds
<1>3. completion * tariff[m].output \in Int
  BY <1>1
<1>4. /\ InputCost(tariff[m], prompt, cached) \in Int
      /\ OutputCost(tariff[m], completion) \in Int
  BY <1>2, <1>3, RoundedHalfUp DEF InputCost, OutputCost
<1> QED
  BY <1>1, <1>4 DEF UsageRow, ExplainedRow, Row

\* Every row that is charged is explained, and edits leave the rows alone.
THEOREM Invariance == Spec => []IInv
<1>1. Init => IInv
  BY DEF Init, IInv
<1>2. IInv /\ [Next]_vars => IInv'
  <2> SUFFICES ASSUME IInv, [Next]_vars PROVE IInv'
    OBVIOUS
  <2>1. ASSUME NEW m \in Model, NEW prompt \in Tokens, NEW cached \in Tokens,
               NEW completion \in Tokens,
               Charge(m, prompt, cached, completion)
        PROVE  IInv'
    <3>1. UsageRow(m, prompt, cached, completion) \in ExplainedRow
      BY RowsAreExplained DEF IInv
    <3> QED
      BY <2>1, <3>1 DEF Charge, IInv
  <2>2. ASSUME NEW m \in Model, NEW price \in ModelPrice, EditTariff(m, price)
        PROVE  IInv'
    BY <2>2 DEF EditTariff, IInv
  <2>3. CASE UNCHANGED vars
    BY <2>3 DEF vars, IInv
  <2> QED
    BY <2>1, <2>2, <2>3 DEF Next
<1> QED
  BY <1>1, <1>2, PTL DEF Spec

\* A row's costs follow from its own columns for ever, whatever tariffs come.
THEOREM SnapshotsExplain == Spec => []SnapshotExplainsCost
<1>1. IInv => SnapshotExplainsCost
  BY DEF IInv, ExplainedRow, SnapshotExplainsCost
<1> QED
  BY <1>1, Invariance, PTL

\* Under a tariff that makes cached input no dearer, a prompt costs between
\* its wholly cached and its uncached price, and never less than nothing.
THEOREM CachingSaves == Spec => []CachingOnlySaves
<1>1. ASSUME NEW row \in ExplainedRow, row.price.cachedInput <= row.price.input
      PROVE  /\ row.inputCost <= InputCost(row.price, row.prompt, 0)
             /\ row.inputCost >= ToMoney(row.prompt * row.price.cachedInput)
             /\ row.inputCost >= 0
  <2> DEFINE amount == InputAmount(row.price, row.prompt, row.cached)
             lowest == row.prompt * row.price.cachedInput
             highest == row.prompt * row.price.input
  <2>1. /\ row.price \in ModelPrice /\ row.prompt \in Nat /\ row.cached \in Int
        /\ row.price.input \in Nat /\ row.price.cachedInput \in Nat
        /\ row.inputCost = ToMoney(amount)
    BY RowFields, PriceFields DEF InputCost
  <2>2. lowest \in Nat /\ highest \in Nat
    BY <2>1
  <2>3. /\ amount \in Nat
        /\ InputCost(row.price, row.prompt, 0) = ToMoney(highest)
        /\ lowest <= amount /\ amount <= highest
    BY <1>1, <2>1, InputAmountBounds DEF InputCost
  <2>4. ToMoney(0) = 0
    BY PricingAssumption DEF ToMoney
  <2> HIDE DEF amount, lowest, highest
  <2>5. /\ ToMoney(amount) <= ToMoney(highest)
        /\ ToMoney(lowest) <= ToMoney(amount)
        /\ ToMoney(0) <= ToMoney(amount)
    BY <2>2, <2>3, RoundingMonotone
  <2>6. ToMoney(amount) \in Int /\ ToMoney(lowest) \in Int
        /\ ToMoney(highest) \in Int
    BY <2>2, <2>3, RoundedHalfUp
  <2> QED
    BY <2>1, <2>3, <2>4, <2>5, <2>6 DEF lowest
<1>2. IInv => CachingOnlySaves
  BY <1>1 DEF IInv, CachingOnlySaves
<1> QED
  BY <1>2, Invariance, PTL

-----------------------------------------------------------------------------
(* Rows and the invoice.                                                   *)

\* What a row books strays from what the provider invoices for it by at most
\* one quantum.
StraysByAQuantum(row) ==
    /\ TokensPerUnit * TotalCost(row) - Invoiced(row) <= TokensPerUnit
    /\ Invoiced(row) - TokensPerUnit * TotalCost(row) <= TokensPerUnit

\* Every row strays by at most one quantum: its two roundings add half of one
\* each.
LEMMA RowStrays ==
    ASSUME NEW row \in ExplainedRow
    PROVE  /\ TotalCost(row) \in Int
           /\ Invoiced(row) \in Int
           /\ StraysByAQuantum(row)
<1> DEFINE amount == InputAmount(row.price, row.prompt, row.cached)
           output == row.completion * row.price.output
           hit == Cached(row.prompt, row.cached)
<1>1. /\ row.price \in ModelPrice /\ row.prompt \in Nat /\ row.cached \in Nat
      /\ row.cached \in Int /\ row.completion \in Nat /\ row.price.input \in Nat
      /\ row.price.cachedInput \in Nat /\ row.price.output \in Nat
      /\ row.inputCost = ToMoney(amount) /\ row.outputCost = ToMoney(output)
  BY RowFields, PriceFields DEF InputCost, OutputCost
<1>2. output \in Nat /\ amount \in Nat
  <2>1. amount \in Nat
    <3>1. /\ row.price \in ModelPrice /\ row.prompt \in Nat
          /\ row.cached \in Int
      BY <1>1
    <3> QED
      BY <3>1, InputAmountBounds
  <2>2. output \in Nat
    BY <1>1
  <2> QED
    BY <2>1, <2>2
<1>3. Invoiced(row) = amount + output
  <2>1. /\ hit \in Nat
        /\ hit = IF row.cached <= row.prompt THEN row.cached ELSE row.prompt
    <3>1. /\ row.prompt \in Nat /\ row.cached \in Int
          /\ ~(row.cached < 0)
      BY <1>1
    <3> QED
      BY <3>1, CachedIsAPart
  <2> DEFINE hits == CHOOSE n \in {row.prompt, row.cached} :
                        n <= row.prompt /\ n <= row.cached
  <2>2. hits = hit
    BY <1>1, <2>1
  <2>3. Invoiced(row)
           = row.price.input * row.prompt + row.price.output * row.completion
             - (row.price.input - row.price.cachedInput) * hit
    BY <2>2 DEF Invoiced
  <2>4. amount = (row.prompt - hit) * row.price.input
                 + hit * row.price.cachedInput
    BY DEF InputAmount
  <2>5. row.price.output * row.completion = output
    BY <1>1
  <2> HIDE DEF hit, hits, amount, output
  <2>6. row.price.input * row.prompt
           - (row.price.input - row.price.cachedInput) * hit = amount
    BY <1>1, <2>1, <2>4
  <2> DEFINE uncached == row.price.input * row.prompt
             saved == (row.price.input - row.price.cachedInput) * hit
  <2>7. uncached \in Int /\ saved \in Int
    BY <1>1, <2>1
  <2>8. Invoiced(row) = uncached + output - saved /\ uncached - saved = amount
    BY <2>3, <2>5, <2>6
  <2> HIDE DEF uncached, saved
  <2> QED
    BY <1>2, <2>7, <2>8
<1> HIDE DEF amount, output
<1>4. /\ ToMoney(amount) \in Int /\ ToMoney(output) \in Int
      /\ 2 * (TokensPerUnit * ToMoney(amount)) <= 2 * amount + TokensPerUnit
      /\ 2 * amount < 2 * (TokensPerUnit * ToMoney(amount)) + TokensPerUnit
      /\ 2 * (TokensPerUnit * ToMoney(output)) <= 2 * output + TokensPerUnit
      /\ 2 * output < 2 * (TokensPerUnit * ToMoney(output)) + TokensPerUnit
  BY <1>2, RoundedHalfUp
<1>5. TokensPerUnit * TotalCost(row)
         = TokensPerUnit * ToMoney(amount) + TokensPerUnit * ToMoney(output)
  BY <1>1, <1>4, PricingAssumption DEF TotalCost
<1>6. /\ TokensPerUnit * ToMoney(amount) \in Int
      /\ TokensPerUnit * ToMoney(output) \in Int
  BY <1>4, PricingAssumption
<1>7. TotalCost(row) \in Int /\ Invoiced(row) \in Int
  BY <1>1, <1>2, <1>3, <1>4 DEF TotalCost
<1>8. StraysByAQuantum(row)
  BY <1>2, <1>3, <1>4, <1>5, <1>6, PricingAssumption DEF StraysByAQuantum
<1> QED
  BY <1>7, <1>8

\* No row, whenever it was charged, strays from the invoice by more than one
\* quantum.
THEOREM EachRowWithinOneQuantum ==
    Spec => [](\A i \in DOMAIN rows : StraysByAQuantum(rows[i]))
<1>1. IInv => \A i \in DOMAIN rows : StraysByAQuantum(rows[i])
  BY RowStrays DEF IInv
<1> QED
  BY <1>1, Invariance, PTL

-----------------------------------------------------------------------------
(* Sums of sequences.                                                      *)

\* Induction over the natural numbers, for a set of them.
LEMMA Induction ==
    ASSUME NEW P \in SUBSET Nat, 0 \in P, \A n \in P : n + 1 \in P
    PROVE  P = Nat
<1> SUFFICES ASSUME Nat \ P # {} PROVE FALSE
  OBVIOUS
<1>1. \E least \in Nat \ P : \A n \in Nat \ P : ~(n < least)
  <2>1. \E least \in Nat \ P :
            \A n \in Nat \ P : ~(<<n, least>> \in OpToRel(<, Nat))
    BY NatLessThanWellFounded, WFMin
  <2> QED
    BY <2>1 DEF OpToRel
<1>2. PICK least \in Nat \ P : \A n \in Nat \ P : ~(n < least)
  BY <1>1
<1>3. least - 1 \in Nat /\ least - 1 < least
  BY <1>2
<1>4. least - 1 \in P
  BY <1>2, <1>3
<1> QED
  BY <1>2, <1>3, <1>4

\* sums[K] is the sum of the elements of s at the positions in K, for every
\* subset K of 1 .. n: the fold behind Sum, which takes off the greatest
\* position first.
Sums(s, sums, n) ==
    \A K \in SUBSET (1 .. n) :
        sums[K] = IF K = {} THEN 0 ELSE sums[K \ {Max(K)}] + s[Max(K)]

\* The greatest position of a set up to n + 1 that holds n + 1.
LEMMA Greatest ==
    ASSUME NEW n \in Nat, NEW K \in SUBSET (1 .. n + 1), n + 1 \in K
    PROVE  Max(K) = n + 1
<1>1. \A i \in K : i \in Int /\ n + 1 >= i
  OBVIOUS
<1>2. /\ Max(K) \in K
      /\ \A i \in K : Max(K) >= i
  BY <1>1 DEF Max
<1>3. Max(K) \in Int /\ n + 1 >= Max(K) /\ Max(K) >= n + 1
  BY <1>1, <1>2
<1> QED
  BY <1>3

\* A sequence of integers has such sums, and they are integers.
LEMMA SumsExist ==
    ASSUME NEW s \in Seq(Int)
    PROVE  \E sums \in [SUBSET (1 .. Len(s)) -> Int] : Sums(s, sums, Len(s))
<1> DEFINE P == {n \in Nat : n <= Len(s) =>
                    \E sums \in [SUBSET (1 .. n) -> Int] : Sums(s, sums, n)}
<1>1. 0 \in P
  <2>1. [K \in SUBSET (1 .. 0) |-> 0] \in [SUBSET (1 .. 0) -> Int]
    OBVIOUS
  <2>2. Sums(s, [K \in SUBSET (1 .. 0) |-> 0], 0)
    BY DEF Sums
  <2> QED
    BY <2>1, <2>2
<1>2. ASSUME NEW n \in P PROVE n + 1 \in P
  <2>a. n \in Nat /\ n + 1 \in Nat
    OBVIOUS
  <2> SUFFICES ASSUME n + 1 <= Len(s)
               PROVE  \E sums \in [SUBSET (1 .. n + 1) -> Int] : Sums(s, sums, n + 1)
    BY <2>a
  <2>0. n \in Nat /\ n <= Len(s) /\ n + 1 \in 1 .. Len(s)
    OBVIOUS
  <2>1. PICK old \in [SUBSET (1 .. n) -> Int] : Sums(s, old, n)
    BY <2>0
  <2> DEFINE new == [K \in SUBSET (1 .. n + 1) |->
                        IF n + 1 \in K THEN old[K \ {n + 1}] + s[n + 1]
                        ELSE old[K]]
  <2>2. \A K \in SUBSET (1 .. n + 1) : K \ {n + 1} \in SUBSET (1 .. n)
    BY <2>0
  <2>3. s[n + 1] \in Int
    BY <2>0
  <2>4. new \in [SUBSET (1 .. n + 1) -> Int]
    <3>1. \A K \in SUBSET (1 .. n + 1) :
              n + 1 \notin K => K \in SUBSET (1 .. n)
      BY <2>0
    <3> QED
      BY <2>2, <2>3, <3>1
  <2>5. ASSUME NEW K \in SUBSET (1 .. n + 1)
        PROVE  new[K] = IF K = {} THEN 0 ELSE new[K \ {Max(K)}] + s[Max(K)]
    <3>1. CASE n + 1 \in K
      <4>1. Max(K) = n + 1
        BY <2>0, <3>1, Greatest
      <4>2. K \ {n + 1} \in SUBSET (1 .. n + 1) /\ n + 1 \notin K \ {n + 1}
        OBVIOUS
      <4> QED
        BY <3>1, <4>1, <4>2
    <3>2. CASE n + 1 \notin K
      <4>1. K \in SUBSET (1 .. n) /\ K \ {Max(K)} \in SUBSET (1 .. n + 1)
        <5>1. 1 .. n + 1 = (1 .. n) \cup {n + 1}
          BY <2>0
        <5> QED
          BY <3>2, <5>1
      <4>2. new[K] = old[K] /\ new[K \ {Max(K)}] = old[K \ {Max(K)}]
        BY <3>2, <4>1
      <4>3. old[K] = IF K = {} THEN 0 ELSE old[K \ {Max(K)}] + s[Max(K)]
        BY <2>1, <4>1 DEF Sums
      <4> HIDE DEF new
      <4> QED
        BY <4>2, <4>3
    <3> QED
      BY <3>1, <3>2
  <2> QED
    BY <2>4, <2>5 DEF Sums
<1> HIDE DEF P
<1>3. P = Nat
  BY <1>1, <1>2, Induction DEF P
<1>4. Len(s) \in Nat /\ Len(s) <= Len(s)
  OBVIOUS
<1> QED
  BY <1>3, <1>4 DEF P

\* The sum of a sequence is the one of all its positions.
LEMMA SumUnfolds ==
    ASSUME NEW s \in Seq(Int)
    PROVE  \E sums :
              /\ Sums(s, sums, Len(s))
              /\ Sum(s) = sums[1 .. Len(s)]
<1> DEFINE rec(f) == [K \in SUBSET (DOMAIN s) |->
                         IF K = {} THEN 0 ELSE f[K \ {Max(K)}] + s[Max(K)]]
           sums == CHOOSE f : f = rec(f)
<1>0. DOMAIN s = 1 .. Len(s)
  OBVIOUS
<1>1. Sum(s) = sums[1 .. Len(s)]
  BY <1>0 DEF Sum, FoldLeft, MapThenFoldSet
<1>2. PICK f \in [SUBSET (1 .. Len(s)) -> Int] : Sums(s, f, Len(s))
  BY SumsExist
<1>3. f = rec(f)
  <2>1. /\ f = [K \in SUBSET (1 .. Len(s)) |-> f[K]]
        /\ \A K \in SUBSET (1 .. Len(s)) :
              f[K] = IF K = {} THEN 0 ELSE f[K \ {Max(K)}] + s[Max(K)]
    BY <1>2 DEF Sums
  <2> QED
    BY <1>0, <2>1
<1>4. sums = rec(sums)
  <2> HIDE DEF rec
  <2> QED
    BY <1>3
<1>5. Sums(s, sums, Len(s))
  <2> HIDE DEF sums
  <2> QED
    BY <1>0, <1>4 DEF Sums
<1> HIDE DEF sums
<1> QED
  BY <1>1, <1>5

\* The sum of a prefix is that of the prefix before it and its last element.
LEMMA PrefixSums ==
    ASSUME NEW n \in Nat, NEW s, NEW sums, Sums(s, sums, n)
    PROVE  /\ sums[1 .. 0] = 0
           /\ \A k \in 0 .. n - 1 : sums[1 .. k + 1] = sums[1 .. k] + s[k + 1]
<1>1. sums[1 .. 0] = 0
  <2>1. 1 .. 0 = {} /\ 1 .. 0 \in SUBSET (1 .. n)
    OBVIOUS
  <2> QED
    BY <2>1 DEF Sums
<1>2. ASSUME NEW k \in 0 .. n - 1
      PROVE  sums[1 .. k + 1] = sums[1 .. k] + s[k + 1]
  <2>1. /\ 1 .. k + 1 \in SUBSET (1 .. n)
        /\ 1 .. k + 1 # {}
        /\ (1 .. k + 1) \ {k + 1} = 1 .. k
        /\ k + 1 \in 1 .. k + 1
    OBVIOUS
  <2>2. Max(1 .. k + 1) = k + 1
    BY <2>1, Greatest
  <2> QED
    BY <2>1, <2>2 DEF Sums
<1> QED
  BY <1>1, <1>2

\* Before the first reply the sum is zero.
LEMMA SumOfNothing == Sum(<<>>) = 0
<1>1. <<>> \in Seq(Int) /\ Len(<<>>) = 0
  OBVIOUS
<1>2. PICK a : Sums(<<>>, a, 0) /\ Sum(<<>>) = a[1 .. 0]
  BY <1>1, SumUnfolds
<1> QED
  BY <1>2, PrefixSums

\* An element that is appended is added to the sum.
LEMMA SumAppend ==
    ASSUME NEW s \in Seq(Int), NEW x \in Int
    PROVE  /\ Sum(s) \in Int
           /\ Sum(Append(s, x)) = Sum(s) + x
<1> DEFINE t == Append(s, x)
           n == Len(s)
<1>1. /\ n \in Nat /\ t \in Seq(Int) /\ Len(t) = n + 1 /\ t[n + 1] = x
      /\ \A k \in 0 .. n - 1 : t[k + 1] = s[k + 1] /\ s[k + 1] \in Int
  OBVIOUS
<1> HIDE DEF t, n
<1>2. PICK a : Sums(s, a, n) /\ Sum(s) = a[1 .. n]
  BY SumUnfolds DEF n
<1>3. PICK b : Sums(t, b, n + 1) /\ Sum(t) = b[1 .. n + 1]
  BY <1>1, SumUnfolds
<1>4. /\ a[1 .. 0] = 0
      /\ \A k \in 0 .. n - 1 : a[1 .. k + 1] = a[1 .. k] + s[k + 1]
  BY <1>1, <1>2, PrefixSums
<1>5. /\ b[1 .. 0] = 0
      /\ \A k \in 0 .. n : b[1 .. k + 1] = b[1 .. k] + t[k + 1]
  <2>1. n + 1 \in Nat /\ (n + 1) - 1 = n
    BY <1>1
  <2>2. /\ b[1 .. 0] = 0
        /\ \A k \in 0 .. (n + 1) - 1 : b[1 .. k + 1] = b[1 .. k] + t[k + 1]
    BY <2>1, <1>3, PrefixSums
  <2> QED
    BY <2>1, <2>2
<1> DEFINE P == {k \in Nat : k <= n =>
                    a[1 .. k] \in Int /\ b[1 .. k] = a[1 .. k]}
<1>6. 0 \in P
  BY <1>4, <1>5
<1>7. ASSUME NEW k \in P PROVE k + 1 \in P
  <2>1. k \in Nat /\ k + 1 \in Nat
    OBVIOUS
  <2>2. CASE ~(k + 1 <= n)
    BY <2>1, <2>2
  <2>3. CASE k + 1 <= n
    <3>1. k \in 0 .. n - 1 /\ k \in 0 .. n /\ k <= n
      BY <1>1, <2>1, <2>3
    <3> QED
      BY <1>1, <1>4, <1>5, <2>1, <3>1
  <2> QED
    BY <2>2, <2>3
<1> HIDE DEF P
<1>8. P = Nat
  BY <1>6, <1>7, Induction DEF P
<1>9. a[1 .. n] \in Int /\ b[1 .. n] = a[1 .. n]
  <2>1. n \in P /\ n <= n
    BY <1>1, <1>8
  <2> QED
    BY <2>1 DEF P
<1>10. b[1 .. n + 1] = b[1 .. n] + x
  BY <1>1, <1>5
<1> QED
  BY <1>2, <1>3, <1>9, <1>10 DEF t

-----------------------------------------------------------------------------
(* The sum of the rows and the sum of the invoices.                        *)

\* What the rows charge, and what they would at full precision.
Costs(rs) == [i \in DOMAIN rs |-> TotalCost(rs[i])]
Invoices(rs) == [i \in DOMAIN rs |-> Invoiced(rs[i])]

\* A row that is added is added to both sums.
LEMMA OneMoreRow ==
    ASSUME NEW rs \in Seq(ExplainedRow), NEW row \in ExplainedRow
    PROVE  /\ Sum(Costs(rs)) \in Int /\ Sum(Invoices(rs)) \in Int
           /\ Sum(Costs(Append(rs, row))) = Sum(Costs(rs)) + TotalCost(row)
           /\ Sum(Invoices(Append(rs, row))) = Sum(Invoices(rs)) + Invoiced(row)
<1>1. /\ \A i \in DOMAIN rs : TotalCost(rs[i]) \in Int /\ Invoiced(rs[i]) \in Int
      /\ TotalCost(row) \in Int /\ Invoiced(row) \in Int
  BY RowStrays
<1>2. Costs(rs) \in Seq(Int) /\ Invoices(rs) \in Seq(Int)
  BY <1>1 DEF Costs, Invoices
<1>3. /\ Costs(Append(rs, row)) = Append(Costs(rs), TotalCost(row))
      /\ Invoices(Append(rs, row)) = Append(Invoices(rs), Invoiced(row))
  BY DEF Costs, Invoices
<1> QED
  BY <1>1, <1>2, <1>3, SumAppend

\* SumWithinOneQuantumPerReply: the lifetime cost that the service adds up and
\* the exact amount of the invoices drift apart by at most one quantum per
\* reply, however many replies and tariff edits there are.
THEOREM SumStaysWithinOneQuantumPerReply == Spec => []SumWithinOneQuantumPerReply
<1> DEFINE Booked == lifetime * TokensPerUnit
           Invoice == Sum(Invoices(rows))
           Close == /\ lifetime = Sum(Costs(rows))
                    /\ Booked - Invoice <= Len(rows) * TokensPerUnit
                    /\ Invoice - Booked <= Len(rows) * TokensPerUnit
<1>1. Close <=> SumWithinOneQuantumPerReply
  BY DEF SumWithinOneQuantumPerReply, Costs, Invoices
<1>2. Init => Close
  <2>1. ASSUME Init PROVE Costs(rows) = <<>> /\ Invoices(rows) = <<>>
    BY <2>1 DEF Init, Costs, Invoices
  <2> QED
    BY <2>1, SumOfNothing, PricingAssumption DEF Init
<1>3. IInv /\ Close /\ [Next]_vars => Close'
  <2> SUFFICES ASSUME IInv, Close, [Next]_vars PROVE Close'
    OBVIOUS
  <2>1. ASSUME NEW m \in Model, NEW prompt \in Tokens, NEW cached \in Tokens,
               NEW completion \in Tokens,
               Charge(m, prompt, cached, completion)
        PROVE  Close'
    <3>1. PICK r \in ExplainedRow : /\ rows' = Append(rows, r)
                                    /\ lifetime' = lifetime + TotalCost(r)
      BY <2>1, RowsAreExplained DEF Charge, IInv
    <3> DEFINE n == Len(rows)
               T == TokensPerUnit
               cost == TotalCost(r)
               due == Invoiced(r)
               costs == Sum(Costs(rows))
               dues == Sum(Invoices(rows))
    <3>2. /\ costs \in Int /\ dues \in Int
          /\ Sum(Costs(rows')) = costs + cost
          /\ Sum(Invoices(rows')) = dues + due
      BY <3>1, OneMoreRow DEF IInv
    <3>3. /\ cost \in Int /\ due \in Int
          /\ T * cost - due <= T /\ due - T * cost <= T
      BY RowStrays DEF StraysByAQuantum
    <3>4. n \in Nat /\ Len(rows') = n + 1 /\ T \in Nat
      BY <3>1, PricingAssumption DEF IInv
    <3>5. /\ lifetime = costs
          /\ lifetime * T - dues <= n * T
          /\ dues - lifetime * T <= n * T
      OBVIOUS
    <3>6. lifetime' = costs + cost
      BY <3>1, <3>5
    <3> HIDE DEF n, T, cost, due, costs, dues
    <3>7. /\ (costs + cost) * T = costs * T + T * cost
          /\ (n + 1) * T = n * T + T
      BY <3>2, <3>3, <3>4
    <3> DEFINE a == costs * T
               b == T * cost
               c == n * T
    <3>8. a \in Int /\ b \in Int /\ c \in Int
      BY <3>2, <3>3, <3>4
    <3>9. /\ a - dues <= c /\ dues - a <= c
          /\ b - due <= T /\ due - b <= T
      BY <3>3, <3>5
    <3> HIDE DEF a, b, c
    <3>10. /\ (a + b) - (dues + due) <= c + T
           /\ (dues + due) - (a + b) <= c + T
      BY <3>2, <3>3, <3>4, <3>8, <3>9
    <3>11. /\ lifetime' * T = a + b
           /\ Len(rows') * T = c + T
      BY <3>4, <3>6, <3>7 DEF a, b, c
    <3> QED
      BY <3>2, <3>6, <3>10, <3>11 DEF T
  <2>2. CASE UNCHANGED <<rows, lifetime>>
    BY <2>2
  <2> QED
    BY <2>1, <2>2 DEF Next, EditTariff, vars
<1> HIDE DEF Close
<1> QED
  BY <1>1, <1>2, <1>3, Invariance, PTL DEF Spec
=============================================================================
