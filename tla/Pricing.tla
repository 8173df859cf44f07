------------------------------- MODULE Pricing -------------------------------
(***************************************************************************)
(* What an exchange costs, and how the costs add up while tariffs change.  *)
(*                                                                         *)
(* Money is counted in quanta, the resolution of the NUMERIC columns       *)
(* (1e-8 USD); a price is the number of quanta for TokensPerUnit tokens.   *)
(* Decimal arithmetic is exact up to the one quantisation in to_money, so  *)
(* integers represent it.                                                  *)
(***************************************************************************)
EXTENDS Integers, Sequences, SequencesExt

CONSTANTS
    Model,          \* model names
    Price,          \* the prices of tariffs
    Tokens,         \* the token counts a provider reports
    TokensPerUnit,  \* TOKENS_PER_UNIT, 1000000 in the code
    MaxReplies      \* bound on the replies charged to the session

ASSUME PricingAssumption ==
    /\ Price \subseteq Nat
    /\ Tokens \subseteq Nat
    /\ TokensPerUnit \in Nat \ {0}
    /\ MaxReplies \in Nat

VARIABLES
    tariff,    \* the pricing file as the running process loaded it
    rows,      \* the session's message_usage rows, oldest first
    lifetime   \* the session's lifetime_cost

vars == <<tariff, rows, lifetime>>

\* An entry of the pricing file; a missing cached_input means input.
ModelPrice == [input: Price, cachedInput: Price, output: Price]

-----------------------------------------------------------------------------
\* Mutant: amounts are truncated.
ToMoneyTruncated(amount) == amount \div TokensPerUnit

\* to_money(amount / TOKENS_PER_UNIT): rounded half up to whole quanta.
ToMoney(amount) == (2 * amount + TokensPerUnit) \div (2 * TokensPerUnit)

\* Mutant: the provider's number of cached tokens is taken as it comes.
CachedUnchecked(prompt, cached) == cached

\* No more tokens can come from the cache than the prompt has.
Cached(prompt, cached) == Max({0, Min({cached, prompt})})

\* The exact price of a prompt, before it is rounded.
InputAmount(price, prompt, cached) ==
    LET hit == Cached(prompt, cached)
    IN (prompt - hit) * price.input + hit * price.cachedInput

InputCost(price, prompt, cached) == ToMoney(InputAmount(price, prompt, cached))
OutputCost(price, completion) == ToMoney(completion * price.output)

\* Mutant: the row keeps the regular input price as the cached one.
UsageRowWithoutCachedPrice(m, prompt, cached, completion) ==
    [model |-> m, prompt |-> prompt, cached |-> cached, completion |-> completion,
     price |-> [tariff[m] EXCEPT !.cachedInput = tariff[m].input],
     inputCost |-> InputCost(tariff[m], prompt, cached),
     outputCost |-> OutputCost(tariff[m], completion)]

\* calculate and add_usage: the tokens as reported, the prices that were
\* applied, and the costs.
UsageRow(m, prompt, cached, completion) ==
    [model |-> m, prompt |-> prompt, cached |-> cached, completion |-> completion,
     price |-> tariff[m],
     inputCost |-> InputCost(tariff[m], prompt, cached),
     outputCost |-> OutputCost(tariff[m], completion)]

TotalCost(row) == row.inputCost + row.outputCost

-----------------------------------------------------------------------------
Init == /\ tariff \in [Model -> ModelPrice]
        /\ rows = <<>>
        /\ lifetime = 0

\* One exchange is priced, recorded and added to the session.
Charge(m, prompt, cached, completion) ==
    LET row == UsageRow(m, prompt, cached, completion)
    IN /\ Len(rows) < MaxReplies
       /\ rows' = Append(rows, row)
       /\ lifetime' = lifetime + TotalCost(row)
       /\ UNCHANGED tariff

\* The pricing file is edited and the process, which loads it once,
\* restarted.
EditTariff(m, price) == /\ tariff[m] # price
                        /\ tariff' = [tariff EXCEPT ![m] = price]
                        /\ UNCHANGED <<rows, lifetime>>

Next == \E m \in Model :
           \/ \E prompt, cached, completion \in Tokens :
                 Charge(m, prompt, cached, completion)
           \/ \E price \in ModelPrice : EditTariff(m, price)

Spec == Init /\ [][Next]_vars

-----------------------------------------------------------------------------
Sum(s) == FoldLeft(+, 0, s)

\* What the provider's invoice says of a row, in units of 1/TokensPerUnit
\* quanta: every prompt token at one of the two input prices, every
\* completion token at the output price.
Invoiced(row) ==
    LET hits == CHOOSE n \in {row.prompt, row.cached} :
                   n <= row.prompt /\ n <= row.cached
    IN row.price.input * row.prompt + row.price.output * row.completion
       - (row.price.input - row.price.cachedInput) * hits

\* The session's lifetime cost is the sum of its rows to the quantum, and
\* strays from the invoice by at most one quantum per reply (half of one for
\* each of the two roundings), whatever tariffs were in force: it does not
\* drift any further, however many small amounts are added.
SumWithinOneQuantumPerReply ==
    LET invoiced == Sum([i \in DOMAIN rows |-> Invoiced(rows[i])])
        booked == lifetime * TokensPerUnit
    IN /\ lifetime = Sum([i \in DOMAIN rows |-> TotalCost(rows[i])])
       /\ booked - invoiced <= Len(rows) * TokensPerUnit
       /\ invoiced - booked <= Len(rows) * TokensPerUnit

\* A row's costs follow from its own columns: an edit of the tariff neither
\* rewrites past cost nor makes it inexplicable (models/chat.py, "Price
\* snapshot").
SnapshotExplainsCost ==
    \A i \in DOMAIN rows :
        LET row == rows[i]
        IN /\ row.inputCost = InputCost(row.price, row.prompt, row.cached)
           /\ row.outputCost = OutputCost(row.price, row.completion)

\* Under a tariff that makes cached input no dearer, a prompt that was partly
\* cached costs no more than the same prompt uncached and no less than the
\* same prompt wholly cached, also when the provider reports more cached
\* tokens than the prompt has; so no charge is negative.
CachingOnlySaves ==
    \A i \in DOMAIN rows :
        LET row == rows[i]
        IN row.price.cachedInput <= row.price.input =>
              /\ row.inputCost <= InputCost(row.price, row.prompt, 0)
              /\ row.inputCost >= ToMoney(row.prompt * row.price.cachedInput)
              /\ row.inputCost >= 0
=============================================================================
