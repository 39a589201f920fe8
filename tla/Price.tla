------------------------------- MODULE Price --------------------------------
(***************************************************************************)
(* The program's use of prices (price.rs): the quote of a feed, and the    *)
(* least a swap must return.  Numbers keep their widths, given as          *)
(* constants: a price has 64 bits, the arithmetic twice as many.           *)
(***************************************************************************)
EXTENDS Integers

CONSTANTS
    U64_MAX, U128_MAX,
    BPS,                        \* basis points in a whole
    MAX_CONFIDENCE_BPS,         \* how wide a confidence is accepted
    SLIPPAGE_BPS,               \* how far below the prices a swap may fill
    MAX_PRICE_AGE_SECONDS,
    Prices, Confidences,        \* what feeds say; 0 for nothing
    Exponents, Decimals,
    Amounts,                    \* what sweeps swap
    MaxTime

VARIABLES time, payment, asset      \* the clock and the two feeds

vars == <<time, payment, asset>>

Magnitude(n) == IF n >= 0 THEN n ELSE -n

(***************************************************************************)
(* The quote of a feed, if it has a positive price, is fresh and sure.     *)
(***************************************************************************)
DOLLAR == [price |-> 1, confidence |-> 0, exponent |-> 0]

Quotable(feed, now) ==
    /\ feed.price > 0
    /\ feed.confidence > 0
    /\ now - feed.updated_at <= MAX_PRICE_AGE_SECONDS
    /\ feed.confidence * BPS <= feed.price * MAX_CONFIDENCE_BPS

QuoteOf(feed) ==
    [price |-> feed.price, confidence |-> feed.confidence, exponent |-> feed.exponent]

(***************************************************************************)
(* The minimum output, or Refused.                                         *)
(***************************************************************************)
Refused == -1

CheckedMul(a, b) ==
    IF Refused \in {a, b} \/ a * b > U128_MAX THEN Refused ELSE a * b

CheckedDiv(a, b) == IF Refused \in {a, b} \/ b = 0 THEN Refused ELSE a \div b

PowerOf10[n \in Nat] == IF n = 0 THEN 1 ELSE 10 * PowerOf10[n - 1]
CheckedPow10(n) == IF PowerOf10[n] > U128_MAX THEN Refused ELSE PowerOf10[n]

Low(q) == IF q.price >= q.confidence THEN q.price - q.confidence ELSE 0
High(q) == q.price + q.confidence

\* Faulty: the token's decimals and the asset's swapped.
ScaleSwapped(p, pDecimals, a, aDecimals) == p.exponent - a.exponent + pDecimals - aDecimals

Scale(p, pDecimals, a, aDecimals) == p.exponent - a.exponent + aDecimals - pDecimals

MinOut(amount, p, pDecimals, a, aDecimals) ==
    LET scale == Scale(p, pDecimals, a, aDecimals)
        factor == CheckedPow10(Magnitude(scale))
        worth == amount * Low(p)
        filled == IF factor = Refused THEN Refused
                  ELSE IF scale >= 0 THEN CheckedDiv(CheckedMul(worth, factor), High(a))
                  ELSE CheckedDiv(worth, CheckedMul(High(a), factor))
        least == CheckedDiv(CheckedMul(filled, BPS - SLIPPAGE_BPS), BPS)
    IN  IF least > U64_MAX \/ (least = 0 /\ amount > 0) THEN Refused ELSE least

-----------------------------------------------------------------------------
(***************************************************************************)
(* The feeds are published again while the clock goes on.                  *)
(***************************************************************************)
Feeds ==
    [price : Prices, confidence : Confidences, exponent : Exponents, updated_at : {time}]

Init ==
    /\ time = 0
    /\ payment \in Feeds
    /\ asset \in Feeds

PublishPayment(feed) == payment' = feed /\ UNCHANGED <<time, asset>>
PublishAsset(feed) == asset' = feed /\ UNCHANGED <<time, payment>>

Tick ==
    /\ time < MaxTime
    /\ time' = time + 1
    /\ UNCHANGED <<payment, asset>>

Next ==
    \/ \E feed \in Feeds : PublishPayment(feed)
    \/ \E feed \in Feeds : PublishAsset(feed)
    \/ Tick

Spec == Init /\ [][Next]_vars

-----------------------------------------------------------------------------
\* The quotes a sweep could be made with now.
Payments ==
    {DOLLAR} \cup {QuoteOf(f) : f \in {g \in {payment} : Quotable(g, time)}}
Assets == {QuoteOf(f) : f \in {g \in {asset} : Quotable(g, time)}}

\* At the worst of both prices, amount is worth more than n and at least n units
\* of the asset less the slippage: compared as fractions, without rounding.
Power10(n) == IF n > 0 THEN PowerOf10[n] ELSE 1

WorthMore(amount, p, pDecimals, a, aDecimals, n) ==
    LET scale == p.exponent + aDecimals - a.exponent - pDecimals
    IN  amount * (p.price - p.confidence) * Power10(scale) * (BPS - SLIPPAGE_BPS)
            > n * (a.price + a.confidence) * Power10(-scale) * BPS
WorthAtLeast(amount, p, pDecimals, a, aDecimals, n) ==
    LET scale == p.exponent + aDecimals - a.exponent - pDecimals
    IN  amount * (p.price - p.confidence) * Power10(scale) * (BPS - SLIPPAGE_BPS)
            >= n * (a.price + a.confidence) * Power10(-scale) * BPS

(* The minimum a sweep asks of its swap is what the amount is worth at the *)
(* worst prices within both confidences, less the slippage, and no more    *)
(* than two of the asset's units below it, whatever the exponents and the  *)
(* decimals: two divisions round it down and nothing else.  It is positive *)
(* for every positive amount; and it is refused only when the worth is     *)
(* below two units or above half of what an amount can hold (min_out with  *)
(* quotes that quote accepts).                                             *)
MinimumIsFair ==
    \A p \in Payments, a \in Assets, amount \in Amounts, d, e \in Decimals :
        LET least == MinOut(amount, p, d, a, e)
        IN  IF least = Refused
            THEN \/ ~WorthAtLeast(amount, p, d, a, e, 2)
                 \/ WorthMore(amount, p, d, a, e,
                      ((U64_MAX \div 2) * (BPS - SLIPPAGE_BPS)) \div BPS)
            ELSE /\ WorthAtLeast(amount, p, d, a, e, least)
                 /\ ~WorthAtLeast(amount, p, d, a, e, least + 2)
                 /\ amount > 0 => least > 0
=============================================================================
