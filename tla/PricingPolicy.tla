---------------------------- MODULE PricingPolicy ----------------------------
(***************************************************************************)
(* suggestPricing: the margin the shop puts on a purchase price.  Prices    *)
(* are whole rupiah, and a price the market is not known for is 0, which    *)
(* the code treats alike.                                                   *)
(***************************************************************************)
EXTENDS Integers

Larger(a, b) == IF a >= b THEN a ELSE b

\* By tier of the base price: the least profit, and the rate in percent.
MinimumProfit(base) ==
  IF base <= 5000 THEN 2000
  ELSE IF base <= 10000 THEN 2500
  ELSE IF base <= 25000 THEN 3000
  ELSE IF base <= 50000 THEN 4000
  ELSE IF base <= 100000 THEN 5000
  ELSE 8000

Rate(base) ==
  IF base <= 5000 THEN 0
  ELSE IF base <= 10000 THEN 25
  ELSE IF base <= 25000 THEN 20
  ELSE IF base <= 100000 THEN 10
  ELSE 8

\* In hundredths of a rupiah, for the rate is in percent.
RawMargin(base) == Larger(100 * MinimumProfit(base), Rate(base) * base)

Step(base) == IF base <= 10000 THEN 500 ELSE 1000

\* n/d to the nearest multiple of step, and up from the middle.
RoundTo(n, d, step) == ((2 * n + d * step) \div (2 * d * step)) * step

PolicySellingPrice(base) == base + RoundTo(RawMargin(base), 100, Step(base))

\* The most that buying here may cost over the market, before rounding.
ConveniencePremium == 1000

\* Only a market above the base price is looked at.
SellingPrice(base, market) ==
  LET ceiling == market + ConveniencePremium
  IN  IF market > base /\ PolicySellingPrice(base) > ceiling
      THEN Larger(base, RoundTo(ceiling, 1, Step(base)))
      ELSE PolicySellingPrice(base)

\* The margin that is suggested.
SuggestedMargin(base, market) == Larger(0, SellingPrice(base, market) - base)

-----------------------------------------------------------------------------
(* Properties *)

\* What a suggestion can be held to: a rupiah profit worth having where no market
\* is looked at, and where one is a price over it by no more than the premium
\* and half a rounding step, for the rounding comes last.
IsSane(base, market, margin) ==
  /\ margin >= 0
  /\ market <= base => margin >= MinimumProfit(base)
  /\ market > base
       => base + margin <= market + ConveniencePremium + Step(base) \div 2

\* What the comment on suggestPricing says: "at most Rp1.000".
WithinPremium(base, market, margin) ==
  market > base => base + margin <= market + ConveniencePremium
=============================================================================
