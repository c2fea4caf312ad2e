-------------------------------- MODULE Pricing --------------------------------
(***************************************************************************)
(* The two prices and the two conversions of the system: shared/money.ts   *)
(* (ceilDiv, the price function of stages 1 and 2, the alignment of the    *)
(* price per MB with the price per MiB), shared/usage-math.ts (micro-USD   *)
(* charged by the provider to accounting bytes, deposit to wallet size)    *)
(* and the decision of PolicyEnforcer.ts.                                  *)
(***************************************************************************)
EXTENDS Integers

CONSTANTS
  BytesPerMb, BytesPerMib,  \* 1_000_000 and 1_048_576 in the code
  Markup, Rate, Scale,      \* MARKUP_BPS, USDC_USD_RATE_BPS, 10_000_000
  RawPerCent, MaxCents,     \* 100_000, and the 10_000 cents Citrus allows
  PricePerMb, PricePerMib   \* PRICE_PER_MB_RAW, PRICE_PER_MIB_RAW

ASSUME PricingAssumption ==
  \A c \in {BytesPerMb, BytesPerMib, Markup, Rate, Scale, RawPerCent, MaxCents,
            PricePerMb, PricePerMib} : c \in Nat \ {0}

\* ceilDiv(): the smallest q with q * d >= n.
CeilDiv(n, d) == IF n = 0 THEN 0 ELSE (n + d - 1) \div d

\* The voucher for b accounting bytes, and stage 1's charge between two totals.
ExpectedAmount(b) == CeilDiv(b * PricePerMib, BytesPerMib)
ChargeDelta(now, previous) == ExpectedAmount(now) - ExpectedAmount(previous)

PricePerMibFromPerMb(p) == CeilDiv(p * BytesPerMib, BytesPerMb)
Distance(x, y) == IF x < y THEN y - x ELSE x - y
PricesAligned(mb, mib) == Distance(mib * BytesPerMb, mb * BytesPerMib) < BytesPerMb

\* Mutant: the conversion to bytes rounds up, as the price does after it.
EquivalentBytesUp(c) == CeilDiv(c * Markup * Scale, Rate * PricePerMb)

\* Accounting bytes for c micro-USD the provider has charged.
EquivalentBytes(c) == (c * Markup * Scale) \div (Rate * PricePerMb)
Bill(c) == ExpectedAmount(EquivalentBytes(c))

\* The wallet a deposit supports, in cents.
MaxWalletCents(deposit) ==
  LET cents == (deposit * Rate) \div (RawPerCent * Markup)
  IN  IF cents > MaxCents THEN MaxCents ELSE cents

\* decidePolicy(): the deposit no longer pays one whole MB more.
Cost(b) == CeilDiv(b * PricePerMb, BytesPerMb)
Exhausted(deposit, b) == (deposit - Cost(b)) \div PricePerMb <= 0
=============================================================================
