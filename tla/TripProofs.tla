------------------------------- MODULE TripProofs -------------------------------
(***************************************************************************)
(* The safety of one trip of an eSIM, for every price, wallet, deposit,     *)
(* cap, number of events and of faults: nothing is billed that was not      *)
(* charged, and the closing walk ends with an empty wallet and the exact    *)
(* bill.  The theorems are about Spec; SpecOfTrips, which begins further    *)
(* trips on the same eSIM, violates BillsOwnTrip.                           *)
(***************************************************************************)
EXTENDS Trip, TLAPS

\* x bytes, or x raw units, are those of a charge the provider has reported, n so far.
Heard(x, n) == \E c \in 0..n : x = EquivalentBytes(c)
Owed(x, n) == \E c \in 0..n : x = Bill(c)

WalkPcs == {"off", "ready", "defund", "mark", "final", "voucher", "answered", "finalize"}
MemRec == [eq : Nat, signed : Nat, susp : BOOLEAN]
CliRec == [pc : WalkPcs, wait : BOOLEAN, eq : Nat, kind : Kinds]

\* TypeOK, but for the bounds that Grounded and FirstTrip add.
Shape ==
  /\ sim \in [wallet : Nat, charged : Nat, on : BOOLEAN, defund : BOOLEAN]
  /\ sent \in 0..MaxDefunds
  /\ channel \in {"none", "open", "settled"} /\ high \in Nat
  /\ row \in [step : Steps, pending : BOOLEAN, defund : {"none", "open", "settled"}]
  /\ wlog \in [1..MaxDefunds -> {"none", "recorded", "processed"}]
  /\ loop \in [pc : {"idle", "usage", "voucher", "policy", "apply"}, kind : Kinds]
  /\ mem \in MemRec /\ cli \in CliRec
  /\ zero \in BOOLEAN /\ billed \in Kinds /\ faults \in 0..MaxFaults

FirstTrip == trip = 1 /\ start = 0 /\ sim.wallet + sim.charged <= Wallet

\* Whatever was read, billed or signed is what the provider had charged at some moment.
Grounded ==
  /\ Heard(mem.eq, sim.charged) /\ Heard(cli.eq, sim.charged)
  /\ Owed(mem.signed, sim.charged) /\ Owed(high, sim.charged)

\* A settlement has been announced or observed.
Settlement ==
  \/ sent > 0 \/ row.defund = "settled" \/ row.step \in {"ultimo_vale_firmado", "canal_cerrado"}
  \/ cli.pc \in {"final", "voucher", "answered", "finalize"} \/ billed # "none"
SettledIsEmpty == working \subseteq 1..sent /\ (Settlement => sim.wallet = 0)

\* The final voucher is for all that was charged.
FinalIsExact ==
  /\ cli.pc \in {"voucher", "answered"} => cli.eq = EquivalentBytes(sim.charged)
  /\ cli.pc = "answered" /\ cli.kind = "signed" => high = Bill(sim.charged)
  /\ billed = "signed" => high = Bill(sim.charged)

Inv == Shape /\ FirstTrip /\ Grounded /\ SettledIsEmpty /\ FinalIsExact

----------------------------------------------------------------------------
(* What the roundings do, for every price, markup and rate *)

\* The quotient rounded down: q * d <= n < (q + 1) * d.
LEMMA DivFloors ==
  ASSUME NEW n \in Nat, NEW d \in Nat \ {0}
  PROVE  /\ n \div d \in Nat
         /\ (n \div d) * d <= n /\ n < (n \div d) * d + d
<1> DEFINE q == n \div d
           r == n % d
<1>1. q \in Int /\ r \in 0..(d - 1) /\ n = d * q + r
  BY SMTT(30)
<1>2. q >= 0
  BY <1>1
<1> QED
  BY <1>1, <1>2

\* ceilDiv(): "the smallest integer q such that q * denominator >= numerator"
\* (shared/money.ts).
LEMMA CeilDivIsLeast ==
  ASSUME NEW n \in Nat, NEW d \in Nat \ {0}
  PROVE  /\ CeilDiv(n, d) \in Nat /\ CeilDiv(n, d) * d >= n
         /\ \A p \in Nat : p * d >= n => CeilDiv(n, d) <= p
<1>1. CASE n = 0
  BY <1>1 DEF CeilDiv
<1>2. CASE n # 0
  <2> DEFINE q == (n + d - 1) \div d
  <2>1. n + d - 1 \in Nat
    BY <1>2
  <2>2. q \in Nat /\ q * d <= n + d - 1 /\ n + d - 1 < q * d + d
    BY <2>1, DivFloors
  <2> HIDE DEF q
  <2>3. q * d >= n
    BY <2>2
  <2>4. ASSUME NEW p \in Nat, p * d >= n, p < q
        PROVE  FALSE
    <3>1. (p + 1) * d <= q * d
      <4>1. q - (p + 1) \in Nat
        BY <2>2, <2>4
      <4>2. (q - (p + 1)) * d >= 0
        BY <4>1
      <4> QED
        BY <4>2, <2>2
    <3>2. p * d + d <= n + d - 1
      BY <3>1, <2>2
    <3> QED
      BY <3>2, <2>4
  <2>5. CeilDiv(n, d) = q
    BY <1>2 DEF CeilDiv, q
  <2> QED
    BY <2>2, <2>3, <2>4, <2>5
<1> QED
  BY <1>1, <1>2

\* What is charged for a total is a natural number, and no less for a higher total.
LEMMA ExpectedAmountGrows ==
  /\ \A b \in Nat : ExpectedAmount(b) \in Nat
  /\ \A a, b \in Nat : a <= b => ExpectedAmount(a) <= ExpectedAmount(b)
<1>1. PricePerMib \in Nat \ {0} /\ BytesPerMib \in Nat \ {0}
  BY PricingAssumption
<1>2. \A b \in Nat : b * PricePerMib \in Nat
  BY <1>1
<1>3. ASSUME NEW a \in Nat, NEW b \in Nat, a <= b
      PROVE  ExpectedAmount(a) <= ExpectedAmount(b)
  <2> DEFINE x == a * PricePerMib
             y == b * PricePerMib
             c == CeilDiv(y, BytesPerMib)
  <2>1. (b - a) * PricePerMib >= 0
    BY <1>1, <1>3
  <2>2. x \in Nat /\ y \in Nat /\ x <= y
    BY <1>1, <2>1
  <2> HIDE DEF x, y
  <2>3. c \in Nat /\ c * BytesPerMib >= y
    BY <1>1, <2>2, CeilDivIsLeast
  <2> HIDE DEF c
  <2>4. c * BytesPerMib >= x
    BY <1>1, <2>2, <2>3
  <2>5. CeilDiv(x, BytesPerMib) <= c
    BY <1>1, <2>2, <2>3, <2>4, CeilDivIsLeast
  <2> QED
    BY <2>5 DEF ExpectedAmount, x, y, c
<1>4. \A b \in Nat : ExpectedAmount(b) \in Nat
  BY <1>1, <1>2, CeilDivIsLeast DEF ExpectedAmount
<1> QED
  BY <1>3, <1>4

----------------------------------------------------------------------------
(* What is billed for what the provider charged *)

LEMMA TimesMonotone ==
  ASSUME NEW x \in Int, NEW y \in Int, NEW k \in Nat
  PROVE  /\ x <= y => x * k <= y * k
         /\ x < y /\ k # 0 => x * k < y * k
<1>1. ASSUME x <= y
      PROVE  x * k <= y * k
  <2>1. (y - x) * k >= 0
    BY <1>1
  <2> QED
    BY <2>1
<1>2. ASSUME x < y, k # 0
      PROVE  x * k < y * k
  <2>1. (y - x - 1) * k >= 0
    BY <1>2
  <2> QED
    BY <1>2, <2>1
<1> QED
  BY <1>1, <1>2

LEMMA Units ==
  /\ BytesPerMb \in Nat \ {0} /\ BytesPerMib \in Nat \ {0} /\ Rate \in Nat \ {0}
  /\ PricePerMb \in Nat \ {0} /\ PricePerMib \in Nat \ {0}
BY PricingAssumption

LEMMA Products ==
  /\ \A x, y \in Nat : x * y \in Nat
  /\ \A x, y \in Nat \ {0} : x * y \in Nat \ {0}
BY Z3

\* The factors of a conversion are positive, and c * Markup * Scale associates.
LEMMA PriceFactors ==
  /\ Rate * PricePerMb \in Nat \ {0} /\ Markup * Scale \in Nat
  /\ BytesPerMb \in Nat \ {0} /\ BytesPerMib \in Nat \ {0} /\ PricePerMb \in Nat \ {0} /\ PricePerMib \in Nat \ {0}
  /\ \A c \in Nat : c * Markup * Scale \in Nat /\ c * Markup * Scale = c * (Markup * Scale)
<1>1. /\ Rate \in Nat \ {0} /\ PricePerMb \in Nat \ {0} /\ Markup \in Nat /\ Scale \in Nat
      /\ BytesPerMb \in Nat \ {0} /\ BytesPerMib \in Nat \ {0} /\ PricePerMib \in Nat \ {0}
  BY PricingAssumption
<1>2. \A x, y, z \in Nat : x * y \in Nat /\ x * y * z = x * (y * z) /\ x * y * z \in Nat
  BY Z3
<1>3. \A x, y \in Nat \ {0} : x * y \in Nat \ {0}
  BY Z3
<1> QED
  BY <1>1, <1>2, <1>3

\* equivalentBytes(): rounded down, and no fewer bytes for a higher charge.
LEMMA EquivalentBytesGrows ==
  /\ \A c \in Nat : /\ EquivalentBytes(c) \in Nat
                    /\ EquivalentBytes(c) * (Rate * PricePerMb) <= c * Markup * Scale
  /\ \A c, d \in Nat : c <= d => EquivalentBytes(c) <= EquivalentBytes(d)
  /\ EquivalentBytes(0) = 0
<1> DEFINE r == Rate * PricePerMb
           v(c) == c * Markup * Scale
<1>1. r \in Nat \ {0} /\ \A c \in Nat : v(c) \in Nat
  BY PriceFactors
<1>2. ASSUME NEW c \in Nat
      PROVE  /\ EquivalentBytes(c) \in Nat /\ EquivalentBytes(c) * r <= v(c)
             /\ v(c) < EquivalentBytes(c) * r + r
  <2>1. EquivalentBytes(c) = v(c) \div r
    BY DEF EquivalentBytes
  <2> HIDE DEF r, v
  <2> QED
    BY <1>1, <2>1, DivFloors
<1>3. ASSUME NEW c \in Nat, NEW d \in Nat, c <= d
      PROVE  EquivalentBytes(c) <= EquivalentBytes(d)
  <2>1. v(c) <= v(d)
    BY <1>3, PriceFactors, TimesMonotone
  <2> DEFINE x == EquivalentBytes(c)
             y == EquivalentBytes(d)
  <2>2. x \in Nat /\ y \in Nat /\ x * r <= v(c) /\ v(d) < y * r + r
    BY <1>2
  <2> HIDE DEF r, v, x, y
  <2>3. SUFFICES ASSUME y + 1 <= x
                 PROVE  FALSE
    BY <2>2 DEF x, y
  <2>4. (y + 1) * r <= x * r
    BY <1>1, <2>2, <2>3, TimesMonotone
  <2>5. (y + 1) * r = y * r + r /\ x * r \in Nat /\ y * r \in Nat
    BY <1>1, <2>2
  <2> QED
    BY <1>1, <1>3, <2>1, <2>2, <2>4, <2>5
<1>4. EquivalentBytes(0) = 0
  <2>1. v(0) = 0
    BY PriceFactors
  <2>2. EquivalentBytes(0) \in Nat /\ EquivalentBytes(0) * r <= 0
    BY <1>2, <2>1
  <2> HIDE DEF r, v
  <2> DEFINE z == EquivalentBytes(0)
  <2> HIDE DEF z
  <2>3. z \in Nat /\ z * r <= 0
    BY <2>2 DEF z
  <2>4. z # 0 => z * r \in Nat \ {0}
    BY <1>1, <2>3, Products
  <2>5. z = 0
    BY <2>3, <2>4
  <2> QED
    BY <2>5 DEF z
<1> QED
  BY <1>2, <1>3, <1>4

\* The bill of a charge, and how far above the price of its bytes it may be.
LEMMA BillGrows ==
  /\ \A c \in Nat : Bill(c) \in Nat
  /\ \A c, d \in Nat : c <= d => Bill(c) <= Bill(d)
  /\ Bill(0) = 0 /\ ExpectedAmount(0) = 0
  /\ \A c \in Nat : Bill(c) = 0 \/ (Bill(c) - 1) * BytesPerMib < EquivalentBytes(c) * PricePerMib
<1>1. ExpectedAmount(0) = 0
  BY PriceFactors DEF ExpectedAmount, CeilDiv
<1>2. ASSUME NEW c \in Nat, Bill(c) # 0
      PROVE  (Bill(c) - 1) * BytesPerMib < EquivalentBytes(c) * PricePerMib
  <2> DEFINE n == EquivalentBytes(c) * PricePerMib
             q == Bill(c)
  <2>1. n \in Nat /\ q = CeilDiv(n, BytesPerMib)
    <3>1. EquivalentBytes(c) \in Nat /\ PricePerMib \in Nat
      BY EquivalentBytesGrows, Units
    <3>2. n \in Nat
      BY <3>1, Products
    <3>3. q = CeilDiv(n, BytesPerMib)
      BY DEF Bill, ExpectedAmount
    <3> QED
      BY <3>2, <3>3
  <2> HIDE DEF n, q
  <2>2. q \in Nat /\ \A p \in Nat : p * BytesPerMib >= n => q <= p
    BY <2>1, PriceFactors, CeilDivIsLeast
  <2>3. q - 1 \in Nat
    BY <1>2, <2>2 DEF q
  <2>4. ~((q - 1) * BytesPerMib >= n)
    BY <2>2, <2>3
  <2>5. (q - 1) * BytesPerMib \in Int
    BY <2>3, PriceFactors
  <2> QED
    BY <2>1, <2>4, <2>5 DEF n, q
<1> QED
  BY <1>1, <1>2, EquivalentBytesGrows, ExpectedAmountGrows DEF Bill

\* "the voucher's cumulative amount tracks what Citrus actually deducts"
\* (usage-math.ts:21-25): at the price per MiB it is less than one raw unit above.
THEOREM BillWithinPrice ==
  ASSUME NEW c \in Nat, NEW d \in Nat, c <= d
  PROVE  (Bill(c) - 1) * BytesPerMib * (Rate * PricePerMb) < d * Markup * Scale * PricePerMib
<1> DEFINE r == Rate * PricePerMb
           b == EquivalentBytes(c)
           e == Bill(c) - 1
           w == d * Markup * Scale
<1>1. /\ r \in Nat \ {0} /\ w \in Nat /\ b \in Nat /\ e \in Int
      /\ BytesPerMib \in Nat \ {0} /\ PricePerMib \in Nat \ {0}
  <2>1. r \in Nat \ {0} /\ w \in Nat
    BY PriceFactors
  <2>2. b \in Nat
    BY EquivalentBytesGrows
  <2>3. Bill(c) \in Nat
    BY BillGrows
  <2> HIDE DEF r, w, b
  <2> QED
    BY <2>1, <2>2, <2>3, Units
<1>2. b * r <= w
  <2>1. c * Markup * Scale <= w /\ c * Markup * Scale \in Nat
    BY PriceFactors, TimesMonotone
  <2>2. b * r <= c * Markup * Scale /\ b * r \in Nat
    <3>1. b * r <= c * Markup * Scale
      BY EquivalentBytesGrows
    <3> HIDE DEF b, r
    <3> QED
      BY <1>1, <3>1, Products
  <2> HIDE DEF b, r, w
  <2> QED
    BY <1>1, <2>1, <2>2
<1>3. CASE Bill(c) = 0
  <2>1. e = -1
    BY <1>3
  <2> HIDE DEF e, r, w
  <2>2. BytesPerMib * r > 0 /\ w * PricePerMib >= 0
    BY <1>1
  <2>3. e * BytesPerMib * r = -(BytesPerMib * r)
    BY <1>1, <2>1
  <2> QED
    BY <1>1, <2>2, <2>3 DEF e, r, w
<1>4. CASE Bill(c) # 0
  <2>1. e * BytesPerMib < b * PricePerMib
    BY <1>4, BillGrows
  <2> HIDE DEF e, r, w, b
  <2> DEFINE x == e * BytesPerMib
             y == b * PricePerMib
  <2>2. x \in Int /\ y \in Nat /\ x < y
    BY <1>1, <2>1
  <2> HIDE DEF x, y
  <2>3. x * r < y * r
    BY <1>1, <2>2, TimesMonotone
  <2>4. y * r = (b * r) * PricePerMib
    BY <1>1 DEF y
  <2>5. (b * r) * PricePerMib <= w * PricePerMib
    <3>1. b * r \in Nat
      BY <1>1
    <3> QED
      BY <1>1, <1>2, <3>1, TimesMonotone
  <2>6. x * r \in Int /\ y * r \in Int /\ w * PricePerMib \in Int
    BY <1>1, <2>2
  <2> QED
    BY <2>3, <2>4, <2>5, <2>6 DEF x, e, r, w
<1> QED
  BY <1>3, <1>4

\* With prices the boot takes for aligned (arePricesAligned, money.ts:95-105), the bill is
\* less than one raw unit, and one for each MiB, above the price per MB of what was charged.
THEOREM AlignedBill ==
  ASSUME NEW c \in Nat, PricesAligned(PricePerMb, PricePerMib)
  PROVE  (Bill(c) - 1) * BytesPerMib * (Rate * BytesPerMb)
           < c * Markup * Scale * BytesPerMib + EquivalentBytes(c) * (Rate * BytesPerMb)
<1> DEFINE b == EquivalentBytes(c)
           e == Bill(c) - 1
           k == Rate * BytesPerMb
           w == c * Markup * Scale
<1>1. /\ k \in Nat \ {0} /\ w \in Nat /\ b \in Nat /\ e \in Int /\ b * (Rate * PricePerMb) <= w
      /\ BytesPerMib \in Nat \ {0} /\ BytesPerMb \in Nat \ {0} /\ PricePerMib \in Nat \ {0} /\ PricePerMb \in Nat \ {0}
      /\ Rate \in Nat \ {0}
  <2>1. k \in Nat \ {0}
    BY Units, Products
  <2>2. w \in Nat
    BY PriceFactors
  <2>3. b \in Nat /\ b * (Rate * PricePerMb) <= w
    BY EquivalentBytesGrows
  <2>4. Bill(c) \in Nat
    BY BillGrows
  <2> HIDE DEF k, w, b
  <2> QED
    BY <2>1, <2>2, <2>3, <2>4, Units
<1>2. PricePerMib * BytesPerMb < PricePerMb * BytesPerMib + BytesPerMb
  <2> DEFINE x == PricePerMib * BytesPerMb
             y == PricePerMb * BytesPerMib
  <2>1. x \in Nat /\ y \in Nat
    BY <1>1
  <2>2. Distance(x, y) < BytesPerMb
    BY DEF PricesAligned
  <2> HIDE DEF x, y
  <2>3. x < y + BytesPerMb
    BY <1>1, <2>1, <2>2 DEF Distance
  <2> QED
    BY <2>3 DEF x, y
<1>3. e * BytesPerMib * k <= b * PricePerMib * k
  <2>1. e * BytesPerMib <= b * PricePerMib
    <3>1. CASE Bill(c) = 0
      <4>1. e * BytesPerMib = -BytesPerMib /\ b * PricePerMib \in Nat
        BY <1>1, <3>1
      <4> QED
        BY <1>1, <4>1
    <3>2. CASE Bill(c) # 0
      <4>1. e * BytesPerMib < b * PricePerMib
        BY <3>2, BillGrows
      <4>2. e * BytesPerMib \in Int /\ b * PricePerMib \in Int
        BY <1>1
      <4> QED
        BY <4>1, <4>2
    <3> QED
      BY <3>1, <3>2
  <2> HIDE DEF e, b, k
  <2>2. e * BytesPerMib \in Int /\ b * PricePerMib \in Int
    BY <1>1
  <2> QED
    BY <1>1, <2>1, <2>2, TimesMonotone
<1>4. CASE Bill(c) = 0
  <2>1. e * BytesPerMib = -BytesPerMib
    BY <1>1, <1>4
  <2>2. w * BytesPerMib + b * k \in Nat /\ BytesPerMib * k \in Nat \ {0}
    <3> HIDE DEF w, b, k
    <3> QED
      BY <1>1, Products
  <2> HIDE DEF e, w, b, k
  <2>3. e * BytesPerMib * k = -(BytesPerMib * k)
    BY <1>1, <2>1
  <2> QED
    BY <2>2, <2>3 DEF e, w, b, k
<1>5. CASE Bill(c) # 0
  <2> DEFINE s == PricePerMib * BytesPerMb
             t == PricePerMb * BytesPerMib
             m == b * Rate
  <2>1. b # 0
    <3>1. b = 0 => Bill(c) = 0
      BY BillGrows DEF Bill
    <3> QED
      BY <1>5, <3>1
  <2> HIDE DEF b, e, w, k
  <2>2. m \in Nat \ {0} /\ s \in Nat /\ t \in Nat /\ s < t + BytesPerMb
    BY <1>1, <1>2, <2>1, Products
  <2>3. b * PricePerMib * k = m * s
    BY <1>1 DEF k
  <2>4. m * BytesPerMb = b * k /\ m * t = (b * (Rate * PricePerMb)) * BytesPerMib
    BY <1>1 DEF k
  <2>5. (b * (Rate * PricePerMb)) * BytesPerMib <= w * BytesPerMib
    <3>1. b * (Rate * PricePerMb) \in Nat
      BY <1>1, Products
    <3> QED
      BY <1>1, <3>1, TimesMonotone
  <2>6. m * s \in Nat /\ m * t \in Nat /\ m * BytesPerMb \in Nat /\ w * BytesPerMib \in Nat
        /\ e * BytesPerMib * k \in Int
    BY <1>1, <2>2, Products
  <2>7. m * s < m * t + m * BytesPerMb
    <3> HIDE DEF m, s, t
    <3>1. s * m < (t + BytesPerMb) * m
      BY <1>1, <2>2, TimesMonotone
    <3> QED
      BY <1>1, <2>2, <3>1
  <2> HIDE DEF m, s, t
  <2>8. e * BytesPerMib * k < w * BytesPerMib + b * k
    BY <1>3, <2>3, <2>4, <2>5, <2>6, <2>7
  <2> QED
    BY <2>8 DEF e, w, b, k
<1> QED
  BY <1>4, <1>5

----------------------------------------------------------------------------
(* The aligned price, and the policy *)

\* ceilDiv() exceeds the quotient by less than one.
LEMMA CeilDivBetween ==
  ASSUME NEW n \in Nat, NEW d \in Nat \ {0}
  PROVE  CeilDiv(n, d) \in Nat /\ n <= CeilDiv(n, d) * d /\ CeilDiv(n, d) * d < n + d
<1> DEFINE q == CeilDiv(n, d)
<1>1. q \in Nat /\ q * d >= n /\ \A p \in Nat : p * d >= n => q <= p
  BY CeilDivIsLeast
<1> HIDE DEF q
<1>2. CASE q = 0
  <2>1. q * d = 0
    BY <1>2
  <2> QED
    BY <1>1, <2>1, <1>2 DEF q
<1>3. CASE q # 0
  <2>1. q - 1 \in Nat /\ ~(q <= q - 1)
    BY <1>1, <1>3
  <2>2. ~((q - 1) * d >= n)
    BY <1>1, <2>1
  <2>3. (q - 1) * d = q * d - d /\ q * d \in Nat
    BY <1>1
  <2>4. q * d < n + d
    BY <2>2, <2>3
  <2> QED
    BY <1>1, <2>4 DEF q
<1> QED
  BY <1>2, <1>3

\* Multiples of d that are less than d apart are in order.
LEMMA Closer ==
  ASSUME NEW x \in Nat, NEW y \in Nat, NEW d \in Nat \ {0}, x * d < y * d + d
  PROVE  x <= y
<1>1. ASSUME y + 1 <= x
      PROVE  FALSE
  <2>1. (y + 1) * d <= x * d /\ (y + 1) * d = y * d + d
    BY <1>1, TimesMonotone
  <2>2. x * d \in Nat /\ y * d + d \in Nat
    BY Products
  <2> QED
    BY <2>1, <2>2
<1> QED
  BY <1>1

\* arePricesAligned() accepts the floor and the ceiling of the exact conversion, and nothing
\* else (money.ts:95-105); so it accepts what pricePerMibFromPerMbRaw() gives.
THEOREM AlignedIsRounded ==
  ASSUME NEW p \in Nat, NEW q \in Nat
  PROVE  PricesAligned(p, q) <=> q \in {(p * BytesPerMib) \div BytesPerMb, PricePerMibFromPerMb(p)}
<1> DEFINE n == p * BytesPerMib
           d == BytesPerMb
           f == n \div d
           c == CeilDiv(n, d)
           m == q * d
<1>1. n \in Nat /\ d \in Nat \ {0} /\ m \in Nat
  BY Units, Products
<1> HIDE DEF n, d
<1>2. f \in Nat /\ f * d <= n /\ n < f * d + d
  BY <1>1, DivFloors
<1>3. c \in Nat /\ n <= c * d /\ c * d < n + d
  BY <1>1, CeilDivBetween
<1> HIDE DEF f, c
<1>4. f * d \in Nat /\ c * d \in Nat
  BY <1>1, <1>2, <1>3, Products
<1>5. PricesAligned(p, q) <=> Distance(m, n) < d
  BY DEF PricesAligned, n, d
<1>6. ASSUME Distance(m, n) < d, m < n
      PROVE  q = f
  <2>1. m < f * d + d /\ f * d < m + d
    <3> HIDE DEF m
    <3> QED
      BY <1>1, <1>2, <1>4, <1>6 DEF Distance
  <2>2. q <= f /\ f <= q
    BY <1>1, <1>2, <2>1, Closer
  <2> QED
    BY <1>2, <2>2
<1>7. ASSUME Distance(m, n) < d, ~(m < n)
      PROVE  q = c
  <2>1. m < c * d + d /\ c * d < m + d
    <3> HIDE DEF m
    <3> QED
      BY <1>1, <1>3, <1>4, <1>7 DEF Distance
  <2>2. q <= c /\ c <= q
    BY <1>1, <1>3, <2>1, Closer
  <2> QED
    BY <1>3, <2>2
<1>8. ASSUME q = f \/ q = c
      PROVE  Distance(m, n) < d
  <2>1. m = f * d \/ m = c * d
    BY <1>8
  <2> HIDE DEF m
  <2> QED
    BY <1>1, <1>2, <1>3, <1>4, <2>1 DEF Distance
<1>9. PricePerMibFromPerMb(p) = c /\ (p * BytesPerMib) \div BytesPerMb = f
  BY DEF PricePerMibFromPerMb, c, f, n, d
<1> QED
  BY <1>5, <1>6, <1>7, <1>8, <1>9

\* A quotient is positive when the divisor goes into the number.
LEMMA PositiveQuotient ==
  ASSUME NEW x \in Int, NEW d \in Nat \ {0}
  PROVE  x \div d <= 0 <=> x < d
<1> DEFINE q == x \div d
           r == x % d
<1>1. q \in Int /\ r \in 0..(d - 1) /\ x = d * q + r
  BY SMTT(30)
<1> HIDE DEF q, r
<1>2. CASE q <= 0
  <2>1. d * q <= 0
    BY <1>2, <1>1
  <2> QED
    BY <1>1, <1>2, <2>1 DEF q
<1>3. CASE q > 0
  <2>1. d * (q - 1) >= 0 /\ d * q = d * (q - 1) + d
    BY <1>3, <1>1
  <2> QED
    BY <1>1, <1>3, <2>1 DEF q
<1> QED
  BY <1>1, <1>2, <1>3

\* decidePolicy() lets a trip go on exactly while the deposit covers what was used and one
\* whole MB more, rounded as the bill of both together is (PolicyEnforcer.ts:84-107).
THEOREM PolicyLeavesAMegabyte ==
  ASSUME NEW dep \in Nat, NEW b \in Nat
  PROVE  ~Exhausted(dep, b) <=> Cost(b + BytesPerMb) <= dep
<1> DEFINE d == BytesPerMb
           n == b * PricePerMb
           more == n + PricePerMb * d
           q == CeilDiv(n, d)
           next == CeilDiv(more, d)
<1>1. d \in Nat \ {0} /\ PricePerMb \in Nat \ {0} /\ n \in Nat /\ PricePerMb * d \in Nat
  BY Units, Products
<1>2. (b + d) * PricePerMb = more
  BY <1>1
<1>3. Cost(b) = q /\ Cost(b + BytesPerMb) = next
  BY <1>2 DEF Cost
<1> HIDE DEF d, n
<1>4. more \in Nat
  BY <1>1
<1>5. q \in Nat /\ q * d >= n /\ \A p \in Nat : p * d >= n => q <= p
  BY <1>1, CeilDivIsLeast
<1>6. next \in Nat /\ next * d >= more /\ \A p \in Nat : p * d >= more => next <= p
  BY <1>1, <1>4, CeilDivIsLeast
<1> HIDE DEF q, next
<1>7. next <= q + PricePerMb
  <2>1. (q + PricePerMb) * d = q * d + PricePerMb * d /\ q * d \in Nat
    BY <1>1, <1>5
  <2>2. (q + PricePerMb) * d >= more
    BY <1>1, <1>5, <2>1
  <2> QED
    BY <1>1, <1>5, <1>6, <2>2
<1>8. q + PricePerMb <= next
  <2>1. (next - PricePerMb) * d = next * d - PricePerMb * d /\ next * d \in Nat
    BY <1>1, <1>6
  <2>2. (next - PricePerMb) * d >= n
    BY <1>1, <1>4, <1>6, <2>1
  <2>3. next - PricePerMb >= 0
    <3>1. ASSUME next - PricePerMb < 0
          PROVE  FALSE
      <4>1. (next - PricePerMb) * d < 0 * d
        BY <1>1, <1>6, <3>1, TimesMonotone
      <4> QED
        BY <1>1, <2>1, <2>2, <4>1
    <3> QED
      BY <1>1, <1>6, <3>1
  <2>4. next - PricePerMb \in Nat
    BY <1>1, <1>6, <2>3
  <2>5. q <= next - PricePerMb
    BY <1>5, <2>2, <2>4
  <2> QED
    BY <1>1, <1>5, <1>6, <2>5
<1>9. next = q + PricePerMb
  BY <1>1, <1>5, <1>6, <1>7, <1>8
<1>10. Exhausted(dep, b) <=> dep - q < PricePerMb
  BY <1>1, <1>3, <1>5, PositiveQuotient DEF Exhausted
<1> QED
  BY <1>1, <1>3, <1>5, <1>9, <1>10

----------------------------------------------------------------------------
(* What was heard and what is owed *)

LEMMA HeardAndOwed ==
  /\ \A n \in Nat : Heard(0, n) /\ Owed(0, n) /\ Heard(EquivalentBytes(n), n)
  /\ \A n, m \in Nat : \A x : n <= m => /\ Heard(x, n) => Heard(x, m)
                                        /\ Owed(x, n) => Owed(x, m)
  /\ \A n \in Nat : \A x : /\ Heard(x, n) => x \in Nat /\ Owed(ExpectedAmount(x), n)
                           /\ Owed(x, n) => x \in Nat /\ x <= Bill(n)
<1>1. ASSUME NEW n \in Nat
      PROVE  0 \in 0..n /\ n \in 0..n /\ \A c \in 0..n : c \in Nat /\ c <= n
  OBVIOUS
<1>2. \A n \in Nat : Heard(0, n) /\ Owed(0, n) /\ Heard(EquivalentBytes(n), n)
  BY <1>1, EquivalentBytesGrows, BillGrows DEF Heard, Owed
<1>3. \A n, m \in Nat : n <= m => \A c \in 0..n : c \in 0..m
  OBVIOUS
<1>4. \A n, m \in Nat : \A x : n <= m => /\ Heard(x, n) => Heard(x, m)
                                         /\ Owed(x, n) => Owed(x, m)
  BY <1>3 DEF Heard, Owed
<1>5. ASSUME NEW n \in Nat, NEW x, Heard(x, n)
      PROVE  x \in Nat /\ Owed(ExpectedAmount(x), n)
  <2>1. PICK c \in 0..n : x = EquivalentBytes(c)
    BY <1>5 DEF Heard
  <2>2. x \in Nat
    BY <1>1, <2>1, EquivalentBytesGrows
  <2>3. ExpectedAmount(x) = Bill(c)
    BY <2>1 DEF Bill
  <2> QED
    BY <2>2, <2>3 DEF Owed
<1>6. ASSUME NEW n \in Nat, NEW x, Owed(x, n)
      PROVE  x \in Nat /\ x <= Bill(n)
  <2>1. PICK c \in 0..n : x = Bill(c)
    BY <1>6 DEF Owed
  <2> QED
    BY <1>1, <2>1, BillGrows
<1> QED
  BY <1>2, <1>4, <1>5, <1>6

LEMMA Bounds ==
  /\ Wallet \in Nat /\ Deposit \in Nat /\ MaxFaults \in Nat /\ MaxDefunds \in Nat /\ MaxDefunds > 0
  /\ Trips \in Nat /\ Trips > 0 /\ Wallet * Trips \in Nat /\ Wallet <= Wallet * Trips
<1>1. Wallet \in Nat /\ Trips \in Nat \ {0}
  BY TripAssumption
<1>2. Wallet * Trips = Wallet * (Trips - 1) + Wallet /\ Wallet * (Trips - 1) \in Nat
  BY <1>1
<1> QED
  BY <1>1, <1>2, TripAssumption

\* With the register and the consumption grounded, the types have their bounds.
LEMMA InvTypes == ASSUME Inv PROVE TypeOK
<1>1. sim.wallet \in Nat /\ sim.charged \in Nat /\ sim.wallet + sim.charged <= Wallet
  BY DEF Inv, Shape, FirstTrip
<1>2. sim.wallet \in 0..Wallet /\ sim.charged \in Charged /\ 0 \in Charged
  BY <1>1, Bounds DEF Charged
<1>3. \A c \in 0..sim.charged : c \in Charged
  BY <1>1, Bounds DEF Charged
<1>4. /\ mem.eq \in Bytes /\ cli.eq \in Bytes /\ mem.signed \in Amounts /\ high \in Amounts
  BY <1>3 DEF Inv, Grounded, Heard, Owed, Bytes, Amounts
<1>5. sim \in [wallet : 0..Wallet, charged : Charged, on : BOOLEAN, defund : BOOLEAN]
  BY <1>2 DEF Inv, Shape
<1>6. mem \in [eq : Bytes, signed : Amounts, susp : BOOLEAN]
  BY <1>4 DEF Inv, Shape, MemRec
<1>7. cli \in [pc : WalkPcs, wait : BOOLEAN, eq : Bytes, kind : Kinds]
  BY <1>4 DEF Inv, Shape, CliRec
<1>8. working \subseteq 1..MaxDefunds
  BY Bounds DEF Inv, Shape, SettledIsEmpty
<1>9. trip \in 1..Trips /\ start \in Charged
  BY <1>2, Bounds DEF Inv, FirstTrip
<1> QED
  BY <1>4, <1>5, <1>6, <1>7, <1>8, <1>9 DEF Inv, Shape, TypeOK, WalkPcs

\* The fields that the steps read.
LEMMA Fields ==
  ASSUME Shape
  PROVE  /\ sim.wallet \in Nat /\ sim.charged \in Nat /\ sent \in Nat /\ high \in Nat
         /\ mem.eq \in Nat /\ mem.signed \in Nat /\ cli.eq \in Nat
         /\ sim = [wallet |-> sim.wallet, charged |-> sim.charged, on |-> sim.on, defund |-> sim.defund]
         /\ sim.on \in BOOLEAN /\ sim.defund \in BOOLEAN
BY Bounds DEF Shape, MemRec, CliRec

\* suspend() and resume() touch the switch alone.
LEMMA SwitchOnly ==
  ASSUME Shape, SuspendSim \/ ResumeSim \/ UNCHANGED sim
  PROVE  /\ sim' \in [wallet : Nat, charged : Nat, on : BOOLEAN, defund : BOOLEAN]
         /\ sim'.wallet = sim.wallet /\ sim'.charged = sim.charged
BY DEF Shape, SuspendSim, ResumeSim

\* A voucher that is signed, refused or lost leaves the register where it was or puts it
\* at an amount that is owed, and no lower.
LEMMA VoucherOnly ==
  ASSUME Inv, NEW eq, Heard(eq, sim.charged), Refuses(ExpectedAmount(eq))
  PROVE  /\ high' \in Nat /\ high <= high' /\ Owed(high', sim.charged)
         /\ Signs(ExpectedAmount(eq)) => high' = ExpectedAmount(eq)
<1>1. sim.charged \in Nat /\ high \in Nat
  BY Fields DEF Inv
<1>2. Owed(ExpectedAmount(eq), sim.charged) /\ ExpectedAmount(eq) \in Nat
  BY <1>1, HeardAndOwed
<1>3. Owed(high, sim.charged)
  BY DEF Inv, Grounded
<1> QED
  BY <1>1, <1>2, <1>3 DEF Refuses, Signs

\* Once the register is at the whole bill it can go no higher.
LEMMA BillIsTop ==
  ASSUME NEW n \in Nat, NEW h \in Nat, h = Bill(n), NEW h1 \in Nat, h <= h1, Owed(h1, n)
  PROVE  h1 = Bill(n)
<1>1. h1 <= Bill(n)
  BY HeardAndOwed
<1> QED
  BY <1>1

----------------------------------------------------------------------------
(* Citrus and its events *)

LEMMA CitrusInv ==
  ASSUME Inv, Consume \/ Settle
  PROVE  Inv'
<1>1. /\ sim.wallet \in Nat /\ sim.charged \in Nat /\ sent \in 0..MaxDefunds /\ MaxDefunds \in Nat /\ MaxDefunds > 0
      /\ sim \in [wallet : Nat, charged : Nat, on : BOOLEAN, defund : BOOLEAN] /\ Wallet \in Nat
  BY Fields, Bounds DEF Inv, Shape
<1>2. UNCHANGED <<channel, high, row, wlog, working, loop, mem, cli, zero, billed, trip, start, faults>>
  BY DEF Consume, Settle, hooks, usage, closer, history, past
<1>3. CASE Consume
  <2>1. /\ sim' = [sim EXCEPT !.wallet = sim.wallet - 1, !.charged = sim.charged + 1]
        /\ sim.wallet > 0 /\ sent' = sent
    BY <1>3 DEF Consume, hooks
  <2>2. /\ sim' \in [wallet : Nat, charged : Nat, on : BOOLEAN, defund : BOOLEAN]
        /\ sim'.wallet = sim.wallet - 1 /\ sim'.charged = sim.charged + 1
    <3> DEFINE w == sim.wallet - 1
               n == sim.charged + 1
    <3>1. w \in Nat /\ n \in Nat
      BY <1>1, <2>1
    <3>2. sim' = [sim EXCEPT !.wallet = w, !.charged = n]
      BY <2>1
    <3> HIDE DEF w, n
    <3>3. sim' \in [wallet : Nat, charged : Nat, on : BOOLEAN, defund : BOOLEAN] /\ sim'.wallet = w /\ sim'.charged = n
      BY <1>1, <3>1, <3>2
    <3> QED
      BY <3>3 DEF w, n
  <2>3. Shape'
    BY <1>2, <2>1, <2>2 DEF Inv, Shape
  <2>4. FirstTrip'
    BY <1>1, <1>2, <2>2 DEF Inv, FirstTrip
  <2>5. Grounded'
    <3>1. sim.charged <= sim'.charged /\ sim'.charged \in Nat
      BY <1>1, <2>2
    <3> QED
      BY <1>1, <1>2, <3>1, HeardAndOwed DEF Inv, Grounded
  <2>6. ~Settlement /\ ~Settlement'
    BY <1>1, <1>2, <2>1 DEF Inv, SettledIsEmpty, Settlement
  <2>7. SettledIsEmpty' /\ FinalIsExact'
    BY <1>2, <2>1, <2>6 DEF Inv, SettledIsEmpty, FinalIsExact, Settlement
  <2> QED
    BY <2>3, <2>4, <2>5, <2>7 DEF Inv
<1>4. CASE Settle
  <2>1. /\ sim' \in [wallet : Nat, charged : Nat, on : BOOLEAN, defund : BOOLEAN]
        /\ sim'.wallet = 0 /\ sim'.charged = sim.charged
        /\ sent' \in 0..MaxDefunds /\ sent <= sent'
    <3>1. sim' = [sim EXCEPT !.wallet = 0, !.defund = FALSE, !.on = TRUE]
          /\ sent' = IF sent < MaxDefunds THEN sent + 1 ELSE sent
      BY <1>4 DEF Settle
    <3>2. sent' \in 0..MaxDefunds /\ sent <= sent'
      BY <1>1, <3>1
    <3>3. /\ sim' \in [wallet : Nat, charged : Nat, on : BOOLEAN, defund : BOOLEAN]
          /\ sim'.wallet = 0 /\ sim'.charged = sim.charged
      BY <1>1, <3>1
    <3> QED
      BY <3>2, <3>3
  <2>2. Shape'
    BY <1>2, <2>1 DEF Inv, Shape
  <2>3. FirstTrip'
    BY <1>1, <1>2, <2>1 DEF Inv, FirstTrip
  <2>4. Grounded' /\ FinalIsExact'
    BY <1>2, <2>1 DEF Inv, Grounded, FinalIsExact
  <2>5. SettledIsEmpty'
    BY <1>1, <1>2, <2>1 DEF Inv, SettledIsEmpty
  <2> QED
    BY <2>2, <2>3, <2>4, <2>5 DEF Inv
<1> QED
  BY <1>3, <1>4

LEMMA WebhookInv ==
  ASSUME Inv, (\E e \in 1..MaxDefunds : Deliver(e) \/ Process(e) \/ ProcessFails(e)) \/ ServerRestarts
  PROVE  Inv'
<1>1. UNCHANGED <<sim, sent, channel, high, loop, mem, cli, zero, billed, trip, start>>
  BY DEF Deliver, Process, ProcessFails, ServerRestarts, citrus, usage, closer, history, past
<1>2. faults' \in 0..MaxFaults
  <2>1. faults' = faults \/ Fault
    BY DEF Deliver, Process, ProcessFails, ServerRestarts, history
  <2> QED
    BY <2>1, Bounds DEF Fault, Inv, Shape
<1>3. row' = row \/ (row' = [row EXCEPT !.defund = "settled"] /\ working # {})
  BY DEF Deliver, Process, ProcessFails, ServerRestarts
<1>4. sent \in Nat /\ working \subseteq 1..sent
  BY Fields DEF Inv, SettledIsEmpty
<1>5. working' \subseteq 1..sent /\ wlog' \in [1..MaxDefunds -> {"none", "recorded", "processed"}]
  BY <1>4 DEF Deliver, Process, ProcessFails, ServerRestarts, Inv, Shape
<1>6. /\ row' \in [step : Steps, pending : BOOLEAN, defund : {"none", "open", "settled"}]
      /\ row'.step = row.step /\ (row'.defund = row.defund \/ sent > 0)
  BY <1>3, <1>4 DEF Inv, Shape
<1>7. Shape'
  BY <1>1, <1>2, <1>5, <1>6 DEF Inv, Shape
<1>8. FirstTrip' /\ Grounded' /\ FinalIsExact'
  BY <1>1 DEF Inv, FirstTrip, Grounded, FinalIsExact
<1>9. SettledIsEmpty'
  BY <1>1, <1>5, <1>6 DEF Inv, SettledIsEmpty, Settlement
<1> QED
  BY <1>7, <1>8, <1>9 DEF Inv

----------------------------------------------------------------------------
(* The usage loop *)

\* A step of the loop: the SIM's switch, a voucher, and readings of what was charged.
LEMMA LoopInvariant ==
  ASSUME Inv, UNCHANGED <<channel, row, sent, wlog, working, cli, zero, billed, trip, start>>,
         SuspendSim \/ ResumeSim \/ UNCHANGED sim,
         high' \in Nat, high <= high', Owed(high', sim.charged),
         loop' \in [pc : {"idle", "usage", "voucher", "policy", "apply"}, kind : Kinds],
         mem' \in MemRec, Heard(mem'.eq, sim.charged), Owed(mem'.signed, sim.charged),
         faults' \in 0..MaxFaults
  PROVE  Inv'
<1>1. /\ sim' \in [wallet : Nat, charged : Nat, on : BOOLEAN, defund : BOOLEAN]
      /\ sim'.wallet = sim.wallet /\ sim'.charged = sim.charged
  BY SwitchOnly DEF Inv
<1>2. sim.charged \in Nat /\ high \in Nat
  BY Fields DEF Inv
<1>3. Shape'
  BY <1>1 DEF Inv, Shape
<1>4. FirstTrip' /\ Grounded' /\ SettledIsEmpty'
  BY <1>1 DEF Inv, FirstTrip, Grounded, SettledIsEmpty, Settlement
<1>5. high = Bill(sim.charged) => high' = Bill(sim.charged)
  BY <1>2, BillIsTop
<1>6. FinalIsExact'
  BY <1>1, <1>5 DEF Inv, FinalIsExact
<1> QED
  BY <1>3, <1>4, <1>6 DEF Inv

LEMMA UsageInv ==
  ASSUME Inv, Tick \/ LoopApplyFails \/ LoopFails \/ LoopRestarts \/ EnforcerSuspends
  PROVE  Inv'
<1>1. /\ high \in Nat /\ sim.charged \in Nat /\ mem.eq \in Nat /\ mem.signed \in Nat /\ mem \in MemRec
      /\ loop \in [pc : {"idle", "usage", "voucher", "policy", "apply"}, kind : Kinds]
      /\ Heard(mem.eq, sim.charged) /\ Owed(mem.signed, sim.charged) /\ Owed(high, sim.charged)
      /\ LoopOff \in [pc : {"idle", "usage", "voucher", "policy", "apply"}, kind : Kinds]
  BY Fields DEF Inv, Shape, Grounded, LoopOff, Kinds
<1>2. UNCHANGED <<channel, row, sent, wlog, working, cli, zero, billed, trip, start>>
  BY DEF Tick, LoopStarts, LoopReads, LoopSigned, LoopUnsigned, LoopPolicy, LoopApplies, LoopApplyFails,
         LoopFails, LoopRestarts, EnforcerSuspends, hooks, closer, history, past
<1>3. faults' \in 0..MaxFaults
  <2>1. faults' = faults \/ Fault
    BY DEF Tick, LoopStarts, LoopReads, LoopSigned, LoopUnsigned, LoopPolicy, LoopApplies, LoopApplyFails,
           LoopFails, LoopRestarts, EnforcerSuspends, history
  <2> QED
    BY <2>1, Bounds DEF Fault, Inv, Shape
<1>4. SuspendSim \/ ResumeSim \/ UNCHANGED sim
  BY DEF Tick, LoopStarts, LoopReads, LoopSigned, LoopUnsigned, LoopPolicy, LoopApplies, LoopApplyFails,
         LoopFails, LoopRestarts, EnforcerSuspends, CapEffect
<1>5. high' \in Nat /\ high <= high' /\ Owed(high', sim.charged)
  <2>1. UNCHANGED high \/ Refuses(ExpectedAmount(mem.eq))
    BY DEF Tick, LoopStarts, LoopReads, LoopSigned, LoopUnsigned, LoopPolicy, LoopApplies, LoopApplyFails,
           LoopFails, LoopRestarts, EnforcerSuspends, Refuses
  <2> QED
    BY <1>1, <2>1, VoucherOnly
<1>6. loop' \in [pc : {"idle", "usage", "voucher", "policy", "apply"}, kind : Kinds]
  BY <1>1 DEF Tick, LoopStarts, LoopReads, LoopSigned, LoopUnsigned, LoopPolicy, LoopApplies, LoopApplyFails,
              LoopFails, LoopRestarts, EnforcerSuspends, LoopOff, Kinds, usage
<1>7. mem' \in MemRec /\ Heard(mem'.eq, sim.charged) /\ Owed(mem'.signed, sim.charged)
  <2>1. CASE UNCHANGED mem
    BY <1>1, <2>1
  <2>2. CASE LoopReads
    <3> DEFINE eq == MaxSeen(EquivalentBytes(Reported), mem.eq)
    <3>1. Reported = sim.charged
      BY <1>1 DEF Reported, Baseline
    <3>2. Heard(eq, sim.charged) /\ eq \in Nat
      <4>1. Heard(EquivalentBytes(sim.charged), sim.charged)
        BY <1>1, HeardAndOwed
      <4>2. Heard(eq, sim.charged)
        BY <1>1, <3>1, <4>1 DEF MaxSeen
      <4> QED
        BY <1>1, <4>2, HeardAndOwed
    <3>3. mem' = [mem EXCEPT !.eq = eq]
      BY <2>2 DEF LoopReads
    <3> HIDE DEF eq
    <3>4. mem' \in MemRec /\ mem'.eq = eq /\ mem'.signed = mem.signed
      BY <1>1, <3>2, <3>3 DEF MemRec
    <3> QED
      BY <1>1, <3>2, <3>4
  <2>3. ASSUME NEW susp \in BOOLEAN, mem' = [mem EXCEPT !.signed = LastSigned, !.susp = susp]
        PROVE  mem' \in MemRec /\ Heard(mem'.eq, sim.charged) /\ Owed(mem'.signed, sim.charged)
    <3>1. Owed(ExpectedAmount(mem.eq), sim.charged)
      BY <1>1, HeardAndOwed
    <3>2. Owed(LastSigned, sim.charged)
      BY <1>1, <3>1 DEF LastSigned
    <3>3. LastSigned \in Nat
      BY <1>1, <3>2, HeardAndOwed
    <3>4. mem' \in MemRec /\ mem'.eq = mem.eq /\ mem'.signed = LastSigned
      BY <1>1, <2>3, <3>3 DEF MemRec
    <3> QED
      BY <1>1, <3>2, <3>4
  <2>4. CASE LoopApplies
    <3>1. UnpaidActive \in BOOLEAN
      BY DEF UnpaidActive
    <3> QED
      BY <2>3, <2>4, <3>1 DEF LoopApplies
  <2>5. CASE LoopApplyFails
    <3>1. mem.susp \in BOOLEAN
      BY <1>1 DEF MemRec
    <3>2. [mem EXCEPT !.signed = LastSigned] = [mem EXCEPT !.signed = LastSigned, !.susp = mem.susp]
      BY <1>1 DEF MemRec
    <3> QED
      BY <2>3, <2>5, <3>1, <3>2 DEF LoopApplyFails
  <2>6. CASE LoopRestarts
    <3>1. mem' \in MemRec /\ mem'.eq = 0 /\ mem'.signed = 0
      BY <2>6 DEF LoopRestarts, MemRec
    <3> QED
      BY <1>1, <3>1, HeardAndOwed
  <2> QED
    BY <2>1, <2>2, <2>4, <2>5, <2>6
    DEF Tick, LoopStarts, LoopSigned, LoopUnsigned, LoopPolicy, LoopFails, EnforcerSuspends, usage
<1> QED
  BY <1>2, <1>3, <1>4, <1>5, <1>6, <1>7, LoopInvariant

----------------------------------------------------------------------------
(* close-session.ts and SessionCloser *)

\* A step of the walk consumes nothing: what it must show is that it passes on to the
\* final reading only with an empty wallet, and what the final voucher is for.
LEMMA WalkInvariant ==
  ASSUME Inv, UNCHANGED <<sent, wlog, working, loop, mem, trip, start>>,
         sim' \in [wallet : Nat, charged : Nat, on : BOOLEAN, defund : BOOLEAN],
         sim'.wallet = sim.wallet, sim'.charged = sim.charged,
         channel' \in {"none", "open", "settled"},
         high' \in Nat, high <= high', Owed(high', sim.charged),
         row' \in [step : Steps, pending : BOOLEAN, defund : {"none", "open", "settled"}],
         cli' \in CliRec, Heard(cli'.eq, sim.charged),
         zero' \in BOOLEAN, billed' \in Kinds, faults' \in 0..MaxFaults,
         Settlement' => Settlement \/ sim.wallet = 0,
         cli'.pc \in {"voucher", "answered"} => cli'.eq = EquivalentBytes(sim.charged),
         cli'.pc = "answered" /\ cli'.kind = "signed" => high' = Bill(sim.charged),
         billed' = billed \/ (billed' = "signed" => high = Bill(sim.charged))
  PROVE  Inv'
<1>1. sim.charged \in Nat /\ high \in Nat
  BY Fields DEF Inv
<1>2. high = Bill(sim.charged) => high' = Bill(sim.charged)
  BY <1>1, BillIsTop
<1>3. Shape'
  BY DEF Inv, Shape
<1>4. FirstTrip' /\ Grounded'
  BY DEF Inv, FirstTrip, Grounded
<1>5. SettledIsEmpty'
  BY DEF Inv, SettledIsEmpty
<1>6. FinalIsExact'
  BY <1>2 DEF Inv, FinalIsExact
<1> QED
  BY <1>3, <1>4, <1>5, <1>6 DEF Inv

\* The records the CLI is left with.
LEMMA CliStates ==
  ASSUME Shape
  PROVE  /\ CliOff \in CliRec /\ CliOff.pc = "off" /\ CliOff.eq = 0
         /\ \A w \in BOOLEAN : /\ [CliOff EXCEPT !.pc = "ready", !.wait = w] \in CliRec
                               /\ [CliOff EXCEPT !.pc = "ready", !.wait = w].pc = "ready"
                               /\ [CliOff EXCEPT !.pc = "ready", !.wait = w].eq = 0
         /\ \A pc \in WalkPcs : /\ [cli EXCEPT !.pc = pc] \in CliRec /\ [cli EXCEPT !.pc = pc].pc = pc
                                /\ [cli EXCEPT !.pc = pc].eq = cli.eq
         /\ StepDone => cli' \in CliRec /\ cli'.pc \in {"off", "ready"} /\ cli'.eq = 0
<1>1. cli \in CliRec
  BY DEF Shape
<1>2. CliOff \in CliRec /\ CliOff.pc = "off" /\ CliOff.eq = 0
  BY DEF CliOff, CliRec, WalkPcs, Kinds
<1>3. ASSUME NEW w \in BOOLEAN
      PROVE  /\ [CliOff EXCEPT !.pc = "ready", !.wait = w] \in CliRec
             /\ [CliOff EXCEPT !.pc = "ready", !.wait = w].pc = "ready"
             /\ [CliOff EXCEPT !.pc = "ready", !.wait = w].eq = 0
  BY <1>2 DEF CliRec, WalkPcs
<1>4. ASSUME NEW pc \in WalkPcs
      PROVE  /\ [cli EXCEPT !.pc = pc] \in CliRec /\ [cli EXCEPT !.pc = pc].pc = pc
             /\ [cli EXCEPT !.pc = pc].eq = cli.eq
  BY <1>1 DEF CliRec
<1>5. ASSUME StepDone
      PROVE  cli' \in CliRec /\ cli'.pc \in {"off", "ready"} /\ cli'.eq = 0
  BY <1>2, <1>3, <1>5 DEF StepDone
<1> QED
  BY <1>2, <1>3, <1>4, <1>5

\* The walk before the settlement, and every end of a turn of it.
LEMMA EarlyWalkInv ==
  ASSUME Inv,
         \/ CliStarts \/ CliEnds \/ Defund \/ DefundRefused \/ DefundFails \/ DefundAnswered
         \/ DefundMarked \/ KeepsWaiting \/ PollFails \/ FinalFails \/ CloseFails \/ Finalizes
  PROVE  Inv'
<1>1. /\ sim.charged \in Nat /\ high \in Nat /\ Heard(cli.eq, sim.charged) /\ Owed(high, sim.charged)
      /\ Heard(0, sim.charged) /\ Shape
      /\ sim \in [wallet : Nat, charged : Nat, on : BOOLEAN, defund : BOOLEAN]
      /\ row \in [step : Steps, pending : BOOLEAN, defund : {"none", "open", "settled"}]
  BY Fields, HeardAndOwed DEF Inv, Shape, Grounded
<1>2. UNCHANGED <<sent, wlog, working, loop, mem, trip, start, channel, high, billed>>
  BY DEF CliStarts, CliEnds, Defund, DefundRefused, DefundFails, DefundAnswered, DefundMarked,
         KeepsWaiting, PollFails, FinalFails, CloseFails, Finalizes, citrus, usage, past, history
<1>3. /\ sim' \in [wallet : Nat, charged : Nat, on : BOOLEAN, defund : BOOLEAN]
      /\ sim'.wallet = sim.wallet /\ sim'.charged = sim.charged
  <2>1. UNCHANGED sim \/ sim' = [sim EXCEPT !.on = FALSE, !.defund = TRUE]
    BY DEF CliStarts, CliEnds, Defund, DefundRefused, DefundFails, DefundAnswered, DefundMarked,
           KeepsWaiting, PollFails, FinalFails, CloseFails, Finalizes, citrus
  <2> QED
    BY <1>1, <2>1
<1>4. /\ row' \in [step : Steps, pending : BOOLEAN, defund : {"none", "open", "settled"}]
      /\ row'.step \in {"ultimo_vale_firmado", "canal_cerrado"} => row'.step = row.step
      /\ row'.defund = "settled" => row.defund = "settled"
  <2>1. \/ UNCHANGED row
        \/ \E st \in {"defund_solicitado", "defund_liquidado"} : row' = [row EXCEPT !.step = st]
        \/ row' = [row EXCEPT !.pending = TRUE, !.defund = "open"]
        \/ row' = [row EXCEPT !.step = "none", !.pending = FALSE]
    BY DEF CliStarts, CliEnds, Defund, DefundRefused, DefundFails, DefundAnswered, DefundMarked,
           KeepsWaiting, PollFails, FinalFails, CloseFails, Finalizes
  <2> QED
    BY <1>1, <2>1 DEF Steps
<1>5. cli' \in CliRec /\ cli'.pc \in {"off", "ready", "defund", "mark"} /\ Heard(cli'.eq, sim.charged)
  <2>1. \/ StepDone \/ cli' = CliOff
        \/ \E w \in BOOLEAN : cli' = [CliOff EXCEPT !.pc = "ready", !.wait = w]
        \/ cli' = [cli EXCEPT !.pc = "defund"] \/ cli' = [cli EXCEPT !.pc = "mark"]
    BY DEF CliStarts, CliEnds, Defund, DefundRefused, DefundFails, DefundAnswered, DefundMarked,
           KeepsWaiting, PollFails, FinalFails, CloseFails, Finalizes
  <2>2. CASE StepDone \/ cli' = CliOff
    BY <1>1, <2>2, CliStates
  <2>3. ASSUME NEW w \in BOOLEAN, cli' = [CliOff EXCEPT !.pc = "ready", !.wait = w]
        PROVE  cli' \in CliRec /\ cli'.pc \in {"off", "ready", "defund", "mark"} /\ Heard(cli'.eq, sim.charged)
    <3> DEFINE rec == [CliOff EXCEPT !.pc = "ready", !.wait = w]
    <3>1. rec \in CliRec /\ rec.pc = "ready" /\ rec.eq = 0
      BY <1>1, CliStates
    <3> HIDE DEF rec
    <3>2. cli' = rec
      BY <2>3 DEF rec
    <3> QED
      BY <1>1, <3>1, <3>2
  <2>4. ASSUME NEW pc \in {"defund", "mark"}, cli' = [cli EXCEPT !.pc = pc]
        PROVE  cli' \in CliRec /\ cli'.pc \in {"off", "ready", "defund", "mark"} /\ Heard(cli'.eq, sim.charged)
    <3>1. pc \in WalkPcs
      BY DEF WalkPcs
    <3> QED
      BY <1>1, <2>4, <3>1, CliStates
  <2> QED
    BY <2>1, <2>2, <2>3, <2>4
<1>6. zero' \in BOOLEAN
  <2>1. UNCHANGED zero \/ zero' = FALSE \/ \E b \in BOOLEAN : zero' = b
    BY Zenon DEF CliStarts, CliEnds, Defund, DefundRefused, DefundFails, DefundAnswered, DefundMarked,
           KeepsWaiting, PollFails, FinalFails, CloseFails, Finalizes
  <2> QED
    BY <2>1, Zenon DEF Inv, Shape
<1>7. faults' \in 0..MaxFaults
  <2>1. faults' = faults \/ Fault
    BY DEF CliStarts, CliEnds, Defund, DefundRefused, DefundFails, DefundAnswered, DefundMarked,
           KeepsWaiting, PollFails, FinalFails, CloseFails, Finalizes, history
  <2> QED
    BY <2>1, Bounds DEF Fault, Inv, Shape
<1>8. Settlement' => Settlement
  BY <1>2, <1>4, <1>5 DEF Settlement
<1>9. channel \in {"none", "open", "settled"} /\ billed \in Kinds
  BY <1>1 DEF Shape
<1> QED
  BY <1>1, <1>2, <1>3, <1>4, <1>5, <1>6, <1>7, <1>8, <1>9, WalkInvariant

\* From the settlement to the closed channel.
LEMMA LateWalkInv ==
  ASSUME Inv,
         SettledByEvent \/ SettledByPoll \/ FinalReads \/ FinalVoucher \/ FinalMarked \/ Closes
  PROVE  Inv'
<1>1. /\ sim.charged \in Nat /\ high \in Nat /\ Heard(cli.eq, sim.charged) /\ Owed(high, sim.charged)
      /\ Heard(0, sim.charged) /\ Heard(EquivalentBytes(sim.charged), sim.charged) /\ Shape /\ cli \in CliRec
      /\ sim \in [wallet : Nat, charged : Nat, on : BOOLEAN, defund : BOOLEAN]
      /\ row \in [step : Steps, pending : BOOLEAN, defund : {"none", "open", "settled"}]
      /\ channel \in {"none", "open", "settled"} /\ billed \in Kinds
  BY Fields, HeardAndOwed DEF Inv, Shape, Grounded
<1>2. UNCHANGED <<sent, wlog, working, loop, mem, trip, start, zero, faults>> /\ zero \in BOOLEAN /\ faults \in 0..MaxFaults
  BY <1>1 DEF SettledByEvent, SettledByPoll, FinalReads, FinalVoucher, FinalMarked, Closes, citrus, usage, past,
              history, Shape
<1>3. CASE SettledByEvent \/ SettledByPoll
  <2>1. UNCHANGED <<sim, channel, high, billed>> /\ Advances /\ sim.wallet = 0
    BY <1>3 DEF SettledByEvent, SettledByPoll, citrus, Inv, SettledIsEmpty, Settlement
  <2>2. row' \in [step : Steps, pending : BOOLEAN, defund : {"none", "open", "settled"}]
    BY <1>1, <2>1 DEF Advances, Steps
  <2>3. cli' \in CliRec /\ cli'.pc = "final" /\ cli'.eq = cli.eq
    BY <1>1, <2>1, CliStates DEF Advances, WalkPcs
  <2> QED
    BY <1>1, <1>2, <2>1, <2>2, <2>3, WalkInvariant
<1>4. CASE FinalReads
  <2>1. /\ UNCHANGED <<sim, channel, high, row, billed>> /\ Settlement
        /\ cli' = [cli EXCEPT !.pc = "voucher", !.eq = EquivalentBytes(Reported)]
    BY <1>4 DEF FinalReads, citrus, Settlement, At
  <2>2. Reported = sim.charged /\ EquivalentBytes(sim.charged) \in Nat
    BY <1>1, EquivalentBytesGrows DEF Reported, Baseline
  <2>3. cli' \in CliRec /\ cli'.pc = "voucher" /\ cli'.eq = EquivalentBytes(sim.charged)
    BY <1>1, <2>1, <2>2 DEF CliRec, WalkPcs
  <2> QED
    BY <1>1, <1>2, <2>1, <2>3, WalkInvariant
<1>5. CASE FinalVoucher
  <2>1. UNCHANGED <<sim, channel, row, billed>> /\ Settlement /\ cli.pc = "voucher"
    BY <1>5 DEF FinalVoucher, citrus, Settlement
  <2>2. PICK kind \in {"signed", "unsigned"} :
          /\ IF kind = "signed" THEN Signs(ExpectedAmount(cli.eq)) ELSE Refuses(ExpectedAmount(cli.eq))
          /\ cli' = [cli EXCEPT !.pc = "answered", !.kind = kind]
    BY <1>5 DEF FinalVoucher
  <2>3. cli.eq = EquivalentBytes(sim.charged)
    BY <2>1 DEF Inv, FinalIsExact
  <2>4. /\ high' \in Nat /\ high <= high' /\ Owed(high', sim.charged)
        /\ kind = "signed" => high' = Bill(sim.charged)
    BY <1>1, <2>2, <2>3, VoucherOnly DEF Refuses, Bill
  <2>5. cli' \in CliRec /\ cli'.pc = "answered" /\ cli'.kind = kind /\ cli'.eq = cli.eq
    BY <1>1, <2>2 DEF CliRec, WalkPcs, Kinds
  <2> QED
    BY <1>1, <1>2, <2>1, <2>3, <2>4, <2>5, WalkInvariant
<1>6. CASE FinalMarked
  <2>1. /\ UNCHANGED <<channel, high>> /\ Settlement /\ cli.pc = "answered" /\ billed' = cli.kind
        /\ row' = [row EXCEPT !.step = "canal_cerrado"] /\ StepDone
    BY <1>6 DEF FinalMarked, Settlement
  <2>2. /\ sim' \in [wallet : Nat, charged : Nat, on : BOOLEAN, defund : BOOLEAN]
        /\ sim'.wallet = sim.wallet /\ sim'.charged = sim.charged
    BY <1>1, <1>6, SwitchOnly DEF FinalMarked
  <2>3. row' \in [step : Steps, pending : BOOLEAN, defund : {"none", "open", "settled"}]
    BY <1>1, <2>1 DEF Steps
  <2>4. cli' \in CliRec /\ cli'.pc \in {"off", "ready"} /\ cli'.eq = 0
    BY <1>1, <2>1, CliStates
  <2>5. cli.kind \in Kinds /\ (cli.kind = "signed" => high = Bill(sim.charged))
    BY <1>1, <2>1 DEF CliRec, Inv, FinalIsExact
  <2> QED
    BY <1>1, <1>2, <2>1, <2>2, <2>3, <2>4, <2>5, WalkInvariant
<1>7. CASE Closes
  <2>1. /\ UNCHANGED <<sim, high, row, billed>> /\ Settlement /\ cli' = [cli EXCEPT !.pc = "finalize"]
        /\ channel' \in {"none", "open", "settled"}
    BY <1>1, <1>7 DEF Closes, citrus, Settlement, At
  <2>2. cli' \in CliRec /\ cli'.pc = "finalize" /\ cli'.eq = cli.eq
    BY <1>1, <2>1, CliStates DEF WalkPcs
  <2> QED
    BY <1>1, <1>2, <2>1, <2>2, WalkInvariant
<1> QED
  BY <1>3, <1>4, <1>5, <1>6, <1>7

----------------------------------------------------------------------------
(* The theorems *)

LEMMA InvInit == Init => Inv
<1> SUFFICES ASSUME Init
             PROVE  Inv
  OBVIOUS
<1>1. Wallet \in Nat /\ MaxFaults \in Nat /\ MaxDefunds \in Nat
  BY Bounds
<1>2. /\ sim.wallet = Wallet /\ sim.charged = 0 /\ mem.eq = 0 /\ mem.signed = 0 /\ cli.eq = 0 /\ high = 0
      /\ cli.pc = "off" /\ row.defund = "none" /\ row.step = "none"
  BY DEF Init, CliOff
<1>3. Shape
  <2>1. sim \in [wallet : Nat, charged : Nat, on : BOOLEAN, defund : BOOLEAN]
    BY <1>1 DEF Init
  <2>2. row \in [step : Steps, pending : BOOLEAN, defund : {"none", "open", "settled"}]
    BY DEF Init, Steps
  <2>3. mem \in MemRec /\ cli \in CliRec
    BY DEF Init, MemRec, CliRec, CliOff, WalkPcs, Kinds
  <2>4. loop \in [pc : {"idle", "usage", "voucher", "policy", "apply"}, kind : Kinds] /\ billed \in Kinds
    BY DEF Init, LoopOff, Kinds
  <2>5. wlog \in [1..MaxDefunds -> {"none", "recorded", "processed"}] /\ zero \in BOOLEAN
    BY DEF Init
  <2> QED
    BY <1>1, <2>1, <2>2, <2>3, <2>4, <2>5 DEF Init, Shape
<1>4. FirstTrip
  BY <1>1, <1>2 DEF Init, FirstTrip
<1>5. Grounded
  BY <1>2, HeardAndOwed DEF Grounded
<1>6. SettledIsEmpty /\ FinalIsExact
  BY <1>2 DEF Init, SettledIsEmpty, FinalIsExact, Settlement
<1> QED
  BY <1>3, <1>4, <1>5, <1>6 DEF Inv

LEMMA InvStep == Inv /\ [Next]_vars => Inv'
<1> SUFFICES ASSUME Inv, [Next]_vars
             PROVE  Inv'
  OBVIOUS
<1>1. CASE UNCHANGED vars
  BY <1>1 DEF vars, Inv, Shape, FirstTrip, Grounded, SettledIsEmpty, Settlement, FinalIsExact
<1> QED
  BY <1>1, CitrusInv, WebhookInv, UsageInv, EarlyWalkInv, LateWalkInv DEF Next, Walk

LEMMA TripInv == Spec => []Inv
BY InvInit, InvStep, PTL DEF Spec

\* The variables keep their types for any prices, wallet, deposit and faults: what the loop
\* and the CLI hold as bytes, and what is signed, always is the conversion of a charge the
\* provider reported.
THEOREM TripTypes == Spec => []TypeOK
BY TripInv, InvTypes, PTL

\* No mixture of ticks, restarts, redelivered readings and vouchers signed twice bills a
\* trip one raw unit above its consumption (usage-math.ts:21-25), whatever the prices.
THEOREM TripBillsItsOwn == Spec => []BillsOwnTrip
<1>1. Inv => BillsOwnTrip
  <2> SUFFICES ASSUME Inv
               PROVE  (high - 1) * BytesPerMib * (Rate * PricePerMb) < (sim.charged - start) * Markup * Scale * PricePerMib
    BY DEF BillsOwnTrip
  <2>1. PICK c \in 0..sim.charged : high = Bill(c)
    BY DEF Inv, Grounded, Owed
  <2>2. sim.charged \in Nat /\ c \in Nat /\ c <= sim.charged
    BY <2>1, Fields DEF Inv
  <2>3. sim.charged - start = sim.charged
    BY <2>2 DEF Inv, FirstTrip
  <2> QED
    BY <2>1, <2>2, <2>3, BillWithinPrice
<1> QED
  BY <1>1, TripInv, PTL

\* A walk that is over and whose voucher was signed has billed all that was charged, to the
\* unit, whoever else signed or suspended meanwhile (SessionCloser.ts:19-23).
THEOREM TripFinalBill == Spec => []FinalBill
<1>1. Inv => FinalBill
  <2>1. ASSUME Inv
        PROVE  sim.charged - start = sim.charged
    BY <2>1, Fields DEF Inv, FirstTrip
  <2> QED
    BY <2>1 DEF Inv, FinalIsExact, FinalBill
<1> QED
  BY <1>1, TripInv, PTL

\* A trip that is over leaves no money with the provider, whether the event or the poll told
\* of the settlement and however often the walk was interrupted (citrus-mobile-spec.md R9).
THEOREM TripLeavesNothing == Spec => []NothingLeftBehind
<1>1. Inv => NothingLeftBehind
  BY DEF Inv, SettledIsEmpty, Settlement, NothingLeftBehind, Over
<1> QED
  BY <1>1, TripInv, PTL

----------------------------------------------------------------------------
(* The walk goes forward *)

\* Where the CLI is agrees with the marker on disk, which nobody else moves; a walk past
\* its final voucher has recorded what became of it.
Walking ==
  /\ cli.pc \in {"defund", "mark"} => row.step = "defund_solicitado"
  /\ cli.pc = "mark" => row.defund # "none"
  /\ cli.pc \in {"final", "voucher", "answered"} => row.step = "ultimo_vale_firmado"
  /\ cli.pc = "answered" => cli.kind # "none"
  /\ cli.pc = "finalize" => row.step = "canal_cerrado" /\ channel # "open"
  /\ row.step = "canal_cerrado" => billed # "none"

Begins == row.step = "none" /\ row'.step \in {"defund_solicitado", "defund_liquidado"}
Requested == row.step = "defund_solicitado" /\ row'.step = "defund_liquidado" /\ row.defund # "none"
Emptied == row.step = "defund_liquidado" /\ row'.step = "ultimo_vale_firmado" /\ sim.wallet = 0
Answered == row.step = "ultimo_vale_firmado" /\ row'.step = "canal_cerrado" /\ billed' # "none"
Ends ==
  /\ row.step = "canal_cerrado" /\ row'.step = "none" /\ channel # "open" /\ sim.wallet = 0
  /\ billed = "signed" => high = Bill(sim.charged)

\* The persisted marker never goes back and leaves out no stage (SessionCloser.ts:6-9),
\* and no stage is left before its work is done.
WalkForward == [][row'.step # row.step => Begins \/ Requested \/ Emptied \/ Answered \/ Ends]_vars

\* What the steps of the walk do to the marker and to the CLI.
LEMMA WalkingStep == Inv /\ Walking /\ [Next]_vars => Walking'
<1> SUFFICES ASSUME Inv, Walking, [Next]_vars
             PROVE  Walking'
  OBVIOUS
<1>1. /\ row \in [step : Steps, pending : BOOLEAN, defund : {"none", "open", "settled"}]
      /\ cli \in CliRec /\ Shape
  BY DEF Inv, Shape
<1>2. CASE UNCHANGED <<row, cli, channel, billed>>
  BY <1>2 DEF Walking
<1>3. CASE \E e \in 1..MaxDefunds : Process(e)
  <2>1. row' = [row EXCEPT !.defund = "settled"] /\ UNCHANGED <<cli, channel, billed>>
    BY <1>3 DEF Process, closer
  <2>2. row'.step = row.step /\ row'.defund = "settled"
    BY <1>1, <2>1
  <2> QED
    BY <2>1, <2>2 DEF Walking
<1>4. CASE CliStarts
  <2>1. /\ row.step = "none" /\ UNCHANGED <<channel, billed>>
        /\ row' = [row EXCEPT !.step = IF row.pending THEN "defund_liquidado" ELSE "defund_solicitado"]
        /\ \E w \in BOOLEAN : cli' = [CliOff EXCEPT !.pc = "ready", !.wait = w]
    BY <1>4 DEF CliStarts
  <2>2. row'.step \in {"defund_liquidado", "defund_solicitado"} /\ cli'.pc = "ready"
    BY <1>1, <2>1, CliStates
  <2> QED
    BY <2>1, <2>2 DEF Walking
<1>5. CASE CliEnds
  <2>1. UNCHANGED <<row, channel, billed>> /\ cli'.pc \in {"ready", "off"}
    BY <1>1, <1>5, CliStates DEF CliEnds
  <2> QED
    BY <2>1 DEF Walking
<1>6. CASE Defund
  <2>1. UNCHANGED <<row, channel, billed>> /\ cli' = [cli EXCEPT !.pc = "defund"] /\ row.step = "defund_solicitado"
    BY <1>6 DEF Defund, At
  <2>2. cli'.pc = "defund"
    BY <1>1, <2>1 DEF CliRec
  <2> QED
    BY <2>1, <2>2 DEF Walking
<1>7. CASE DefundRefused \/ DefundFails \/ KeepsWaiting \/ PollFails \/ FinalFails \/ CloseFails
  <2>1. UNCHANGED <<row, channel, billed>> /\ StepDone
    BY <1>7 DEF DefundRefused, DefundFails, KeepsWaiting, PollFails, FinalFails, CloseFails
  <2>2. cli'.pc \in {"ready", "off"}
    BY <1>1, <2>1, CliStates
  <2> QED
    BY <2>1, <2>2 DEF Walking
<1>8. CASE DefundAnswered
  <2>1. /\ row' = [row EXCEPT !.pending = TRUE, !.defund = "open"] /\ cli' = [cli EXCEPT !.pc = "mark"]
        /\ UNCHANGED <<channel, billed>> /\ cli.pc = "defund"
    BY <1>8 DEF DefundAnswered
  <2>2. row'.step = row.step /\ row'.defund = "open" /\ cli'.pc = "mark"
    BY <1>1, <2>1 DEF CliRec
  <2> QED
    BY <2>1, <2>2 DEF Walking
<1>9. CASE DefundMarked
  <2>1. row' = [row EXCEPT !.step = "defund_liquidado"] /\ StepDone
    BY <1>9 DEF DefundMarked
  <2>2. row'.step = "defund_liquidado" /\ cli'.pc \in {"ready", "off"}
    BY <1>1, <2>1, CliStates
  <2> QED
    BY <2>2 DEF Walking
<1>10. CASE SettledByEvent \/ SettledByPoll
  <2>1. Advances
    BY <1>10 DEF SettledByEvent, SettledByPoll
  <2>2. row'.step = "ultimo_vale_firmado" /\ cli'.pc = "final"
    BY <1>1, <2>1 DEF Advances, CliRec
  <2> QED
    BY <2>2 DEF Walking
<1>11. CASE FinalReads
  <2>1. /\ UNCHANGED <<row, channel, billed>> /\ cli' = [cli EXCEPT !.pc = "voucher", !.eq = EquivalentBytes(Reported)]
        /\ row.step = "ultimo_vale_firmado"
    BY <1>11 DEF FinalReads, At, Walking
  <2>2. cli'.pc = "voucher"
    BY <1>1, <2>1 DEF CliRec
  <2> QED
    BY <2>1, <2>2 DEF Walking
<1>12. CASE FinalVoucher
  <2>1. PICK kind \in {"signed", "unsigned"} : cli' = [cli EXCEPT !.pc = "answered", !.kind = kind]
    BY <1>12 DEF FinalVoucher
  <2>2. cli'.pc = "answered" /\ cli'.kind # "none"
    BY <1>1, <2>1 DEF CliRec
  <2>3. UNCHANGED <<row, channel, billed>> /\ row.step = "ultimo_vale_firmado"
    BY <1>12 DEF FinalVoucher, Walking
  <2> QED
    BY <2>2, <2>3 DEF Walking
<1>13. CASE FinalMarked
  <2>1. row' = [row EXCEPT !.step = "canal_cerrado"] /\ billed' = cli.kind /\ cli.kind # "none" /\ StepDone
    BY <1>13 DEF FinalMarked, Walking
  <2>2. row'.step = "canal_cerrado" /\ cli'.pc \in {"ready", "off"}
    BY <1>1, <2>1, CliStates
  <2> QED
    BY <2>1, <2>2 DEF Walking
<1>14. CASE Closes
  <2>1. /\ UNCHANGED <<row, billed>> /\ row.step = "canal_cerrado" /\ channel' # "open"
        /\ cli' = [cli EXCEPT !.pc = "finalize"]
    BY <1>14 DEF Closes, At
  <2>2. cli'.pc = "finalize"
    BY <1>1, <2>1 DEF CliRec
  <2> QED
    BY <2>1, <2>2 DEF Walking
<1>15. CASE Finalizes
  <2>1. row' = [row EXCEPT !.step = "none", !.pending = FALSE] /\ cli' = CliOff
    BY <1>15 DEF Finalizes
  <2>2. row'.step = "none" /\ cli'.pc = "off"
    BY <1>1, <2>1, CliStates
  <2> QED
    BY <2>2 DEF Walking
<1>16. Consume \/ Settle \/ ServerRestarts \/ (\E e \in 1..MaxDefunds : Deliver(e) \/ ProcessFails(e))
       \/ Tick \/ LoopApplyFails \/ LoopFails \/ LoopRestarts \/ EnforcerSuspends \/ UNCHANGED vars
       => UNCHANGED <<row, cli, channel, billed>>
  BY DEF Consume, Settle, Deliver, ProcessFails, ServerRestarts, Tick, LoopStarts, LoopReads, LoopSigned,
         LoopUnsigned, LoopPolicy, LoopApplies, LoopApplyFails, LoopFails, LoopRestarts, EnforcerSuspends,
         closer, vars
<1> QED
  BY <1>2, <1>3, <1>4, <1>5, <1>6, <1>7, <1>8, <1>9, <1>10, <1>11, <1>12, <1>13, <1>14, <1>15, <1>16 DEF Next, Walk

\* A step that moves the marker is one of the five.
LEMMA WalkMoves ==
  Inv /\ Walking /\ [Next]_vars => [row'.step # row.step => Begins \/ Requested \/ Emptied \/ Answered \/ Ends]_vars
<1> SUFFICES ASSUME Inv, Walking, [Next]_vars, row'.step # row.step
             PROVE  Begins \/ Requested \/ Emptied \/ Answered \/ Ends
  OBVIOUS
<1>1. /\ row \in [step : Steps, pending : BOOLEAN, defund : {"none", "open", "settled"}]
      /\ sim.charged \in Nat
  BY Fields DEF Inv, Shape
<1>2. CliStarts \/ DefundMarked \/ SettledByEvent \/ SettledByPoll \/ FinalMarked \/ Finalizes
  <2>1. \/ UNCHANGED row \/ row' = [row EXCEPT !.defund = "settled"]
        \/ row' = [row EXCEPT !.pending = TRUE, !.defund = "open"]
        \/ CliStarts \/ DefundMarked \/ SettledByEvent \/ SettledByPoll \/ FinalMarked \/ Finalizes
    BY DEF Next, Walk, Consume, Settle, Deliver, Process, ProcessFails, ServerRestarts, Tick, LoopStarts, LoopReads,
           LoopSigned, LoopUnsigned, LoopPolicy, LoopApplies, LoopApplyFails, LoopFails, LoopRestarts,
           EnforcerSuspends, CliEnds, Defund, DefundRefused, DefundFails, DefundAnswered, KeepsWaiting,
           PollFails, FinalReads, FinalVoucher, FinalFails, Closes, CloseFails, vars
  <2> QED
    BY <1>1, <2>1
<1>3. CASE CliStarts
  BY <1>1, <1>3 DEF CliStarts, Begins
<1>4. CASE DefundMarked
  BY <1>1, <1>4 DEF DefundMarked, At, Walking, Requested
<1>5. CASE SettledByEvent \/ SettledByPoll
  <2>1. row.step = "defund_liquidado" /\ Advances /\ sim.wallet = 0
    BY <1>5 DEF SettledByEvent, SettledByPoll, At, Inv, SettledIsEmpty, Settlement
  <2> QED
    BY <1>1, <2>1 DEF Advances, Emptied
<1>6. CASE FinalMarked
  BY <1>1, <1>6 DEF FinalMarked, Walking, Answered
<1>7. CASE Finalizes
  <2>1. row.step = "canal_cerrado" /\ channel # "open" /\ row'.step = "none"
    BY <1>1, <1>7 DEF Finalizes, Walking
  <2>2. sim.wallet = 0 /\ (billed = "signed" => high = Bill(sim.charged))
    BY <2>1 DEF Inv, SettledIsEmpty, Settlement, FinalIsExact
  <2> QED
    BY <2>1, <2>2 DEF Ends
<1> QED
  BY <1>2, <1>3, <1>4, <1>5, <1>6, <1>7

\* However often the CLI times out, dies or is refused, the walk goes from stage
\* to stage in the order of the code: it stops waiting with an empty wallet only, and the
\* row is given back with the channel settled and, if the last voucher was signed, all billed.
THEOREM TripWalkForward == Spec => WalkForward
<1>1. Init => Walking
  BY DEF Init, Walking, CliOff
<1> QED
  BY <1>1, WalkingStep, WalkMoves, TripInv, PTL DEF Spec, WalkForward
=============================================================================
