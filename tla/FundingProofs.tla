----------------------------- MODULE FundingProofs -----------------------------
(***************************************************************************)
(* The safety of Funding for every number of calls and provisionings, every *)
(* deposit, price and rounding.  Two independent halves: what the mutex of  *)
(* provisionEsim() keeps (Shop), and what the row of the eSIM says of its   *)
(* wallet while no two ensureFunded() met (Books).                          *)
(***************************************************************************)
EXTENDS Funding, TLAPS

Stages == {"live", "pending", "terminated"}
CallRec == [pc : {"off", "deposit", "wallet", "landed", "dropped", "gap", "post", "confirm", "refused"},
            funded : Cents, pending : Intent, max : Amounts, seen : Cents]
Posting == {"post", "confirm", "refused"}

\* n cents, marked up, are covered by a deposit of d.
Paid(n, d) == n * (RawPerCent * Markup) <= d * Rate
\* What f interrupted calls may have had credited without cause.
Margin(f) == Unreal * f

\* What a call has read of the deposit is covered by it, and it sends no empty fund.
Sized ==
  \A c \in Calls :
    /\ call[c].pc \notin {"off", "deposit"} => Paid(call[c].max, deposit)
    /\ call[c].pc \in Posting => Gap(c) > 0

\* One buyer at a time; every eSIM sold is a row, lost, or in the hands of the buyer; and
\* before any defund the first row ends the buying.
Shop ==
  /\ \A a \in Asks : ask[a] \in {"buying", "bought"} => lock = a
  /\ bought = Len(esims) + lost + IF \E a \in Asks : ask[a] = "bought" THEN 1 ELSE 0
  /\ trips = 0 => \/ esims = <<>>
                  \/ Len(esims) = 1 /\ Live /\ lock = Nobody

\* The intent of a call still under way is not yet one that a fault has left behind.
LeftBehind == IF \E c \in Calls : call[c].pc \in Posting THEN 0 ELSE Unreal

\* The fund of the intent on disk has landed.
HasLanded ==
  /\ late = 0 /\ wallet >= fund.pending.before + fund.pending.amt
  /\ landed <= fund.funded + fund.pending.amt
  /\ fund.funded + fund.pending.amt + LeftBehind <= landed + Margin(faults)

\* It has not: the wallet is the one it was sent for, and it may still land, once.
NotLanded ==
  /\ landed <= fund.funded
  /\ fund.funded + LeftBehind <= landed + Margin(faults)
  /\ wallet < fund.pending.before + Slack
  /\ late # 0 => late = fund.pending.amt /\ fund.pending.before <= wallet

\* No intent: the row says what has landed, up to the rounding.
AllClear ==
  /\ late = 0 /\ landed <= fund.funded
  /\ fund.funded <= landed + Margin(faults)

\* What a call holds agrees with the row, step by step.
Progress(c) ==
  /\ call[c].pc # "off" => Live /\ call[c].funded = fund.funded
  /\ call[c].pc \in {"deposit", "wallet", "landed", "dropped"} => call[c].pending = fund.pending
  /\ call[c].pc = "landed" =>
       fund.pending # NoIntent /\ (HasLanded \/ (NotLanded /\ fund.pending.amt <= Unreal))
  /\ call[c].pc = "dropped" => fund.pending # NoIntent /\ NotLanded
  /\ call[c].pc \in {"landed", "dropped", "gap"} => call[c].seen <= wallet /\ wallet < call[c].seen + Slack
  /\ call[c].pc = "gap" => fund.pending = NoIntent
  /\ call[c].pc \in Posting => fund.pending = [amt |-> Gap(c), before |-> call[c].seen]
  /\ call[c].pc = "post" => NotLanded /\ late = 0 /\ fund.pending.before <= wallet
  /\ call[c].pc = "confirm" => HasLanded
  /\ call[c].pc = "refused" => NotLanded /\ late = 0

Books ==
  /\ \A c, d \in Calls : call[c].pc # "off" /\ call[d].pc # "off" => c = d
  /\ Paid(fund.funded + fund.pending.amt, deposit)
  /\ IF fund.pending = NoIntent THEN AllClear ELSE HasLanded \/ NotLanded
  /\ \A c \in Calls : Progress(c)

Inv == TypeOK /\ Sized /\ Shop /\ (~doubt => Books)

----------------------------------------------------------------------------
(* Numbers *)

\* The quotient rounded down: q * d <= n < (q + 1) * d.
LEMMA DivFloors ==
  ASSUME NEW n \in Nat, NEW d \in Nat \ {0}
  PROVE  /\ n \div d \in Nat
         /\ (n \div d) * d <= n /\ n < (n \div d) * d + d
<1> DEFINE q == n \div d
           r == n % d
<1>1. q \in Int /\ r \in 0..(d - 1) /\ n = d * q + r
  BY SMTT(30)
<1>2. q >= 0
  BY <1>1
<1> QED
  BY <1>1, <1>2

\* I2, as maxWalletCents() computes it (shared/usage-math.ts): a wallet filled to the
\* maximum, marked up, is paid for by the deposit.
THEOREM WalletIsBacked ==
  ASSUME NEW dep \in Nat
  PROVE  /\ MaxWalletCents(dep) \in 0..MaxCents
         /\ MaxWalletCents(dep) * (RawPerCent * Markup) <= dep * Rate
<1> DEFINE d == RawPerCent * Markup
           q == (dep * Rate) \div d
<1>1. RawPerCent \in Nat \ {0} /\ Markup \in Nat \ {0} /\ Rate \in Nat \ {0} /\ MaxCents \in Nat \ {0}
  BY PricingAssumption
<1>2. d \in Nat \ {0} /\ dep * Rate \in Nat
  BY <1>1
<1>3. q \in Nat /\ q * d <= dep * Rate
  BY <1>2, DivFloors
<1>4. MaxWalletCents(dep) = IF q > MaxCents THEN MaxCents ELSE q
  BY DEF MaxWalletCents
<1> HIDE DEF q, d
<1>5. CASE q > MaxCents
  <2>1. (q - MaxCents) * d >= 0
    BY <1>1, <1>2, <1>3, <1>5
  <2>2. MaxCents * d <= q * d
    BY <1>1, <1>2, <1>3, <2>1
  <2> QED
    BY <1>1, <1>2, <1>3, <1>4, <1>5, <2>2 DEF d
<1>6. CASE ~(q > MaxCents)
  BY <1>1, <1>2, <1>3, <1>4, <1>6 DEF d
<1> QED
  BY <1>5, <1>6

\* And it is the largest such wallet: below the cap, one more cent is not paid for.
THEOREM WalletIsLargest ==
  ASSUME NEW dep \in Nat, MaxWalletCents(dep) < MaxCents
  PROVE  dep * Rate < (MaxWalletCents(dep) + 1) * (RawPerCent * Markup)
<1> DEFINE d == RawPerCent * Markup
           n == dep * Rate
           q == n \div d
<1>1. d \in Nat \ {0} /\ n \in Nat /\ MaxCents \in Nat
  BY PricingAssumption
<1>2. MaxWalletCents(dep) = IF q > MaxCents THEN MaxCents ELSE q
  BY DEF MaxWalletCents
<1> HIDE DEF n, d
<1>3. q \in Nat /\ n < q * d + d
  BY <1>1, DivFloors
<1> HIDE DEF q
<1>4. MaxWalletCents(dep) = q
  BY <1>1, <1>2, <1>3
<1>5. (q + 1) * d = q * d + d
  BY <1>1, <1>3
<1>6. n < (q + 1) * d
  BY <1>3, <1>5
<1> QED
  BY <1>4, <1>6 DEF n, d

R == INSTANCE Retry

\* take() of the bucket every call to Citrus passes (shared/token-bucket.ts): when it looks
\* again after one sleep it has its tokens, unless another took them; and it sleeps until
\* a thousand times what it misses could have come in (the milliseconds are multiplied
\* by 1000 once more).
THEOREM OneSleepIsEnough ==
  ASSUME NEW rate \in Nat \ {0}, NEW capacity \in Nat, NEW weight \in 1..capacity,
         NEW tokens \in Nat, tokens < weight
  PROVE  /\ R!Refilled(tokens, R!WaitMs(tokens, weight, rate), rate, capacity) >= weight
         /\ R!WaitMs(tokens, weight, rate) * rate > 1000 * (weight - tokens)
<1> DEFINE miss == weight - tokens
           n == miss * 1000 + rate - 1
           q == n \div rate
<1>1. miss \in Nat \ {0} /\ n \in Nat /\ weight <= capacity /\ n >= 1000 * miss + rate - 1
  OBVIOUS
<1>2. R!WaitMs(tokens, weight, rate) = q + 1
  BY DEF R!WaitMs
<1> HIDE DEF n
<1>3. q \in Nat /\ n < q * rate + rate
  BY <1>1, DivFloors
<1> HIDE DEF q, miss
<1>4. (q + 1) * rate = q * rate + rate /\ q * rate \in Nat
  BY <1>1, <1>3
<1>5. (q + 1) * rate > 1000 * miss
  BY <1>1, <1>3, <1>4
<1>6. R!Refilled(tokens, q + 1, rate, capacity) >= weight
  <2>1. tokens + (q + 1) * rate >= weight
    BY <1>1, <1>3, <1>4, <1>5 DEF miss
  <2> QED
    BY <1>1, <1>3, <1>4, <2>1 DEF R!Refilled, R!MinOf
<1> QED
  BY <1>2, <1>5, <1>6 DEF miss

\* What is at most a covered amount is covered, and a larger deposit covers no less.
LEMMA PaidMonotone ==
  /\ \A n \in Nat, m \in Nat, d \in Nat : m <= n /\ Paid(n, d) => Paid(m, d)
  /\ \A n \in Nat, d \in Nat, e \in Nat : d <= e /\ Paid(n, d) => Paid(n, e)
  /\ \A d \in Nat : Paid(0, d)
<1> DEFINE k == RawPerCent * Markup
<1>1. k \in Nat /\ Rate \in Nat
  BY PricingAssumption
<1> HIDE DEF k
<1>2. ASSUME NEW n \in Nat, NEW m \in Nat, NEW d \in Nat, m <= n, n * k <= d * Rate
      PROVE  m * k <= d * Rate
  <2>1. (n - m) * k \in Nat
    BY <1>1, <1>2
  <2>2. m * k <= n * k
    BY <1>1, <1>2, <2>1
  <2> QED
    BY <1>1, <1>2, <2>2
<1>3. ASSUME NEW n \in Nat, NEW d \in Nat, NEW e \in Nat, d <= e, n * k <= d * Rate
      PROVE  n * k <= e * Rate
  <2>1. (e - d) * Rate \in Nat
    BY <1>1, <1>3
  <2>2. d * Rate <= e * Rate
    BY <1>1, <1>3, <2>1
  <2> QED
    BY <1>1, <1>3, <2>2
<1>4. \A d \in Nat : 0 * k <= d * Rate
  BY <1>1
<1> QED
  BY <1>2, <1>3, <1>4 DEF Paid, k

LEMMA Margins ==
  /\ Unreal \in Nat
  /\ \A f \in Nat : Margin(f) \in Nat /\ Margin(f + 1) = Margin(f) + Unreal
  /\ Margin(0) = 0
BY FundingAssumption DEF Unreal, Margin

\* maxWalletCents() of any deposit read is an amount one fund may have, and covered.
LEMMA MaxCovered ==
  \A d \in Deposits : MaxWalletCents(d) \in Amounts /\ Paid(MaxWalletCents(d), d)
BY WalletIsBacked, FundingAssumption DEF Paid, Amounts

LEMMA Constants ==
  /\ \A d \in Deposits : d \in Nat
  /\ Slack \in Nat /\ Slack > 0 /\ Unreal = 2 * Slack - 1
  /\ MaxFaults \in Nat /\ MaxEsims \in Nat /\ MaxTrips \in Nat
  /\ MaxCents \in Nat /\ Nobody \notin Calls /\ Nobody \notin Asks
BY FundingAssumption, PricingAssumption DEF Unreal

----------------------------------------------------------------------------
(* Types *)

LEMMA EmptyIntent == NoIntent \in Intent /\ CallOff \in CallRec /\ CallOff.pc = "off"
BY Constants DEF NoIntent, Intent, CallOff, CallRec, Amounts, Cents

\* The record of one call is of its type, and with it the gap an integer.
LEMMA CallTyped ==
  ASSUME TypeOK, NEW c \in Calls
  PROVE  /\ call[c] \in CallRec
         /\ call[c].funded \in Nat /\ call[c].seen \in Nat /\ call[c].max \in Nat /\ call[c].max <= MaxCents
         /\ call[c].pending \in Intent /\ call[c].pending.amt \in Nat /\ call[c].pending.before \in Nat
         /\ Gap(c) \in Int /\ Gap(c) <= MaxCents /\ Gap(c) = call[c].max - call[c].funded
<1>1. call[c] \in CallRec
  BY DEF TypeOK, CallRec
<1> QED
  BY <1>1, Constants DEF CallRec, Intent, Amounts, Cents, Gap

LEMMA RowTyped ==
  ASSUME TypeOK
  PROVE  /\ wallet \in Nat /\ landed \in Nat /\ late \in Nat /\ late <= MaxCents
         /\ fund.funded \in Nat /\ fund.pending \in Intent
         /\ fund.pending.amt \in Nat /\ fund.pending.amt <= MaxCents /\ fund.pending.before \in Nat
         /\ fund = [funded |-> fund.funded, pending |-> fund.pending]
         /\ fund.pending = [amt |-> fund.pending.amt, before |-> fund.pending.before]
         /\ faults \in Nat /\ deposit \in Nat
<1>1. fund \in [funded : Cents, pending : Intent]
  BY DEF TypeOK
<1>2. fund.pending \in Intent
  BY <1>1
<1> QED
  BY <1>1, <1>2, Constants DEF TypeOK, Intent, Amounts, Cents

\* The steps of the channel, the trip and Citrus.
World == DepositGrows \/ Spend \/ LandsLate \/ NeverLands \/ DefundStarts \/ DefundEnds \/ Terminate

LEMMA WorldTypes ==
  ASSUME TypeOK, World
  PROVE  TypeOK'
<1>1. deposit' \in Deposits
  BY DEF World, TypeOK, DepositGrows, Spend, LandsLate, NeverLands, DefundStarts, DefundEnds, Terminate
<1>2. wallet' \in Cents /\ landed' \in Cents /\ late' \in Amounts
  <2>1. wallet \in Nat /\ landed \in Nat /\ late \in Nat /\ late <= MaxCents
    BY RowTyped
  <2>2. \/ UNCHANGED <<wallet, landed, late>>
        \/ wallet > 0 /\ wallet' = wallet - 1 /\ UNCHANGED <<landed, late>>
        \/ wallet' = wallet + late /\ landed' = landed + late /\ late' = 0
        \/ UNCHANGED <<wallet, landed>> /\ late' = 0
        \/ wallet' = 0 /\ landed' = 0 /\ late' = 0
    BY DEF World, DepositGrows, Spend, LandsLate, NeverLands, DefundStarts, DefundEnds, Terminate, citrus
  <2> QED
    BY <2>1, <2>2, Constants DEF Cents, Amounts
<1>3. UNCHANGED <<bought, lost, lock, ask, call>>
  BY DEF World, DepositGrows, Spend, LandsLate, NeverLands, DefundStarts, DefundEnds, Terminate, shop
<1>4. esims' \in Seq(Stages) /\ Len(esims') = Len(esims)
  <2>1. esims \in Seq(Stages)
    BY DEF TypeOK, Stages
  <2>2. CASE UNCHANGED esims
    BY <2>1, <2>2
  <2>3. CASE esims # <<>> /\ \E v \in Stages : esims' = [esims EXCEPT ![1] = v]
    BY <2>1, <2>3
  <2>4. esims # <<>> <=> Live \/ (esims # <<>> /\ esims[1] # "live")
    BY DEF Live
  <2> QED
    BY <2>2, <2>3, <2>4
    DEF World, DepositGrows, Spend, LandsLate, NeverLands, DefundStarts, DefundEnds, Terminate, shop, Stages, Live
<1>5. fund' \in [funded : Cents, pending : Intent]
  BY DEF World, TypeOK, DepositGrows, Spend, LandsLate, NeverLands, DefundStarts, DefundEnds, Terminate, Cents
<1>6. doubt' \in BOOLEAN
  <2>1. doubt' = doubt \/ \E b \in BOOLEAN : doubt' = (doubt \/ b)
    BY Zenon DEF World, DepositGrows, Spend, LandsLate, NeverLands, DefundStarts, DefundEnds, Terminate
  <2> QED
    BY <2>1, Zenon DEF TypeOK
<1>7. faults' = faults /\ trips' \in 0..MaxTrips
  BY Constants
     DEF World, TypeOK, DepositGrows, Spend, LandsLate, NeverLands, DefundStarts, DefundEnds, Terminate
<1> QED
  BY <1>1, <1>2, <1>3, <1>4, <1>5, <1>6, <1>7 DEF TypeOK, Stages

\* A step of a call writes the record of that call alone.
LEMMA CallWrites ==
  ASSUME TypeOK, NEW c \in Calls, EnsureFunded(c)
  PROVE  /\ call' \in [Calls -> CallRec]
         /\ \A d \in Calls \ {c} : call'[d] = call[d]
<1>1. call \in [Calls -> CallRec] /\ call[c] \in CallRec
  BY DEF TypeOK, CallRec
<1>2. \E k \in CallRec : call' = [call EXCEPT ![c] = k]
  <2>1. ASSUME NEW pc \in {"wallet", "landed", "dropped", "gap", "post", "confirm", "refused"}, Goes(c, pc)
        PROVE  \E k \in CallRec : call' = [call EXCEPT ![c] = k]
    <3>1. [call[c] EXCEPT !.pc = pc] \in CallRec
      BY <1>1 DEF CallRec
    <3> QED
      BY <1>1, <2>1, <3>1 DEF Goes
  <2>2. CASE Ends(c)
    BY <2>2, EmptyIntent DEF Ends
  <2>3. CASE Start(c)
    <3>1. [CallOff EXCEPT !.pc = "deposit", !.funded = fund.funded, !.pending = fund.pending] \in CallRec
      BY RowTyped, EmptyIntent DEF CallRec, Cents
    <3> QED
      BY <2>3, <3>1 DEF Start
  <2>4. CASE ReadsDeposit(c)
    <3>1. MaxWalletCents(deposit) \in Amounts
      BY MaxCovered DEF TypeOK
    <3>2. [call[c] EXCEPT !.pc = "wallet", !.max = MaxWalletCents(deposit)] \in CallRec
      BY <1>1, <3>1 DEF CallRec
    <3> QED
      BY <1>1, <2>4, <3>2 DEF ReadsDeposit
  <2>5. CASE ReadsWallet(c)
    <3>1. \A w \in Shown : w \in Nat
      BY RowTyped, Constants DEF Shown
    <3>2. PICK w \in Shown : call' = [call EXCEPT ![c].seen = w,
                            ![c].pc = IF call[c].pending = NoIntent THEN "gap"
                                      ELSE IF Landed(call[c].pending, w) THEN "landed" ELSE "dropped"]
      BY <2>5 DEF ReadsWallet
    <3> DEFINE pc == IF call[c].pending = NoIntent THEN "gap"
                     ELSE IF Landed(call[c].pending, w) THEN "landed" ELSE "dropped"
    <3>3. pc \in {"landed", "dropped", "gap"} /\ w \in Nat
      BY <3>1
    <3> HIDE DEF pc
    <3>4. [call[c] EXCEPT !.seen = w, !.pc = pc] \in CallRec
      BY <1>1, <3>3 DEF CallRec, Cents
    <3> QED
      BY <1>1, <3>2, <3>4 DEF pc
  <2>6. CASE Reconciles(c)
    <3> DEFINE f == call[c].funded + call[c].pending.amt
    <3>1. f \in Nat
      BY CallTyped
    <3> HIDE DEF f
    <3>2. [call[c] EXCEPT !.pc = "gap", !.funded = f] \in CallRec
      BY <1>1, <3>1 DEF CallRec, Cents
    <3> QED
      BY <1>1, <2>6, <3>2 DEF Reconciles, f
  <2> QED
    BY <2>1, <2>2, <2>3, <2>4, <2>5, <2>6
    DEF EnsureFunded, DropsIntent, AlreadyFunded, Intends, FundLands, FundRefused, FundFails, ClearsIntent,
        Confirms, Fails
<1> QED
  BY <1>1, <1>2

LEMMA CallTypes ==
  ASSUME TypeOK, Sized, NEW c \in Calls, EnsureFunded(c)
  PROVE  TypeOK'
<1> USE DEF EnsureFunded
<1>1. deposit' = deposit /\ UNCHANGED shop /\ UNCHANGED trips
  BY DEF Start, ReadsDeposit, ReadsWallet, Reconciles, DropsIntent, AlreadyFunded, Intends, FundLands,
         FundRefused, FundFails, ClearsIntent, Confirms, Fails
<1>2. wallet' \in Cents /\ landed' \in Cents /\ late' \in Amounts
  <2>1. wallet \in Nat /\ landed \in Nat /\ late \in Nat /\ late <= MaxCents /\ Gap(c) \in Int /\ Gap(c) <= MaxCents
    BY RowTyped, CallTyped
  <2>2. call[c].pc \in Posting => Gap(c) > 0
    BY DEF Sized
  <2>3. \/ UNCHANGED <<wallet, landed, late>>
        \/ call[c].pc = "post" /\ wallet' = wallet + Gap(c) /\ landed' = landed + Gap(c) /\ UNCHANGED late
        \/ UNCHANGED <<wallet, landed>> /\ late' = IF call[c].pc = "post" THEN Gap(c) ELSE 0
    BY DEF Start, ReadsDeposit, ReadsWallet, Reconciles, DropsIntent, AlreadyFunded, Intends, FundLands,
           FundRefused, FundFails, ClearsIntent, Confirms, Fails, citrus
  <2> QED
    BY <2>1, <2>2, <2>3, Constants DEF Cents, Amounts, Posting
<1>3. fund' \in [funded : Cents, pending : Intent]
  <2>1. fund \in [funded : Cents, pending : Intent]
    BY DEF TypeOK
  <2>2. /\ call[c].funded + call[c].pending.amt \in Nat
        /\ call[c].pc = "confirm" => call[c].funded + Gap(c) \in Nat
        /\ Gap(c) > 0 => [amt |-> Gap(c), before |-> call[c].seen] \in Intent
    BY CallTyped, Constants DEF Intent, Amounts, Cents, Gap
  <2>3. \/ UNCHANGED fund
        \/ fund' = [funded |-> call[c].funded + call[c].pending.amt, pending |-> NoIntent]
        \/ fund' = [fund EXCEPT !.pending = NoIntent]
        \/ Gap(c) > 0 /\ fund' = [fund EXCEPT !.pending = [amt |-> Gap(c), before |-> call[c].seen]]
        \/ call[c].pc = "confirm" /\ fund' = [funded |-> call[c].funded + Gap(c), pending |-> NoIntent]
    BY DEF Start, ReadsDeposit, ReadsWallet, Reconciles, DropsIntent, AlreadyFunded, Intends, FundLands,
           FundRefused, FundFails, ClearsIntent, Confirms, Fails
  <2> HIDE DEF EnsureFunded
  <2> QED
    BY <2>1, <2>2, <2>3, EmptyIntent DEF Cents
<1>4. doubt' \in BOOLEAN
  <2>1. doubt' = doubt \/ \E b \in BOOLEAN : doubt' = (doubt \/ b)
    BY Zenon DEF Start, ReadsDeposit, ReadsWallet, Reconciles, DropsIntent, AlreadyFunded, Intends, FundLands,
                 FundRefused, FundFails, ClearsIntent, Confirms, Fails
  <2> QED
    BY <2>1, Zenon DEF TypeOK
<1>5. faults' \in 0..MaxFaults
  <2>1. faults' = faults \/ Fault
    BY DEF Start, ReadsDeposit, ReadsWallet, Reconciles, DropsIntent, AlreadyFunded, Intends, FundLands,
           FundRefused, FundFails, ClearsIntent, Confirms, Fails
  <2> QED
    BY <2>1, Constants DEF Fault, TypeOK
<1>6. call' \in [Calls -> CallRec]
  BY CallWrites
<1> QED
  BY <1>1, <1>2, <1>3, <1>4, <1>5, <1>6 DEF TypeOK, CallRec, shop

----------------------------------------------------------------------------
(* provisionEsim(): types and the mutex *)

LEMMA AskTypes ==
  ASSUME TypeOK, Shop, NEW a \in Asks, ProvisionEsim(a)
  PROVE  TypeOK'
<1> USE DEF ProvisionEsim
<1>1. UNCHANGED <<deposit, wallet, landed, late, fund, call, doubt, trips>>
  BY DEF Ask, Reuses, Buys, Sold, Records, BuyFails, citrus
<1>2. /\ bought \in Nat /\ bought <= MaxEsims /\ lost \in Nat /\ lost <= MaxEsims /\ Len(esims) \in Nat
      /\ esims \in Seq(Stages) /\ MaxEsims \in Nat /\ Len(esims) <= MaxEsims
  BY Constants DEF TypeOK, Stages
<1>3. ask[a] = "bought" => bought = Len(esims) + lost + 1
  BY DEF Shop
<1>4. bought' \in 0..MaxEsims /\ lost' \in 0..MaxEsims
  <2>1. \/ UNCHANGED <<bought, lost>>
        \/ bought < MaxEsims /\ bought' = bought + 1 /\ UNCHANGED lost
        \/ UNCHANGED bought /\ lost' = IF ask[a] = "bought" THEN lost + 1 ELSE lost
    BY DEF Ask, Reuses, Buys, Sold, Records, BuyFails
  <2> QED
    BY <1>2, <1>3, <2>1
<1>5. esims' \in Seq(Stages) /\ Len(esims') <= MaxEsims
  <2>1. \/ UNCHANGED esims
        \/ ask[a] = "bought" /\ esims' = Append(esims, "live")
    BY DEF Ask, Reuses, Buys, Sold, Records, BuyFails
  <2> QED
    BY <1>2, <1>3, <2>1 DEF Stages
<1>6. ask' \in [Asks -> {"off", "queued", "buying", "bought"}]
  BY DEF Ask, Reuses, Buys, Sold, Records, BuyFails, TypeOK
<1>7. lock' \in Asks \cup {Nobody} /\ (lock' # Nobody => ask'[lock'] \in {"buying", "bought"})
  <2>1. ask \in [Asks -> {"off", "queued", "buying", "bought"}] /\ lock \in Asks \cup {Nobody}
        /\ (lock # Nobody => ask[lock] \in {"buying", "bought"})
    BY DEF TypeOK
  <2>2. ask[a] \in {"off", "queued"} => lock # a
    BY <2>1, Constants
  <2> QED
    BY <2>1, <2>2, Constants DEF Ask, Reuses, Buys, Sold, Records, BuyFails
<1>8. faults' \in 0..MaxFaults
  <2>1. faults' = faults \/ Fault
    BY DEF Ask, Reuses, Buys, Sold, Records, BuyFails
  <2> QED
    BY <2>1, Constants DEF Fault, TypeOK
<1> QED
  BY <1>1, <1>4, <1>5, <1>6, <1>7, <1>8 DEF TypeOK, Stages

LEMMA AskShop ==
  ASSUME TypeOK, Shop, NEW a \in Asks, ProvisionEsim(a)
  PROVE  Shop'
<1> DEFINE Owner == \A b \in Asks : ask[b] \in {"buying", "bought"} => lock = b
           InHand == IF \E b \in Asks : ask[b] = "bought" THEN 1 ELSE 0
           Count == bought = Len(esims) + lost + InHand
           First == trips = 0 => esims = <<>> \/ (Len(esims) = 1 /\ Live /\ lock = Nobody)
<1>1. /\ ask \in [Asks -> {"off", "queued", "buying", "bought"}] /\ lock \in Asks \cup {Nobody}
      /\ lock # Nobody => ask[lock] \in {"buying", "bought"}
      /\ bought \in Nat /\ lost \in Nat /\ esims \in Seq(Stages) /\ Len(esims) \in Nat
      /\ Nobody \notin Asks
  BY Constants DEF TypeOK, Stages
<1>2. Owner /\ Count /\ First
  BY DEF Shop
<1>3. trips' = trips
  BY DEF ProvisionEsim, Ask, Reuses, Buys, Sold, Records, BuyFails
<1>4. CASE Ask(a) \/ Reuses(a)
  <2>1. /\ \E v \in {"off", "queued"} : ask' = [ask EXCEPT ![a] = v]
        /\ ask[a] \in {"off", "queued"} /\ UNCHANGED <<bought, esims, lock, lost>>
    BY <1>4 DEF Ask, Reuses
  <2>2. Owner'
    BY <1>1, <1>2, <2>1
  <2>3. InHand' = InHand
    BY <1>1, <2>1
  <2> QED
    BY <1>2, <1>3, <2>1, <2>2, <2>3 DEF Shop, Live
<1>5. CASE Buys(a)
  <2>1. /\ ask' = [ask EXCEPT ![a] = "buying"] /\ lock' = a /\ ask[a] = "queued" /\ lock = Nobody
        /\ ~Live /\ UNCHANGED <<bought, esims, lost>>
    BY <1>5 DEF Buys
  <2>2. Owner'
    BY <1>1, <1>2, <2>1
  <2>3. InHand' = InHand
    BY <1>1, <2>1
  <2>4. First'
    BY <1>2, <1>3, <2>1
  <2> QED
    BY <1>2, <2>1, <2>2, <2>3, <2>4 DEF Shop, Live
<1>6. CASE Sold(a)
  <2>1. /\ ask' = [ask EXCEPT ![a] = "bought"] /\ ask[a] = "buying" /\ lock = a
        /\ bought' = bought + 1 /\ UNCHANGED <<esims, lock, lost>>
    BY <1>2, <1>6 DEF Sold
  <2>2. Owner'
    BY <1>1, <1>2, <2>1
  <2>3. InHand = 0 /\ InHand' = 1
    BY <1>1, <1>2, <2>1
  <2>4. Count'
    BY <1>1, <1>2, <2>1, <2>3
  <2> QED
    BY <1>2, <1>3, <2>1, <2>2, <2>4 DEF Shop, Live
<1>7. CASE Records(a)
  <2>1. /\ ask' = [ask EXCEPT ![a] = "off"] /\ ask[a] = "bought" /\ lock = a /\ lock' = Nobody
        /\ esims' = Append(esims, "live") /\ UNCHANGED <<bought, lost>>
    BY <1>2, <1>7 DEF Records
  <2>2. Owner'
    BY <1>1, <1>2, <2>1
  <2>3. InHand = 1 /\ InHand' = 0
    BY <1>1, <1>2, <2>1
  <2>4. Len(esims') = Len(esims) + 1
    BY <1>1, <2>1 DEF Stages
  <2>5. Count'
    BY <1>1, <1>2, <2>1, <2>3, <2>4
  <2>6. First'
    <3>1. trips = 0 => esims = <<>>
      BY <1>1, <1>2, <2>1
    <3>2. esims = <<>> => Len(esims') = 1 /\ esims' # <<>> /\ esims'[1] = "live"
      BY <1>1, <2>1 DEF Stages
    <3> QED
      BY <1>3, <2>1, <3>1, <3>2 DEF Live
  <2> QED
    BY <2>2, <2>5, <2>6 DEF Shop, Live
<1>8. CASE BuyFails(a)
  <2>1. /\ ask' = [ask EXCEPT ![a] = "off"] /\ ask[a] \in {"buying", "bought"} /\ lock = a /\ lock' = Nobody
        /\ lost' = (IF ask[a] = "bought" THEN lost + 1 ELSE lost) /\ UNCHANGED <<bought, esims>>
    BY <1>2, <1>8 DEF BuyFails
  <2>2. Owner'
    BY <1>1, <1>2, <2>1
  <2>3. InHand = (IF ask[a] = "bought" THEN 1 ELSE 0) /\ InHand' = 0
    BY <1>1, <1>2, <2>1
  <2>4. Count'
    <3>1. bought = Len(esims) + lost + InHand
      BY <1>2
    <3>2. CASE ask[a] = "bought"
      BY <1>1, <2>1, <2>3, <3>1, <3>2
    <3>3. CASE ask[a] # "bought"
      BY <1>1, <2>1, <2>3, <3>1, <3>3
    <3> QED
      BY <3>2, <3>3
  <2>5. First'
    <3>1. trips = 0 => esims = <<>>
      BY <1>1, <1>2, <2>1
    <3> QED
      BY <1>3, <2>1, <3>1
  <2> QED
    BY <2>2, <2>4, <2>5 DEF Shop, Live
<1> QED
  BY <1>4, <1>5, <1>6, <1>7, <1>8 DEF ProvisionEsim

\* No other step reaches the mutex; a defund or a termination ends the first trip.
LEMMA WorldShop ==
  ASSUME TypeOK, Shop, World \/ \E c \in Calls : EnsureFunded(c)
  PROVE  Shop'
<1>1. UNCHANGED <<bought, lost, lock, ask>>
  BY DEF World, DepositGrows, Spend, LandsLate, NeverLands, DefundStarts, DefundEnds, Terminate, shop,
         EnsureFunded, Start, ReadsDeposit, ReadsWallet, Reconciles, DropsIntent, AlreadyFunded, Intends,
         FundLands, FundRefused, FundFails, ClearsIntent, Confirms, Fails
<1>2. esims \in Seq(Stages) /\ trips \in Nat
  BY Constants DEF TypeOK, Stages
<1>3. \/ UNCHANGED <<esims, trips>>
      \/ trips' = trips + 1 /\ Live /\ \E v \in Stages : esims' = [esims EXCEPT ![1] = v]
      \/ UNCHANGED trips /\ esims # <<>> /\ esims[1] = "pending" /\ esims' = [esims EXCEPT ![1] = "live"]
  BY DEF World, DepositGrows, Spend, LandsLate, NeverLands, DefundStarts, DefundEnds, Terminate, shop,
         EnsureFunded, Start, ReadsDeposit, ReadsWallet, Reconciles, DropsIntent, AlreadyFunded, Intends,
         FundLands, FundRefused, FundFails, ClearsIntent, Confirms, Fails, Stages
<1>4. Len(esims') = Len(esims)
  BY <1>2, <1>3 DEF Live
<1>5. trips' = 0 => trips = 0 /\ UNCHANGED esims
  <2>1. trips = 0 => esims = <<>> \/ esims[1] = "live"
    BY DEF Shop, Live
  <2>2. trips + 1 # 0
    BY <1>2
  <2> QED
    BY <1>3, <2>1, <2>2
<1> QED
  BY <1>1, <1>4, <1>5 DEF Shop, Live

----------------------------------------------------------------------------
(* ensureFunded(): the books of the row *)

LEMMA SizedKept ==
  ASSUME TypeOK, Sized, Next
  PROVE  Sized'
<1>1. deposit \in Nat /\ deposit' \in Nat /\ deposit <= deposit'
  <2>1. deposit \in Deposits /\ deposit' \in Deposits /\ (deposit' = deposit \/ deposit < deposit')
    BY DEF Next, TypeOK, DepositGrows, Spend, LandsLate, NeverLands, DefundStarts, DefundEnds, Terminate,
         EnsureFunded, Start, ReadsDeposit, ReadsWallet, Reconciles, DropsIntent, AlreadyFunded, Intends,
         FundLands, FundRefused, FundFails, ClearsIntent, Confirms, Fails, ProvisionEsim, Ask, Reuses, Buys,
         Sold, Records, BuyFails
  <2> QED
    BY <2>1, Constants
<1>2. ASSUME NEW c \in Calls, call[c].pc \notin {"off", "deposit"}
      PROVE  Paid(call[c].max, deposit')
  BY <1>1, <1>2, CallTyped, PaidMonotone DEF Sized
<1>3. CASE UNCHANGED call
  BY <1>2, <1>3 DEF Sized, Gap
<1>4. ASSUME NEW c \in Calls, EnsureFunded(c)
      PROVE  Sized'
  <2>1. \A d \in Calls \ {c} : call'[d] = call[d]
    BY <1>4, CallWrites
  <2>2. call \in [Calls -> CallRec] /\ deposit' = deposit
    BY <1>4 DEF TypeOK, CallRec, EnsureFunded, Start, ReadsDeposit, ReadsWallet, Reconciles, DropsIntent,
         AlreadyFunded, Intends, FundLands, FundRefused, FundFails, ClearsIntent, Confirms, Fails
  <2>3. /\ call'[c].pc \notin {"off", "deposit"} => Paid(call'[c].max, deposit')
        /\ call'[c].pc \in Posting => call'[c].max - call'[c].funded > 0
    <3>1. CASE call'[c].pc \in {"off", "deposit"}
      BY <3>1 DEF Posting
    <3>2. CASE ReadsDeposit(c)
      BY <2>2, <3>2, MaxCovered DEF ReadsDeposit, TypeOK, Posting
    <3>3. CASE \/ ReadsWallet(c) \/ Reconciles(c) \/ DropsIntent(c)
               \/ Intends(c) \/ FundLands(c) \/ FundRefused(c)
      <4>0. /\ call[c] \in CallRec
            /\ \/ /\ call[c].pc = "wallet" /\ call'[c].max = call[c].max
                  /\ call'[c].pc \in {"gap", "landed", "dropped"}
               \/ /\ call[c].pc = "landed" /\ call'[c].max = call[c].max
                  /\ call'[c].pc = "gap"
               \/ \E pc \in {"gap", "post", "confirm", "refused"} :
                    /\ call'[c] = [call[c] EXCEPT !.pc = pc] /\ call[c].pc \in {"dropped", "gap", "post"}
                    /\ pc = "gap" \/ call[c].pc = "post" \/ Gap(c) > 0
        <5>1. call[c] \in CallRec
          BY <2>2
        <5>2. CASE ReadsWallet(c)
          BY <2>2, <5>1, <5>2 DEF ReadsWallet, CallRec
        <5>3. CASE Reconciles(c)
          BY <2>2, <5>1, <5>3 DEF Reconciles, CallRec
        <5>4. CASE DropsIntent(c) \/ Intends(c) \/ FundLands(c) \/ FundRefused(c)
          BY <2>2, <5>1, <5>4 DEF DropsIntent, Intends, FundLands, FundRefused, Goes
        <5> QED
          BY <3>3, <5>1, <5>2, <5>3, <5>4
      <4>1. call'[c].max = call[c].max /\ call[c].pc \notin {"off", "deposit"}
        BY <4>0 DEF CallRec
      <4>2. ASSUME call'[c].pc \in Posting
            PROVE  call'[c].funded = call[c].funded /\ Gap(c) > 0
        BY <4>0, <4>2 DEF CallRec, Posting, Sized
      <4> QED
        BY <1>2, <4>1, <4>2 DEF Gap
    <3>4. Start(c) \/ Ends(c) => call'[c].pc \in {"off", "deposit"}
      BY <2>2, EmptyIntent DEF Start, Ends, CallRec
    <3> QED
      BY <1>4, <3>1, <3>2, <3>3, <3>4 DEF EnsureFunded, AlreadyFunded, FundFails, ClearsIntent, Confirms, Fails
  <2> QED
    BY <1>2, <2>1, <2>3 DEF Sized, Gap
<1>5. UNCHANGED call \/ \E c \in Calls : EnsureFunded(c)
  BY DEF Next, DepositGrows, Spend, LandsLate, NeverLands, DefundStarts, DefundEnds, Terminate, ProvisionEsim,
         Ask, Reuses, Buys, Sold, Records, BuyFails
<1> QED
  BY <1>3, <1>4, <1>5

\* A step that leaves the row, the wallet and the calls alone keeps the books: a larger
\* deposit and another fault only make room.
LEMMA BooksFramed ==
  ASSUME TypeOK, Books, UNCHANGED <<wallet, landed, late, fund, call>>,
         deposit' \in Deposits, deposit <= deposit', faults' \in {faults, faults + 1}, Live => Live'
  PROVE  Books'
<1>1. Margin(faults) \in Nat /\ Margin(faults') \in Nat /\ Margin(faults) <= Margin(faults')
  BY RowTyped, Margins
<1>2. LeftBehind' = LeftBehind /\ LeftBehind \in Nat
  BY Margins DEF LeftBehind
<1>3. landed \in Nat /\ fund.funded \in Nat /\ fund.pending.amt \in Nat
  BY RowTyped
<1>4. (HasLanded => HasLanded') /\ (NotLanded => NotLanded') /\ (AllClear => AllClear')
  BY <1>1, <1>2, <1>3 DEF HasLanded, NotLanded, AllClear
<1>5. Paid(fund.funded + fund.pending.amt, deposit)'
  <2>1. deposit \in Nat /\ deposit' \in Nat
    BY RowTyped, Constants
  <2>2. fund.funded + fund.pending.amt \in Nat /\ Paid(fund.funded + fund.pending.amt, deposit)
    BY <1>3 DEF Books
  <2>3. Paid(fund.funded + fund.pending.amt, deposit')
    BY <2>1, <2>2, PaidMonotone
  <2> QED
    BY <2>3
<1>6. ASSUME NEW c \in Calls
      PROVE  Progress(c)'
  BY <1>4 DEF Books, Progress, Gap
<1> QED
  BY <1>4, <1>5, <1>6 DEF Books

\* With no call under way the books are those of the row.
LEMMA BooksIdle ==
  ASSUME \A c \in Calls : call'[c].pc = "off",
         Paid(fund.funded + fund.pending.amt, deposit)',
         (IF fund.pending = NoIntent THEN AllClear ELSE HasLanded \/ NotLanded)'
  PROVE  Books'
BY DEF Books, Progress, Posting

LEMMA WorldBooks ==
  ASSUME TypeOK, Books, World, ~doubt'
  PROVE  Books'
<1>1. /\ wallet \in Nat /\ landed \in Nat /\ late \in Nat /\ deposit \in Nat
      /\ fund.funded \in Nat /\ fund.pending.amt \in Nat /\ fund.pending.before \in Nat
      /\ fund \in [funded : Cents, pending : Intent]
      /\ Slack > 0 /\ Slack \in Nat
  BY RowTyped, Constants DEF TypeOK
<1>2. Margin(faults) \in Nat /\ LeftBehind \in Nat
  BY RowTyped, Margins DEF LeftBehind
<1>3. UNCHANGED <<call, faults>> /\ LeftBehind' = LeftBehind
  BY DEF World, DepositGrows, Spend, LandsLate, NeverLands, DefundStarts, DefundEnds, Terminate, LeftBehind
<1>4. Busy = {} => \A c \in Calls : call'[c].pc = "off"
  BY <1>3 DEF Busy
<1>5. CASE DepositGrows
  <2>1. deposit' \in Deposits /\ deposit <= deposit' /\ UNCHANGED <<wallet, landed, late, fund, call, faults, esims>>
    BY <1>5, Constants DEF DepositGrows, citrus, shop, TypeOK
  <2> QED
    BY <2>1, BooksFramed DEF Live
<1>6. CASE Spend
  <2>1. /\ Busy = {} /\ fund.pending = NoIntent /\ UNCHANGED <<deposit, landed, late, fund>>
    BY <1>6 DEF Spend
  <2> QED
    BY <1>3, <1>4, <2>1, BooksIdle DEF Books, AllClear
<1>7. CASE LandsLate
  <2>1. /\ Busy = {} /\ late > 0 /\ UNCHANGED <<deposit, fund>>
        /\ wallet' = wallet + late /\ landed' = landed + late /\ late' = 0
    BY <1>7 DEF LandsLate
  <2>2. fund.pending # NoIntent /\ NotLanded
    BY <1>1, <2>1 DEF Books, AllClear, HasLanded
  <2>3. late = fund.pending.amt /\ fund.pending.before <= wallet
    BY <1>1, <2>1, <2>2 DEF NotLanded
  <2>4. HasLanded'
    BY <1>1, <1>2, <1>3, <2>1, <2>2, <2>3 DEF HasLanded, NotLanded
  <2> QED
    BY <1>4, <2>1, <2>2, <2>4, BooksIdle DEF Books
<1>8. CASE NeverLands
  <2>1. late > 0 /\ late' = 0 /\ UNCHANGED <<deposit, wallet, landed, fund, esims>>
    BY <1>8 DEF NeverLands, shop
  <2>2. (HasLanded => HasLanded') /\ (NotLanded => NotLanded') /\ (AllClear => AllClear')
    BY <1>1, <1>3, <2>1 DEF HasLanded, NotLanded, AllClear
  <2>3. ASSUME NEW c \in Calls
        PROVE  Progress(c)'
    BY <1>3, <2>1, <2>2 DEF Books, Progress, Gap, Live
  <2> QED
    BY <1>3, <2>1, <2>2, <2>3 DEF Books
<1>9. CASE DefundStarts \/ Terminate
  <2>1. Busy = {} /\ UNCHANGED <<deposit, wallet, landed, late, fund>>
    BY <1>9 DEF DefundStarts, Terminate, citrus
  <2>2. (HasLanded => HasLanded') /\ (NotLanded => NotLanded') /\ (AllClear => AllClear')
    BY <1>3, <2>1 DEF HasLanded, NotLanded, AllClear
  <2> QED
    BY <1>4, <2>1, <2>2, BooksIdle DEF Books
<1>10. CASE DefundEnds
  <2>1. /\ esims[1] = "pending" /\ UNCHANGED deposit
        /\ wallet' = 0 /\ landed' = 0 /\ late' = 0 /\ fund' = [fund EXCEPT !.funded = 0]
    BY <1>10 DEF DefundEnds
  <2>2. fund'.funded = 0 /\ fund'.pending = fund.pending
    BY <1>1, <2>1
  <2>3. \A c \in Calls : call'[c].pc = "off"
    BY <1>3, <2>1 DEF Books, Progress, Live
  <2>4. fund.pending # NoIntent => LeftBehind <= Margin(faults)
    BY <1>1, <1>2 DEF Books, HasLanded, NotLanded
  <2>5. fund.pending # NoIntent => NotLanded'
    BY <1>1, <1>2, <1>3, <2>1, <2>2, <2>4 DEF NotLanded
  <2>6. fund.pending = NoIntent => AllClear'
    BY <1>2, <1>3, <2>1, <2>2 DEF AllClear
  <2>7. Paid(fund.funded + fund.pending.amt, deposit)'
    <3>1. fund.funded + fund.pending.amt \in Nat /\ Paid(fund.funded + fund.pending.amt, deposit)
      BY <1>1 DEF Books
    <3>2. Paid(fund.pending.amt, deposit)
      BY <1>1, <3>1, PaidMonotone
    <3>3. fund'.funded + fund'.pending.amt = fund.pending.amt /\ deposit' = deposit
      BY <1>1, <2>1, <2>2
    <3> QED
      BY <3>2, <3>3
  <2> QED
    BY <2>2, <2>3, <2>5, <2>6, <2>7, BooksIdle
<1> QED
  BY <1>5, <1>6, <1>7, <1>8, <1>9, <1>10 DEF World

LEMMA AskBooks ==
  ASSUME TypeOK, Books, NEW a \in Asks, ProvisionEsim(a)
  PROVE  Books'
<1>1. UNCHANGED <<wallet, landed, late, fund, call, deposit>> /\ deposit \in Deposits /\ deposit <= deposit'
  BY RowTyped DEF ProvisionEsim, Ask, Reuses, Buys, Sold, Records, BuyFails, citrus, TypeOK
<1>2. faults' \in {faults, faults + 1}
  BY DEF ProvisionEsim, Ask, Reuses, Buys, Sold, Records, BuyFails, Fault
<1>3. Live => Live'
  <2>1. esims' = esims \/ esims' = Append(esims, "live")
    BY DEF ProvisionEsim, Ask, Reuses, Buys, Sold, Records, BuyFails
  <2>2. esims \in Seq(Stages)
    BY DEF TypeOK, Stages
  <2> QED
    BY <2>1, <2>2 DEF Live, Stages
<1> QED
  BY <1>1, <1>2, <1>3, BooksFramed

\* Where the step of the only call under way leads, and what it found.
Alone(c) == \A d \in Calls \ {c} : call[d].pc = "off"

LEMMA AloneFacts ==
  ASSUME TypeOK, Books, NEW c \in Calls, EnsureFunded(c), ~doubt'
  PROVE  /\ Alone(c) /\ Alone(c)' /\ Progress(c) /\ UNCHANGED <<deposit, esims>>
         /\ LeftBehind = IF call[c].pc \in Posting THEN 0 ELSE Unreal
         /\ LeftBehind' = IF call'[c].pc \in Posting THEN 0 ELSE Unreal
<1>1. UNCHANGED <<deposit, esims>>
  BY DEF EnsureFunded, Start, ReadsDeposit, ReadsWallet, Reconciles, DropsIntent, AlreadyFunded, Intends,
         FundLands, FundRefused, FundFails, ClearsIntent, Confirms, Fails, shop
<1>2. Alone(c)
  <2>1. CASE Start(c)
    BY <2>1 DEF Start, Busy, Alone
  <2>2. CASE ~Start(c)
    <3>1. call[c].pc # "off"
      BY <2>2 DEF EnsureFunded, ReadsDeposit, ReadsWallet, Reconciles, DropsIntent, AlreadyFunded, Intends,
                  FundLands, FundRefused, FundFails, ClearsIntent, Confirms, Fails
    <3> QED
      BY <3>1 DEF Books, Alone
  <2> QED
    BY <2>1, <2>2
<1>3. Alone(c)'
  BY <1>2, CallWrites DEF Alone
<1> QED
  BY <1>1, <1>2, <1>3 DEF Books, LeftBehind, Alone, Posting

\* The books after the step of the only call: the row, and what that call holds.
LEMMA BooksAlone ==
  ASSUME NEW c \in Calls, Alone(c)',
         Paid(fund.funded + fund.pending.amt, deposit)',
         (IF fund.pending = NoIntent THEN AllClear ELSE HasLanded \/ NotLanded)',
         Progress(c)'
  PROVE  Books'
<1>1. ASSUME NEW d \in Calls, d # c
      PROVE  Progress(d)'
  BY <1>1 DEF Alone, Progress, Posting
<1>2. \A d, e \in Calls : call'[d].pc # "off" /\ call'[e].pc # "off" => d = e
  BY DEF Alone
<1> QED
  BY <1>1, <1>2 DEF Books

\* The steps that read, judge and return without touching the row.
LEMMA ReadBooks ==
  ASSUME TypeOK, Books, NEW c \in Calls, ~doubt', EnsureFunded(c),
         Start(c) \/ ReadsDeposit(c) \/ ReadsWallet(c) \/ AlreadyFunded(c)
  PROVE  Books'
<1>1. /\ wallet \in Nat /\ landed \in Nat /\ late \in Nat
      /\ fund.funded \in Nat /\ fund.pending.amt \in Nat /\ fund.pending.before \in Nat
      /\ Slack > 0 /\ Slack \in Nat /\ Unreal = 2 * Slack - 1
  BY RowTyped, Constants
<1>2. UNCHANGED <<wallet, landed, late, fund, faults>>
  BY DEF Start, ReadsDeposit, ReadsWallet, AlreadyFunded, citrus
<1>3. /\ Alone(c)' /\ Progress(c) /\ UNCHANGED <<deposit, esims>>
      /\ call[c].pc \notin Posting /\ call'[c].pc \notin Posting /\ LeftBehind' = LeftBehind
  <2>1. call[c].pc \notin Posting
    BY DEF Start, ReadsDeposit, ReadsWallet, AlreadyFunded, Posting
  <2>2. call'[c].pc \notin Posting
    <3>1. call \in [Calls -> CallRec] /\ call[c] \in CallRec
      BY DEF TypeOK, CallRec
    <3>2. CASE Start(c) \/ AlreadyFunded(c)
      BY <3>1, <3>2, EmptyIntent DEF Start, AlreadyFunded, Posting, Ends, CallRec
    <3>3. CASE ReadsDeposit(c)
      BY <3>1, <3>3 DEF ReadsDeposit, Posting, CallRec
    <3>4. CASE ReadsWallet(c)
      BY <3>1, <3>4 DEF ReadsWallet, Posting, CallRec
    <3> QED
      BY <3>2, <3>3, <3>4
  <2> QED
    BY <2>1, <2>2, AloneFacts
<1>4. (HasLanded => HasLanded') /\ (NotLanded => NotLanded') /\ (AllClear => AllClear')
  BY <1>2, <1>3 DEF HasLanded, NotLanded, AllClear
<1>5. call \in [Calls -> CallRec] /\ call[c] \in CallRec
  BY DEF TypeOK, CallRec
<1>6. Progress(c)'
  <2>1. CASE Start(c)
    <3>1. call'[c].pc = "deposit" /\ call'[c].funded = fund.funded /\ call'[c].pending = fund.pending /\ Live
      BY <1>5, <2>1, EmptyIntent DEF Start, CallRec
    <3> QED
      BY <1>2, <1>3, <3>1 DEF Progress, Live, Posting
  <2>2. CASE ReadsDeposit(c)
    <3>1. /\ call'[c].pc = "wallet" /\ call[c].pc = "deposit"
          /\ call'[c].funded = call[c].funded /\ call'[c].pending = call[c].pending
      BY <1>5, <2>2 DEF ReadsDeposit, CallRec
    <3> QED
      BY <1>2, <1>3, <3>1 DEF Progress, Live, Posting
  <2>3. CASE ReadsWallet(c)
    <3>1. PICK w \in Shown : call' = [call EXCEPT ![c].seen = w,
                            ![c].pc = IF call[c].pending = NoIntent THEN "gap"
                                      ELSE IF Landed(call[c].pending, w) THEN "landed" ELSE "dropped"]
      BY <2>3 DEF ReadsWallet
    <3>2. w \in Nat /\ w <= wallet /\ wallet < w + Slack
      BY <1>1, <3>1 DEF Shown
    <3>3. /\ call[c].pc = "wallet"
          /\ call'[c].seen = w /\ call'[c].funded = call[c].funded /\ call'[c].pending = call[c].pending
          /\ call'[c].pc = IF call[c].pending = NoIntent THEN "gap"
                           ELSE IF Landed(call[c].pending, w) THEN "landed" ELSE "dropped"
      BY <1>5, <2>3, <3>1 DEF ReadsWallet, CallRec
    <3>4. call[c].pending = fund.pending /\ Live /\ call[c].funded = fund.funded
      BY <1>3, <3>3 DEF Progress
    <3>5. Landed(fund.pending, w) /\ NotLanded => fund.pending.amt <= Unreal
      BY <1>1, <3>2 DEF Landed, NotLanded
    <3>6. ~Landed(fund.pending, w) => ~HasLanded
      BY <1>1, <3>2 DEF Landed, HasLanded
    <3> QED
      BY <1>2, <1>3, <1>4, <3>2, <3>3, <3>4, <3>5, <3>6 DEF Books, Progress, Live, Posting
  <2>4. CASE AlreadyFunded(c)
    BY <1>5, <2>4, EmptyIntent DEF AlreadyFunded, Ends, Progress, Posting
  <2> QED
    BY <2>1, <2>2, <2>3, <2>4
<1>7. (IF fund.pending = NoIntent THEN AllClear ELSE HasLanded \/ NotLanded)'
  BY <1>2, <1>4 DEF Books
<1>8. Paid(fund.funded + fund.pending.amt, deposit)'
  BY <1>2, <1>3 DEF Books
<1> QED
  BY <1>3, <1>6, <1>7, <1>8, BooksAlone

\* The steps that resolve an intent of an earlier call.
LEMMA ResolveBooks ==
  ASSUME TypeOK, Books, NEW c \in Calls, ~doubt', EnsureFunded(c), Reconciles(c) \/ DropsIntent(c)
  PROVE  Books'
<1>1. /\ wallet \in Nat /\ landed \in Nat /\ late \in Nat /\ Margin(faults) \in Nat /\ Unreal \in Nat
      /\ fund.funded \in Nat /\ fund.pending.amt \in Nat
      /\ fund \in [funded : Cents, pending : Intent]
  BY RowTyped, Margins DEF TypeOK
<1>2. UNCHANGED <<wallet, landed, late, faults>> /\ ~(late > 0)
  BY DEF Reconciles, DropsIntent, citrus
<1>3. Alone(c)' /\ Progress(c) /\ UNCHANGED <<deposit, esims>> /\ LeftBehind = Unreal
  BY AloneFacts DEF Reconciles, DropsIntent, Posting
<1>4. call \in [Calls -> CallRec] /\ call[c] \in CallRec
  BY DEF TypeOK, CallRec
<1>5. /\ call[c].pc \in {"landed", "dropped"} /\ call[c].funded = fund.funded /\ call[c].pending = fund.pending
      /\ call[c].seen <= wallet /\ wallet < call[c].seen + Slack /\ Live
  BY <1>3 DEF Reconciles, DropsIntent, Progress
<1>6. NoIntent.amt = 0
  BY DEF NoIntent
<1>7. /\ call'[c].pc = "gap" /\ call'[c].seen = call[c].seen /\ call'[c].funded = fund'.funded
      /\ fund'.pending = NoIntent
      /\ fund'.funded = IF Reconciles(c) THEN fund.funded + fund.pending.amt ELSE fund.funded
  <2>1. CASE Reconciles(c)
    BY <1>4, <1>5, <2>1 DEF Reconciles, CallRec
  <2>2. CASE ~Reconciles(c)
    BY <1>1, <1>4, <1>5, <2>2 DEF DropsIntent, Goes, CallRec
  <2> QED
    BY <2>1, <2>2
<1>8. AllClear'
  <2>1. CASE Reconciles(c)
    BY <1>1, <1>2, <1>3, <1>7, <2>1 DEF Reconciles, Progress, AllClear, HasLanded, NotLanded
  <2>2. CASE ~Reconciles(c)
    BY <1>1, <1>2, <1>3, <1>7, <2>2 DEF DropsIntent, Progress, AllClear, NotLanded
  <2> QED
    BY <2>1, <2>2
<1>9. Paid(fund.funded + fund.pending.amt, deposit)'
  <2>1. fund.funded + fund.pending.amt \in Nat /\ Paid(fund.funded + fund.pending.amt, deposit) /\ deposit \in Nat
    BY <1>1, RowTyped DEF Books
  <2>2. Paid(fund'.funded, deposit) /\ fund'.funded \in Nat
    BY <1>1, <1>7, <2>1, PaidMonotone
  <2>3. fund'.funded + fund'.pending.amt = fund'.funded
    BY <1>6, <1>7, <2>2
  <2> QED
    BY <1>3, <2>2, <2>3
<1>10. Progress(c)'
  BY <1>2, <1>3, <1>5, <1>7 DEF Progress, Live, Posting
<1> QED
  BY <1>3, <1>7, <1>8, <1>9, <1>10, BooksAlone

\* The steps from the intent to its answer.
LEMMA PostBooks ==
  ASSUME TypeOK, Sized, Books, NEW c \in Calls, ~doubt', EnsureFunded(c),
         Intends(c) \/ FundLands(c) \/ FundRefused(c)
  PROVE  Books'
<1>1. /\ wallet \in Nat /\ landed \in Nat /\ late \in Nat /\ Margin(faults) \in Nat
      /\ fund.funded \in Nat /\ fund.pending.amt \in Nat /\ fund.pending.before \in Nat
      /\ fund \in [funded : Cents, pending : Intent]
      /\ call[c].seen \in Nat /\ call[c].max \in Nat /\ Gap(c) \in Int /\ Gap(c) = call[c].max - call[c].funded
  BY RowTyped, Margins, CallTyped DEF TypeOK
<1>2. call \in [Calls -> CallRec] /\ call[c] \in CallRec
  BY DEF TypeOK, CallRec
<1>3. /\ Alone(c)' /\ Progress(c) /\ UNCHANGED <<deposit, esims, faults>>
      /\ LeftBehind = IF call[c].pc \in Posting THEN 0 ELSE Unreal
      /\ LeftBehind' = IF call'[c].pc \in Posting THEN 0 ELSE Unreal
  BY AloneFacts DEF Intends, FundLands, FundRefused
<1>4. /\ call[c].pc \in {"gap", "post"} /\ Gap(c) > 0 /\ Live /\ call[c].funded = fund.funded
      /\ call'[c] = [call[c] EXCEPT !.pc = IF Intends(c) THEN "post" ELSE IF FundLands(c) THEN "confirm" ELSE "refused"]
  BY <1>2, <1>3 DEF Intends, FundLands, FundRefused, Goes, Sized, Posting, Progress
<1>5. /\ call'[c].pc = (IF Intends(c) THEN "post" ELSE IF FundLands(c) THEN "confirm" ELSE "refused")
      /\ call'[c].funded = call[c].funded /\ call'[c].seen = call[c].seen /\ call'[c].max = call[c].max
      /\ Gap(c)' = Gap(c) /\ LeftBehind' = 0
  BY <1>2, <1>3, <1>4 DEF CallRec, Gap, Posting
<1>6. /\ fund'.funded = fund.funded /\ fund'.pending = [amt |-> Gap(c), before |-> call[c].seen]
      /\ fund'.pending.amt = Gap(c) /\ fund'.pending.before = call[c].seen /\ fund'.pending # NoIntent
  <2>1. fund'.funded = fund.funded /\ fund'.pending = [amt |-> Gap(c), before |-> call[c].seen]
    <3>1. CASE Intends(c)
      BY <1>1, <3>1 DEF Intends
    <3>2. CASE ~Intends(c)
      BY <1>3, <3>2 DEF FundLands, FundRefused, Progress, Posting
    <3> QED
      BY <3>1, <3>2
  <2> QED
    BY <1>1, <1>4, <2>1 DEF NoIntent
<1>7. Paid(fund.funded + fund.pending.amt, deposit)'
  <2>1. Paid(call[c].max, deposit)
    BY <1>4 DEF Sized
  <2>2. fund'.funded + fund'.pending.amt = call[c].max
    BY <1>1, <1>4, <1>6
  <2> QED
    BY <1>3, <2>1, <2>2
<1>8. CASE Intends(c)
  <2>1. /\ UNCHANGED <<wallet, landed, late>> /\ call[c].pc = "gap" /\ call'[c].pc = "post"
        /\ fund.pending = NoIntent /\ AllClear
        /\ call[c].seen <= wallet /\ wallet < call[c].seen + Slack
    BY <1>3, <1>5, <1>8 DEF Intends, citrus, Progress, Books
  <2>2. NotLanded' /\ late' = 0 /\ fund'.pending.before <= wallet'
    BY <1>1, <1>3, <1>5, <1>6, <2>1 DEF NotLanded, AllClear
  <2>3. Progress(c)'
    BY <1>3, <1>4, <1>5, <1>6, <2>1, <2>2 DEF Progress, Live, Posting
  <2> QED
    BY <1>3, <1>6, <1>7, <2>2, <2>3, BooksAlone
<1>9. CASE ~Intends(c) /\ FundLands(c)
  <2>1. /\ wallet' = wallet + Gap(c) /\ landed' = landed + Gap(c) /\ late' = late
        /\ call[c].pc = "post" /\ call'[c].pc = "confirm" /\ UNCHANGED fund
        /\ NotLanded /\ late = 0 /\ fund.pending.before <= wallet /\ LeftBehind = 0
    BY <1>3, <1>5, <1>9 DEF FundLands, Progress, Posting
  <2>2. HasLanded'
    BY <1>1, <1>3, <1>4, <1>5, <1>6, <2>1 DEF NotLanded, HasLanded
  <2>3. Progress(c)'
    BY <1>3, <1>4, <1>5, <1>6, <2>1, <2>2 DEF Progress, Live, Posting
  <2> QED
    BY <1>3, <1>6, <1>7, <2>2, <2>3, BooksAlone
<1>10. CASE ~Intends(c) /\ ~FundLands(c)
  <2>1. /\ UNCHANGED <<wallet, landed, late, fund>>
        /\ call[c].pc = "post" /\ call'[c].pc = "refused"
        /\ NotLanded /\ late = 0 /\ LeftBehind = 0
    BY <1>3, <1>5, <1>10 DEF FundRefused, Progress, Posting, citrus
  <2>2. NotLanded' /\ late' = 0
    BY <1>3, <1>5, <2>1 DEF NotLanded
  <2>3. Progress(c)'
    BY <1>3, <1>4, <1>5, <1>6, <2>1, <2>2 DEF Progress, Live, Posting
  <2> QED
    BY <1>3, <1>6, <1>7, <2>2, <2>3, BooksAlone
<1> QED
  BY <1>8, <1>9, <1>10

\* The steps that end a call.
LEMMA EndBooks ==
  ASSUME TypeOK, Sized, Books, NEW c \in Calls, ~doubt', EnsureFunded(c),
         FundFails(c) \/ ClearsIntent(c) \/ Confirms(c) \/ Fails(c)
  PROVE  Books'
<1>1. /\ wallet \in Nat /\ landed \in Nat /\ late \in Nat /\ Unreal \in Nat
      /\ Margin(faults) \in Nat /\ Margin(faults + 1) = Margin(faults) + Unreal
      /\ fund.funded \in Nat /\ fund.pending.amt \in Nat /\ fund.pending.before \in Nat
      /\ fund \in [funded : Cents, pending : Intent]
      /\ call[c].seen \in Nat /\ Gap(c) \in Int /\ NoIntent.amt = 0
  BY RowTyped, Margins, CallTyped DEF TypeOK, NoIntent
<1>2. call \in [Calls -> CallRec] /\ call' = [call EXCEPT ![c] = CallOff]
  BY DEF TypeOK, CallRec, FundFails, ClearsIntent, Confirms, Fails, Ends
<1>3. /\ Alone(c)' /\ Progress(c) /\ UNCHANGED <<deposit, esims>>
      /\ LeftBehind = IF call[c].pc \in Posting THEN 0 ELSE Unreal
      /\ LeftBehind' = Unreal
      /\ \A d \in Calls : call'[d].pc = "off"
  BY <1>2, AloneFacts, EmptyIntent DEF Alone, Posting
<1>4. Paid(fund.funded + fund.pending.amt, deposit) /\ fund.funded + fund.pending.amt \in Nat /\ deposit \in Nat
  BY <1>1, RowTyped DEF Books
<1>5. call[c].pc \in Posting =>
        /\ Gap(c) > 0 /\ fund.pending.amt = Gap(c) /\ fund.pending.before = call[c].seen
        /\ fund.pending # NoIntent /\ call[c].funded = fund.funded
  BY <1>1, <1>3 DEF Sized, Progress, Posting
<1>6. CASE FundFails(c)
  <2>1. /\ UNCHANGED <<wallet, landed, fund>> /\ faults' = faults + 1 /\ call[c].pc \in {"post", "confirm"}
        /\ late' = (IF call[c].pc = "post" THEN Gap(c) ELSE 0) /\ LeftBehind = 0
    BY <1>3, <1>6 DEF FundFails, Fault, Posting
  <2>2. CASE call[c].pc = "post"
    <3>1. NotLanded /\ fund.pending.before <= wallet
      BY <1>3, <2>2 DEF Progress
    <3>2. NotLanded'
      BY <1>1, <1>3, <1>5, <2>1, <2>2, <3>1 DEF NotLanded, Posting
    <3> QED
      BY <1>3, <1>4, <1>5, <2>1, <3>2, BooksIdle DEF Posting
  <2>3. CASE call[c].pc = "confirm"
    <3>1. HasLanded
      BY <1>3, <2>3 DEF Progress
    <3>2. HasLanded'
      BY <1>1, <1>3, <2>1, <2>3, <3>1 DEF HasLanded
    <3> QED
      BY <1>3, <1>4, <1>5, <2>1, <3>2, BooksIdle DEF Posting
  <2> QED
    BY <2>1, <2>2, <2>3
<1>7. CASE Fails(c)
  <2>1. UNCHANGED <<wallet, landed, late, fund>> /\ faults' = faults + 1
    BY <1>7 DEF Fails, Fault, citrus
  <2>2. (HasLanded => HasLanded') /\ (NotLanded => NotLanded') /\ (AllClear => AllClear')
    BY <1>1, <1>3, <2>1 DEF HasLanded, NotLanded, AllClear
  <2> QED
    BY <1>3, <1>4, <2>1, <2>2, BooksIdle DEF Books
<1>8. CASE ClearsIntent(c)
  <2>1. /\ UNCHANGED <<wallet, landed, late, faults>> /\ NotLanded /\ late = 0 /\ LeftBehind = 0
        /\ fund'.funded = fund.funded /\ fund'.pending = NoIntent
    BY <1>1, <1>3, <1>8 DEF ClearsIntent, citrus, Progress, Posting
  <2>2. AllClear'
    BY <1>1, <2>1 DEF NotLanded, AllClear
  <2>3. Paid(fund.funded, deposit) /\ fund'.funded + fund'.pending.amt = fund.funded
    BY <1>1, <1>4, <2>1, PaidMonotone
  <2> QED
    BY <1>3, <2>1, <2>2, <2>3, BooksIdle
<1>9. CASE Confirms(c)
  <2>1. /\ UNCHANGED <<wallet, landed, late, faults>> /\ HasLanded /\ LeftBehind = 0
        /\ fund'.funded = fund.funded + fund.pending.amt /\ fund'.pending = NoIntent
    BY <1>1, <1>3, <1>5, <1>9 DEF Confirms, citrus, Progress, Posting
  <2>2. AllClear'
    BY <1>1, <2>1 DEF HasLanded, AllClear
  <2>3. fund'.funded + fund'.pending.amt = fund.funded + fund.pending.amt
    BY <1>1, <1>4, <2>1
  <2> QED
    BY <1>3, <1>4, <2>1, <2>2, <2>3, BooksIdle
<1> QED
  BY <1>6, <1>7, <1>8, <1>9

----------------------------------------------------------------------------
(* The theorems *)

LEMMA InvInit ==
  ASSUME Init
  PROVE  Inv
<1>1. TypeOK
  <2>1. fund \in [funded : Cents, pending : Intent] /\ call \in [Calls -> CallRec]
    BY EmptyIntent DEF Init, Cents
  <2>2. esims \in Seq(Stages) /\ Len(esims) = 0
    BY DEF Init
  <2>3. deposit \in Deposits /\ wallet \in Cents /\ landed \in Cents /\ late \in Amounts
    BY Constants DEF Init, Cents, Amounts
  <2>4. bought \in 0..MaxEsims /\ lost \in 0..MaxEsims /\ faults \in 0..MaxFaults /\ trips \in 0..MaxTrips
    BY Constants DEF Init
  <2>5. lock = Nobody /\ ask \in [Asks -> {"off", "queued", "buying", "bought"}] /\ doubt \in BOOLEAN
    BY DEF Init
  <2> QED
    BY <2>1, <2>2, <2>3, <2>4, <2>5, Constants DEF TypeOK, CallRec, Stages
<1>2. \A c \in Calls : call[c].pc = "off"
  BY EmptyIntent DEF Init
<1>3. Sized
  BY <1>2 DEF Sized, Posting
<1>4. Shop
  BY DEF Init, Shop
<1>5. Books
  <2>1. AllClear
    BY Margins DEF Init, AllClear
  <2>2. Paid(fund.funded + fund.pending.amt, deposit) /\ fund.pending = NoIntent
    BY <1>1, RowTyped, PaidMonotone DEF Init, NoIntent
  <2> QED
    BY <1>2, <2>1, <2>2 DEF Books, Progress, Posting
<1> QED
  BY <1>1, <1>3, <1>4, <1>5 DEF Inv

LEMMA InvStep ==
  ASSUME Inv, [Next]_vars
  PROVE  Inv'
<1>1. CASE World
  <2>1. ~doubt' => ~doubt
    BY <1>1, Zenon DEF World, DepositGrows, Spend, LandsLate, NeverLands, DefundStarts, DefundEnds, Terminate
  <2> QED
    BY <1>1, <2>1, WorldTypes, WorldShop, WorldBooks, SizedKept DEF Inv, Next, World
<1>2. ASSUME NEW c \in Calls, EnsureFunded(c)
      PROVE  Inv'
  <2>1. ~doubt' => ~doubt
    BY <1>2, Zenon DEF EnsureFunded, Start, ReadsDeposit, ReadsWallet, Reconciles, DropsIntent, AlreadyFunded,
                       Intends, FundLands, FundRefused, FundFails, ClearsIntent, Confirms, Fails
  <2>2. ~doubt' => Books'
    BY <1>2, <2>1, ReadBooks, ResolveBooks, PostBooks, EndBooks DEF Inv, EnsureFunded
  <2> QED
    BY <1>2, <2>2, CallTypes, WorldShop, SizedKept DEF Inv, Next
<1>3. ASSUME NEW a \in Asks, ProvisionEsim(a)
      PROVE  Inv'
  <2>1. ~doubt' => ~doubt
    BY <1>3, Zenon DEF ProvisionEsim, Ask, Reuses, Buys, Sold, Records, BuyFails
  <2> QED
    BY <1>3, <2>1, AskTypes, AskShop, AskBooks, SizedKept DEF Inv, Next
<1>4. CASE UNCHANGED vars
  <2>1. TypeOK'
    BY <1>4 DEF Inv, vars, TypeOK
  <2>2. Sized' /\ Shop'
    BY <1>4 DEF Inv, vars, Sized, Gap, Shop, Live
  <2>3. ~doubt' => Books'
    BY <1>4 DEF Inv, vars, Books, AllClear, HasLanded, NotLanded, LeftBehind, Progress, Live, Gap
  <2> QED
    BY <2>1, <2>2, <2>3 DEF Inv
<1> QED
  BY <1>1, <1>2, <1>3, <1>4 DEF Next, World

LEMMA FundingInv == Spec => []Inv
BY InvInit, InvStep, PTL DEF Spec

\* The variables keep their types for any calls, provisionings, deposits and faults: no
\* fund is sent or recorded for more than Citrus allows, the eSIMs on disk and those lost
\* are no more than were sold, and whoever holds the mutex of provisionEsim() is buying.
THEOREM FundingTypes == Spec => []TypeOK
<1>1. Inv => TypeOK
  BY DEF Inv
<1> QED
  BY <1>1, FundingInv, PTL

\* I2 for every deposit, price, markup and rounding (FundingService.ts:6-7): while no two
\* calls met and the wallet did not move under an unresolved fund, what Citrus was paid,
\* marked up, is covered by the channel's deposit, through every lost answer and restart.
THEOREM FundingWithinDeposit == Spec => []FundedWithinDeposit
<1>1. Inv => FundedWithinDeposit
  <2> SUFFICES ASSUME Inv, ~doubt
               PROVE  Paid(landed, deposit)
    <3>1. \A x, y, z \in Nat : x * y * z = x * (y * z)
      BY Z3
    <3>2. ASSUME Inv
          PROVE  landed * RawPerCent * Markup = landed * (RawPerCent * Markup)
      BY <3>1, <3>2, RowTyped, PricingAssumption DEF Inv
    <3> QED
      BY <3>2 DEF FundedWithinDeposit, Paid
  <2>1. landed <= fund.funded + fund.pending.amt
    BY RowTyped DEF Inv, Books, AllClear, HasLanded, NotLanded
  <2>2. /\ fund.funded + fund.pending.amt \in Nat /\ landed \in Nat /\ deposit \in Nat
        /\ Paid(fund.funded + fund.pending.amt, deposit)
    BY RowTyped DEF Inv, Books
  <2> QED
    BY <2>1, <2>2, PaidMonotone
<1> QED
  BY <1>1, FundingInv, PTL

\* No crash and no lost answer makes the row forget what landed, and what the row says was
\* funded has landed up to twice the rounding for each interrupted call (FundingService.ts:9-14).
THEOREM FundingOnRecord == Spec => []OnRecord
<1>1. Inv => OnRecord
  <2> SUFFICES ASSUME Inv, ~doubt
               PROVE  Accounted /\ CreditIsReal
    BY DEF OnRecord
  <2>1. Margin(faults) \in Nat /\ LeftBehind \in Nat
    BY RowTyped, Margins DEF LeftBehind, Inv
  <2> QED
    BY <2>1, RowTyped DEF Inv, Books, AllClear, HasLanded, NotLanded, Accounted, CreditIsReal, Margin
<1> QED
  BY <1>1, FundingInv, PTL

\* However many provisionings of a user overlap, fail and are asked again, the user pays
\* for one eSIM and for those whose answer was lost (CitrusProvider.ts:9-12).
THEOREM FundingBoughtOnce == Spec => []BoughtOnce
<1>1. Inv => BoughtOnce
  <2> SUFFICES ASSUME Inv, Live, trips = 0
               PROVE  bought <= 1 + lost
    BY DEF BoughtOnce
  <2>1. Len(esims) = 1 /\ lock = Nobody
    BY DEF Inv, Shop, Live
  <2>2. \A a \in Asks : ask[a] # "bought"
    BY <2>1, Constants DEF Inv, Shop
  <2> QED
    BY <2>1, <2>2 DEF Inv, Shop, TypeOK
<1> QED
  BY <1>1, FundingInv, PTL
=============================================================================
