------------------------------ MODULE ServerProofs ------------------------------
(***************************************************************************)
(* Proofs about Server, for any requests, any totals, prices and faults:   *)
(* its type invariant, the one monitored instance, and what is billed.     *)
(***************************************************************************)
EXTENDS Server, TLAPS

\* A build is under way only where nothing is ready, somebody waits for the channel's, and
\* who was let through has an instance.
Built ==
  /\ \A r \in Requests : req[r] = "granted" => ready[BootOf(r)]
  /\ \A b \in Boots : /\ instance[b] = IF ready[b] THEN 1 ELSE 0
                      /\ flight[b] \in 0..1 /\ (flight[b] > 0 => ~ready[b])
  /\ flight["channel"] > 0 => \E r \in Requests : BootOf(r) = "channel" /\ req[r] = "waiting"

\* A charge under way bills from a total that was paid for, and has paid for its own once
\* it has settled.
Bills ==
  /\ paid >= ExpectedAmount(store)
  /\ \A c \in Charging : paid >= ExpectedAmount(pay[c].prev)
  /\ \A c \in Charging : req[c] = "settled" => paid >= ExpectedAmount(pay[c].bytes)

\* Without doubt a charge has the total to itself.
Alone ==
  ~doubt =>
    /\ \A c, d \in Charging : c = d
    /\ \A c \in Charging : pay[c].prev = store
    /\ (\A c \in Charges : req[c] # "settled") => paid = ExpectedAmount(store)
    /\ \A c \in Charges : req[c] = "settled" => paid = ExpectedAmount(pay[c].bytes)

----------------------------------------------------------------------------
(* The constants *)

LEMMA Parties ==
  /\ "main" \in Requests /\ "main" \notin Charges
  /\ \A c \in Charges : c \in Requests /\ BootOf(c) = "charge"
  /\ \A d \in Deliveries : d \in Requests /\ BootOf(d) = "channel"
  /\ BootOf("main") = "channel"
  /\ \A r \in Requests : BootOf(r) \in Boots
BY ServerAssumption DEF Requests, BootOf, Boots

\* ceilDiv() rounds up: n <= q * d < n + d.
LEMMA CeilDivBetween ==
  ASSUME NEW n \in Nat, NEW d \in Nat \ {0}
  PROVE  /\ CeilDiv(n, d) \in Nat
         /\ n <= CeilDiv(n, d) * d /\ CeilDiv(n, d) * d < n + d
<1>1. CASE n = 0
  BY <1>1 DEF CeilDiv
<1>2. CASE n # 0
  <2> DEFINE m == n + d - 1
             q == m \div d
             r == m % d
  <2>1. m \in Nat /\ m >= d
    BY <1>2
  <2>2. q \in Int /\ r \in 0..(d - 1) /\ m = d * q + r
    <3> HIDE DEF m
    <3> QED
      BY <2>1, SMTT(30)
  <2>3. q >= 0
    BY <2>1, <2>2
  <2>4. CeilDiv(n, d) = q
    BY <1>2 DEF CeilDiv
  <2> HIDE DEF q, r
  <2> QED
    BY <2>2, <2>3, <2>4
<1> QED
  BY <1>1, <1>2

\* What is charged for a total is a natural number, and no less for a higher total.
LEMMA ExpectedAmountGrows ==
  /\ \A b \in Nat : ExpectedAmount(b) \in Nat
  /\ \A a, b \in Nat : a <= b => ExpectedAmount(a) <= ExpectedAmount(b)
<1>1. PricePerMib \in Nat \ {0} /\ BytesPerMib \in Nat \ {0}
  BY PricingAssumption
<1>2. \A b \in Nat : b * PricePerMib \in Nat
  BY <1>1
<1>3. \A b \in Nat : ExpectedAmount(b) \in Nat
  BY <1>1, <1>2, CeilDivBetween DEF ExpectedAmount
<1>4. ASSUME NEW a \in Nat, NEW b \in Nat, a <= b
      PROVE  ExpectedAmount(a) <= ExpectedAmount(b)
  <2> DEFINE x == ExpectedAmount(a)
             y == ExpectedAmount(b)
  <2>1. a * PricePerMib <= b * PricePerMib
    <3>1. (b - a) * PricePerMib >= 0
      BY <1>1, <1>4
    <3> QED
      BY <1>1, <3>1
  <2>2. /\ x \in Nat /\ y \in Nat
        /\ x * BytesPerMib < a * PricePerMib + BytesPerMib
        /\ b * PricePerMib <= y * BytesPerMib
    BY <1>1, <1>2, <1>3, CeilDivBetween DEF ExpectedAmount
  <2>3. a * PricePerMib \in Nat /\ b * PricePerMib \in Nat
    BY <1>2
  <2> HIDE DEF x, y
  <2>4. SUFFICES ASSUME y + 1 <= x PROVE FALSE
    BY <2>2 DEF x, y
  <2>5. (x - (y + 1)) * BytesPerMib >= 0
    BY <1>1, <2>2, <2>4
  <2>6. y * BytesPerMib + BytesPerMib <= x * BytesPerMib
    BY <1>1, <2>2, <2>5
  <2>7. x * BytesPerMib \in Nat /\ y * BytesPerMib \in Nat
    BY <1>1, <2>2
  <2> QED
    BY <1>1, <2>1, <2>2, <2>3, <2>6, <2>7
<1> QED
  BY <1>3, <1>4

LEMMA Prices ==
  /\ Total \in Nat /\ \A b \in 0..MaxBytes : ExpectedAmount(b) \in 0..Total
  /\ ExpectedAmount(0) = 0
<1>1. MaxBytes \in Nat
  BY ServerAssumption
<1>2. \A b \in 0..MaxBytes : b \in Nat /\ b <= MaxBytes
  BY <1>1
<1>3. ExpectedAmount(0) = 0
  BY PricingAssumption DEF ExpectedAmount, CeilDiv
<1> QED
  BY <1>1, <1>2, <1>3, ExpectedAmountGrows DEF Total

----------------------------------------------------------------------------
(* Types *)

\* What a request does at the boot, whichever request it is.
LEMMA Arrival ==
  ASSUME TypeOK, Built, NEW r \in Requests, EnsureReady(r)
  PROVE  /\ req' \in [Requests -> {"off", "waiting", "granted", "port", "settled"}]
         /\ flight' \in [Boots -> 0..1]
         /\ \A s \in Requests : req'[s] = "waiting" => flight'[BootOf(s)] > 0
         /\ \A s \in Requests : s # r => req'[s] = req[s]
         /\ req'[r] \in {"granted", "off", "waiting"}
         /\ req'[r] = "granted" => ready[BootOf(r)]
         /\ \A b \in Boots : flight'[b] > 0 /\ flight[b] = 0 =>
              ~ready[b] /\ b = BootOf(r) /\ req'[r] = "waiting"
<1> DEFINE b == BootOf(r)
<1>1. b \in Boots /\ flight \in [Boots -> 0..1]
  BY Parties DEF TypeOK, Built
<1>2. CASE ready[b]
  <2>1. req' = [req EXCEPT ![r] = "granted"] /\ UNCHANGED flight
    BY <1>2 DEF EnsureReady, Goes
  <2> QED
    BY <1>1, <1>2, <2>1 DEF TypeOK
<1>3. CASE ~ready[b] /\ cool[b]
  <2>1. req' = [req EXCEPT ![r] = "off"] /\ UNCHANGED flight
    BY <1>3 DEF EnsureReady, Goes
  <2> QED
    BY <1>1, <2>1 DEF TypeOK
<1>4. CASE ~ready[b] /\ ~cool[b]
  <2>1. req' = [req EXCEPT ![r] = "waiting"] /\ flight' = [flight EXCEPT ![b] = 1]
    BY <1>1, <1>4 DEF EnsureReady, Attempt, Goes
  <2> HIDE DEF b
  <2>2. flight' \in [Boots -> 0..1] /\ \A a \in Boots : flight[a] > 0 => flight'[a] > 0
    BY <1>1, <2>1
  <2>3. flight'[b] > 0 /\ req'[r] = "waiting"
    BY <1>1, <2>1 DEF TypeOK
  <2>4. \A s \in Requests : req'[s] = "waiting" => flight'[BootOf(s)] > 0
    BY <2>1, <2>2, <2>3, Parties DEF TypeOK, b
  <2> QED
    BY <1>1, <1>4, <2>1, <2>2, <2>3, <2>4 DEF TypeOK, b
<1> QED
  BY <1>2, <1>3, <1>4

LEMMA TypeStep == TypeOK /\ Built /\ [Next]_vars => TypeOK'
<1> SUFFICES ASSUME TypeOK, Built, [Next]_vars PROVE TypeOK'
  OBVIOUS
<1> USE Parties DEF TypeOK
<1>1. ASSUME NEW b \in Boots, BuildReady(b) \/ BuildUnavailable(b) PROVE TypeOK'
  <2>1. req' \in [Requests -> {"off", "waiting", "granted", "port", "settled"}]
    BY <1>1 DEF BuildReady, BuildUnavailable
  <2>2. \A r \in Requests : req'[r] = "waiting" => req[r] = "waiting" /\ BootOf(r) # b
    BY <1>1 DEF BuildReady, BuildUnavailable
  <2>3. instance' \in [Boots -> 0..MaxBuilds]
    BY <1>1, ServerAssumption DEF BuildReady, BuildUnavailable
  <2>4. flight' \in [Boots -> Nat] /\ \A a \in Boots : a # b => flight'[a] = flight[a]
    BY <1>1 DEF BuildReady, BuildUnavailable
  <2>5. \A r \in Requests : req'[r] = "waiting" => flight'[BootOf(r)] > 0
    BY <2>2, <2>4
  <2> QED
    BY <1>1, <2>1, <2>3, <2>4, <2>5 DEF BuildReady, BuildUnavailable, charge
<1>2. ASSUME NEW b \in Boots, IntervalPasses(b) PROVE TypeOK'
  BY <1>2 DEF IntervalPasses, charge
<1>3. ASSUME Restarts PROVE TypeOK'
  <2>1. doubt' \in BOOLEAN
    BY <1>3, Zenon DEF Restarts
  <2>2. pay' \in [Charges -> [bytes : 0..MaxBytes, pays : 0..Total, prev : 0..MaxBytes]]
    BY <1>3, Prices, ServerAssumption DEF Restarts, NoPay
  <2>3. faults' \in 0..MaxFaults /\ store' \in 0..MaxBytes /\ paid' \in Nat
    BY <1>3, ServerAssumption DEF Restarts, Booting, Fault
  <2>4. req' \in [Requests -> {"off", "waiting", "granted", "port", "settled"}]
        /\ \A b \in Boots : flight'[b] = 1
    BY <1>3 DEF Restarts, Booting
  <2>5. /\ ready' \in [Boots -> BOOLEAN] /\ flight' \in [Boots -> Nat]
        /\ cool' \in [Boots -> BOOLEAN] /\ instance' \in [Boots -> 0..MaxBuilds]
        /\ monitors' \subseteq 1..MaxBuilds
    BY <1>3, ServerAssumption DEF Restarts, Booting
  <2> QED
    BY <2>1, <2>2, <2>3, <2>4, <2>5
<1>4. ASSUME NEW d \in Deliveries, DeliveryArrives(d) PROVE TypeOK'
  BY <1>4, Arrival DEF DeliveryArrives, charge
<1>5. ASSUME NEW r \in Requests \ Charges, req[r] = "granted", Goes(r, "off"),
             monitors' = monitors \cup {instance["channel"]}, UNCHANGED <<boots, charge, faults>>
      PROVE  TypeOK'
  <2>1. instance["channel"] = 1 /\ 1 \in 1..MaxBuilds
    BY <1>5, ServerAssumption DEF Built, BootOf, Boots
  <2> QED
    BY <1>5, <2>1 DEF Goes, boots, charge
<1>6. ASSUME NEW c \in Charges, ChargeArrives(c) PROVE TypeOK'
  <2>1. pay' \in [Charges -> [bytes : 0..MaxBytes, pays : 0..Total, prev : 0..MaxBytes]]
    BY <1>6, Prices, ServerAssumption DEF ChargeArrives, NoPay
  <2> QED
    BY <1>6, <2>1, Arrival DEF ChargeArrives
<1>7. ASSUME NEW c \in Charges, Charge(c) \/ ReceiptUnread(c) \/ ChargeFails(c) PROVE TypeOK'
  <2>1. req' \in [Requests -> {"off", "waiting", "granted", "port", "settled"}]
        /\ \A r \in Requests : req'[r] = "waiting" => req[r] = "waiting"
    BY <1>7 DEF Charge, ChargeStale, ChargeReads, ChargeChallenged, ChargeForNothing,
       ChargeSettles, ChargeRecorded, ReceiptUnread, ChargeFails, Goes
  <2>2. Due(c) \in Int /\ Due(c) <= Total
    BY Prices DEF Due, ChargeDelta
  <2>3. NoPay \in [bytes : 0..MaxBytes, pays : 0..Total, prev : 0..MaxBytes]
    BY Prices, ServerAssumption DEF NoPay
  <2>4. pay' \in [Charges -> [bytes : 0..MaxBytes, pays : 0..Total, prev : 0..MaxBytes]]
    BY <1>7, <2>2, <2>3, Prices DEF Charge, ChargeStale, ChargeReads, ChargeChallenged,
       ChargeForNothing, ChargeSettles, ChargeRecorded, ReceiptUnread, ChargeFails, Forgets
  <2>5. store' \in 0..MaxBytes /\ paid' \in Nat
    BY <1>7, <2>2 DEF Charge, ChargeStale, ChargeReads, ChargeChallenged, ChargeForNothing,
       ChargeSettles, ChargeRecorded, ReceiptUnread, ChargeFails
  <2>7. faults' \in 0..MaxFaults
    BY <1>7, ServerAssumption DEF Charge, ChargeStale, ChargeReads, ChargeChallenged,
       ChargeForNothing, ChargeSettles, ChargeRecorded, ReceiptUnread, ChargeFails, Fault
  <2>8. doubt' \in BOOLEAN
    BY <1>7, Zenon DEF Charge, ChargeStale, ChargeReads, ChargeChallenged, ChargeForNothing,
       ChargeSettles, ChargeRecorded, ReceiptUnread, ChargeFails
  <2>6. UNCHANGED <<boots, monitors>>
    BY <1>7 DEF Charge, ChargeStale, ChargeReads, ChargeChallenged, ChargeForNothing,
       ChargeSettles, ChargeRecorded, ReceiptUnread, ChargeFails
  <2> QED
    BY <2>1, <2>4, <2>5, <2>6, <2>7, <2>8 DEF boots
<1>8. CASE UNCHANGED vars
  BY <1>8 DEF vars
<1> QED
  BY <1>1, <1>2, <1>3, <1>4, <1>5, <1>6, <1>7, <1>8
  DEF Next, Build, MainGoesOn, DeliveryServed

----------------------------------------------------------------------------
(* The boot *)

LEMMA BuiltStep == TypeOK /\ Built /\ [Next]_vars => Built'
<1> SUFFICES ASSUME TypeOK, Built, [Next]_vars PROVE Built'
  OBVIOUS
<1> USE Parties DEF TypeOK, Built
<1>0. \A b \in Boots : flight[b] > 0 => flight[b] - 1 = 0
  OBVIOUS
<1>1. ASSUME NEW b \in Boots, BuildReady(b) PROVE Built'
  <2>1. ready' = [ready EXCEPT ![b] = TRUE] /\ instance' = [instance EXCEPT ![b] = @ + 1]
        /\ flight' = [flight EXCEPT ![b] = 0] /\ ~ready[b]
    BY <1>0, <1>1 DEF BuildReady
  <2>2. \A r \in Requests : req'[r] = "granted" => req[r] = "granted" \/ BootOf(r) = b
    BY <1>1 DEF BuildReady
  <2>3. \A r \in Requests : req[r] = "waiting" /\ BootOf(r) # b => req'[r] = "waiting"
    BY <1>1 DEF BuildReady
  <2> QED
    BY <2>1, <2>2, <2>3
<1>2. ASSUME NEW b \in Boots, BuildUnavailable(b) PROVE Built'
  <2>1. ready' = [ready EXCEPT ![b] = FALSE] /\ UNCHANGED instance
        /\ flight' = [flight EXCEPT ![b] = 0] /\ ~ready[b]
    BY <1>0, <1>2 DEF BuildUnavailable
  <2>2. \A r \in Requests : req'[r] = "granted" => req[r] = "granted" /\ BootOf(r) # b
    BY <1>2, <2>1 DEF BuildUnavailable
  <2>3. \A r \in Requests : req[r] = "waiting" /\ BootOf(r) # b => req'[r] = "waiting"
    BY <1>2 DEF BuildUnavailable
  <2> QED
    BY <2>1, <2>2, <2>3
<1>3. ASSUME NEW b \in Boots, IntervalPasses(b) PROVE Built'
  BY <1>3 DEF IntervalPasses
<1>4. ASSUME Restarts PROVE Built'
  BY <1>4 DEF Restarts, Booting
<1>5. ASSUME NEW r \in Requests, req[r] = "off", EnsureReady(r), UNCHANGED <<ready, instance>>
      PROVE  Built'
  <2>1. \A s \in Requests : req'[s] = "granted" => ready[BootOf(s)]
    BY <1>5, Arrival
  <2>2. \A b \in Boots : flight'[b] \in 0..1 /\ (flight'[b] > 0 => ~ready[b])
    BY <1>5, Arrival
  <2>3. flight'["channel"] > 0 => \E s \in Requests : BootOf(s) = "channel" /\ req'[s] = "waiting"
    <3>1. CASE flight["channel"] > 0
      BY <1>5, <3>1, Arrival
    <3>2. CASE flight["channel"] = 0
      BY <1>5, <3>2, Arrival DEF Boots
    <3> QED
      BY <3>1, <3>2
  <2> QED
    BY <1>5, <2>1, <2>2, <2>3
<1>6. ASSUME NEW r \in Requests, NEW pc \in {"off", "port", "settled"}, req[r] # "waiting",
             Goes(r, pc), UNCHANGED boots
      PROVE  Built'
  BY <1>6 DEF Goes, boots
<1>7. ASSUME NEW c \in Charges, Charge(c) \/ ReceiptUnread(c) \/ ChargeFails(c) PROVE Built'
  <2>1. PICK pc \in {"off", "port", "settled"} : Goes(c, pc)
    BY <1>7 DEF Charge, ChargeStale, ChargeReads, ChargeChallenged, ChargeForNothing,
       ChargeSettles, ChargeRecorded, ReceiptUnread, ChargeFails
  <2>2. req[c] # "waiting" /\ UNCHANGED boots
    BY <1>7 DEF Charge, ChargeStale, ChargeReads, ChargeChallenged, ChargeForNothing,
       ChargeSettles, ChargeRecorded, ReceiptUnread, ChargeFails
  <2> QED
    BY <1>6, <2>1, <2>2
<1>8. ASSUME MainGoesOn PROVE Built'
  BY <1>6, <1>8 DEF MainGoesOn
<1>9. ASSUME NEW d \in Deliveries, DeliveryServed(d) PROVE Built'
  BY <1>6, <1>9 DEF DeliveryServed
<1>10. ASSUME NEW d \in Deliveries, DeliveryArrives(d) PROVE Built'
  BY <1>5, <1>10 DEF DeliveryArrives
<1>11. ASSUME NEW c \in Charges, ChargeArrives(c) PROVE Built'
  BY <1>5, <1>11 DEF ChargeArrives
<1>12. CASE UNCHANGED vars
  BY <1>12 DEF vars
<1> QED
  BY <1>1, <1>2, <1>3, <1>4, <1>7, <1>8, <1>9, <1>10, <1>11, <1>12 DEF Next, Build

LEMMA MonitoredStep == TypeOK /\ Built /\ ReadyIsMonitored /\ [Next]_vars => ReadyIsMonitored'
<1> SUFFICES ASSUME TypeOK, Built, ReadyIsMonitored, [Next]_vars PROVE ReadyIsMonitored'
  OBVIOUS
<1> USE Parties DEF TypeOK, ReadyIsMonitored, Waiters
<1>1. ASSUME NEW b \in Boots, BuildReady(b) PROVE ReadyIsMonitored'
  <2>1. CASE b = "channel"
    <3>1. PICK r \in Requests : BootOf(r) = "channel" /\ req[r] = "waiting"
      BY <1>1, <2>1 DEF Built, BuildReady
    <3>2. req'[r] = "granted"
      BY <1>1, <2>1, <3>1 DEF BuildReady
    <3> QED
      BY <3>1, <3>2
  <2>2. CASE b # "channel"
    <3>1. ready'["channel"] = ready["channel"] /\ instance'["channel"] = instance["channel"]
          /\ monitors' = monitors
      BY <1>1, <2>2 DEF BuildReady
    <3>2. \A r \in Requests : BootOf(r) = "channel" => req'[r] = req[r]
      BY <1>1, <2>2 DEF BuildReady
    <3> QED
      BY <3>1, <3>2
  <2> QED
    BY <2>1, <2>2
<1>2. ASSUME NEW b \in Boots, BuildUnavailable(b) PROVE ReadyIsMonitored'
  <2>1. ready'["channel"] => ready["channel"] /\ b # "channel"
    BY <1>2 DEF BuildUnavailable
  <2>2. b # "channel" => \A r \in Requests : BootOf(r) = "channel" => req'[r] = req[r]
    BY <1>2 DEF BuildUnavailable
  <2>3. instance' = instance /\ monitors' = monitors
    BY <1>2 DEF BuildUnavailable
  <2> QED
    BY <2>1, <2>2, <2>3
<1>3. ASSUME NEW b \in Boots, IntervalPasses(b) PROVE ReadyIsMonitored'
  BY <1>3 DEF IntervalPasses
<1>4. ASSUME Restarts PROVE ReadyIsMonitored'
  BY <1>4 DEF Restarts, Booting, Boots
<1>5. ASSUME NEW r \in Requests, req[r] = "off", EnsureReady(r),
             UNCHANGED <<ready, instance, monitors>>
      PROVE  ReadyIsMonitored'
  BY <1>5, Arrival
<1>6. ASSUME NEW r \in Requests, Goes(r, "off"), UNCHANGED boots,
             monitors' = monitors \cup {instance["channel"]}
      PROVE  ReadyIsMonitored'
  BY <1>6 DEF boots
<1>7. ASSUME NEW c \in Charges, Charge(c) \/ ReceiptUnread(c) \/ ChargeFails(c)
      PROVE  ReadyIsMonitored'
  <2>1. \A r \in Requests : BootOf(r) = "channel" => req'[r] = req[r]
    BY <1>7 DEF Charge, ChargeStale, ChargeReads, ChargeChallenged, ChargeForNothing,
       ChargeSettles, ChargeRecorded, ReceiptUnread, ChargeFails, Goes
  <2>2. UNCHANGED <<boots, monitors>>
    BY <1>7 DEF Charge, ChargeStale, ChargeReads, ChargeChallenged, ChargeForNothing,
       ChargeSettles, ChargeRecorded, ReceiptUnread, ChargeFails
  <2> QED
    BY <2>1, <2>2 DEF boots
<1>8. ASSUME MainGoesOn PROVE ReadyIsMonitored'
  BY <1>6, <1>8 DEF MainGoesOn
<1>9. ASSUME NEW d \in Deliveries, DeliveryServed(d) PROVE ReadyIsMonitored'
  BY <1>6, <1>9 DEF DeliveryServed
<1>10. ASSUME NEW d \in Deliveries, DeliveryArrives(d) PROVE ReadyIsMonitored'
  BY <1>5, <1>10 DEF DeliveryArrives
<1>11. ASSUME NEW c \in Charges, ChargeArrives(c) PROVE ReadyIsMonitored'
  BY <1>5, <1>11 DEF ChargeArrives
<1>12. CASE UNCHANGED vars
  BY <1>12 DEF vars
<1> QED
  BY <1>1, <1>2, <1>3, <1>4, <1>7, <1>8, <1>9, <1>10, <1>11, <1>12 DEF Next, Build

----------------------------------------------------------------------------
(* Stage 1's bills *)

\* A step that leaves alone the charges under way, the total and what was paid.
LEMMA Quiet ==
  ASSUME Bills, Alone, UNCHANGED <<store, paid, doubt>>,
         \A c \in Charges : req[c] \in {"port", "settled"} \/ req'[c] \in {"port", "settled"}
                              => req'[c] = req[c] /\ pay'[c] = pay[c]
  PROVE  Bills' /\ Alone'
<1>1. Charging' = Charging
  BY DEF Charging
<1>2. \A c \in Charging : pay'[c] = pay[c]
  BY DEF Charging
<1>3. \A c \in Charges : req'[c] = "settled" <=> req[c] = "settled"
  OBVIOUS
<1>4. \A c \in Charges : req[c] = "settled" => c \in Charging
  BY DEF Charging
<1>5. Bills'
  <2>1. paid' >= ExpectedAmount(store')
    BY DEF Bills
  <2>2. \A c \in Charging' : paid' >= ExpectedAmount(pay'[c].prev)
    BY <1>1, <1>2 DEF Bills
  <2>3. \A c \in Charging' : req'[c] = "settled" => paid' >= ExpectedAmount(pay'[c].bytes)
    BY <1>1, <1>2, <1>3 DEF Bills, Charging
  <2> QED
    BY <2>1, <2>2, <2>3 DEF Bills
<1>6. \A c \in Charges : req[c] = "settled" => pay'[c] = pay[c]
  BY <1>2, <1>4
<1>7. ASSUME ~doubt' PROVE ~doubt /\ paid' = paid /\ store' = store
  BY <1>7
<1>8. Alone'
  <2> SUFFICES ASSUME ~doubt'
               PROVE  /\ \A c, d \in Charging' : c = d
                      /\ \A c \in Charging' : pay'[c].prev = store'
                      /\ (\A c \in Charges : req'[c] # "settled") => paid' = ExpectedAmount(store')
                      /\ \A c \in Charges : req'[c] = "settled" => paid' = ExpectedAmount(pay'[c].bytes)
    BY DEF Alone
  <2>1. ~doubt
    BY <1>7
  <2>2. \A c, d \in Charging' : c = d
    BY <1>1, <2>1 DEF Alone
  <2>3. \A c \in Charging' : pay'[c].prev = store'
    BY <1>1, <1>2, <1>7, <2>1 DEF Alone
  <2>4. (\A c \in Charges : req'[c] # "settled") => paid' = ExpectedAmount(store')
    BY <1>3, <1>7, <2>1 DEF Alone
  <2>5. \A c \in Charges : req'[c] = "settled" => paid' = ExpectedAmount(pay'[c].bytes)
    BY <1>3, <1>6, <1>7, <2>1 DEF Alone
  <2> QED
    BY <2>2, <2>3, <2>4, <2>5
<1> QED
  BY <1>5, <1>8

LEMMA BillsStep == TypeOK /\ Built /\ Bills /\ Alone /\ [Next]_vars => Bills' /\ Alone'
<1> SUFFICES ASSUME TypeOK, Built, Bills, Alone, [Next]_vars PROVE Bills' /\ Alone'
  OBVIOUS
<1> USE Parties DEF TypeOK
<1>a. /\ \A c \in Charges : pay[c].bytes \in 0..MaxBytes /\ pay[c].prev \in 0..MaxBytes
      /\ store \in 0..MaxBytes /\ paid \in Nat
  OBVIOUS
<1>b. \A x \in 0..MaxBytes : ExpectedAmount(x) \in Nat
  BY Prices
<1>1. ASSUME NEW b \in Boots, Build(b) PROVE Bills' /\ Alone'
  <2>1. \A c \in Charges : req[c] \in {"port", "settled"} \/ req'[c] \in {"port", "settled"}
                              => req'[c] = req[c]
    BY <1>1 DEF Build, BuildReady, BuildUnavailable
  <2> QED
    BY <1>1, <2>1, Quiet DEF Build, BuildReady, BuildUnavailable, charge
<1>2. ASSUME NEW b \in Boots, IntervalPasses(b) PROVE Bills' /\ Alone'
  BY <1>2, Quiet DEF IntervalPasses, charge
<1>3. ASSUME Restarts PROVE Bills' /\ Alone'
  <2>1. Charging' = {}
    BY <1>3 DEF Restarts, Booting, Charging
  <2>2. store' = 0 /\ paid' = paid
    BY <1>3 DEF Restarts, Booting
  <2>3. \A c \in Charges : req'[c] # "settled"
    BY <1>3 DEF Restarts, Booting
  <2>4. ~doubt' => ~doubt /\ ~(store > 0) /\ \A c \in Charges : req[c] # "settled"
    BY <1>3 DEF Restarts
  <2>5. Bills'
    BY <1>a, <2>1, <2>2, <2>3, Prices DEF Bills
  <2>6. ~doubt' => paid' = ExpectedAmount(0)
    BY <1>a, <2>2, <2>4 DEF Alone
  <2> QED
    BY <2>1, <2>2, <2>3, <2>5, <2>6 DEF Alone
<1>4. ASSUME NEW r \in Requests \ Charges, \A s \in Requests : s # r => req'[s] = req[s],
             UNCHANGED charge
      PROVE  Bills' /\ Alone'
  BY <1>4, Quiet DEF charge
<1>5. ASSUME NEW c \in Charges, ChargeArrives(c) PROVE Bills' /\ Alone'
  <2>1. req[c] = "off" /\ req'[c] \in {"granted", "off", "waiting"}
    BY <1>5, Arrival DEF ChargeArrives
  <2>2. \A s \in Charges : s # c => req'[s] = req[s]
    BY <1>5, Arrival DEF ChargeArrives
  <2>3. \A s \in Charges : s # c => pay'[s] = pay[s]
    BY <1>5 DEF ChargeArrives
  <2> QED
    BY <1>5, <2>1, <2>2, <2>3, Quiet DEF ChargeArrives
<1>6. ASSUME NEW c \in Charges, ChargeStale(c) PROVE Bills' /\ Alone'
  BY <1>6, Quiet DEF ChargeStale, Goes, Forgets
<1>7. ASSUME NEW c \in Charges, ChargeReads(c) PROVE Bills' /\ Alone'
  <2>1. /\ req' = [req EXCEPT ![c] = "port"] /\ req[c] = "granted"
        /\ pay' = [pay EXCEPT ![c].prev = store]
        /\ UNCHANGED <<store, paid>> /\ (~doubt' => ~doubt /\ Charging = {})
    BY <1>7 DEF ChargeReads, Goes
  <2>2. Charging' = Charging \cup {c} /\ c \notin Charging
    BY <2>1 DEF Charging
  <2>3. /\ pay'[c].prev = store
        /\ \A d \in Charges : d # c => pay'[d] = pay[d] /\ req'[d] = req[d]
    BY <2>1
  <2>4. Bills'
    BY <2>1, <2>2, <2>3 DEF Bills
  <2>5. ASSUME ~doubt' PROVE /\ Charging' = {c} /\ paid' = ExpectedAmount(store')
                             /\ \A d \in Charges : req'[d] # "settled"
    <3>1. ~doubt /\ Charging = {}
      BY <2>1, <2>5
    <3>2. \A d \in Charges : req[d] # "settled"
      BY <3>1 DEF Charging
    <3> QED
      BY <2>1, <2>2, <3>1, <3>2 DEF Alone
  <2> QED
    BY <2>1, <2>3, <2>4, <2>5 DEF Alone
<1>8. ASSUME NEW c \in Charges, req[c] = "port", req' = [req EXCEPT ![c] = "off"],
             \A d \in Charges : d # c => pay'[d] = pay[d], UNCHANGED <<store, paid, doubt>>
      PROVE  Bills' /\ Alone'
  <2>1. Charging' = Charging \ {c} /\ c \in Charging
    BY <1>8 DEF Charging
  <2>2. \A d \in Charges : d # c => pay'[d] = pay[d] /\ req'[d] = req[d]
    BY <1>8
  <2>3. Bills'
    BY <1>8, <2>1, <2>2 DEF Bills, Charging
  <2>4. ASSUME ~doubt' PROVE /\ Charging' = {} /\ paid' = ExpectedAmount(store')
                             /\ \A d \in Charges : req'[d] # "settled"
    <3>1. Charging = {c}
      BY <1>8, <2>1, <2>4 DEF Alone
    <3>2. \A d \in Charges : req[d] # "settled"
      BY <1>8, <3>1 DEF Charging
    <3> QED
      BY <1>8, <2>1, <2>4, <3>1, <3>2 DEF Alone
  <2> QED
    BY <2>3, <2>4 DEF Alone
<1>9. ASSUME NEW c \in Charges, ChargeSettles(c) PROVE Bills' /\ Alone'
  <2>1. /\ req[c] = "port" /\ req' = [req EXCEPT ![c] = "settled"] /\ UNCHANGED <<pay, store, doubt>>
        /\ Due(c) > 0 /\ paid' = paid + Due(c)
    BY <1>9 DEF ChargeSettles, Goes
  <2>2. Charging' = Charging /\ c \in Charging
    BY <2>1 DEF Charging
  <2>3. ExpectedAmount(pay[c].bytes) \in Nat /\ ExpectedAmount(pay[c].prev) \in Nat
    BY <1>a, <1>b
  <2>4. Due(c) = ExpectedAmount(pay[c].bytes) - ExpectedAmount(pay[c].prev)
    BY DEF Due, ChargeDelta
  <2>5. paid' >= paid /\ paid' >= ExpectedAmount(pay[c].bytes)
    BY <1>a, <2>1, <2>2, <2>3, <2>4 DEF Bills
  <2>6. Bills'
    <3>1. \A x \in 0..MaxBytes : paid >= ExpectedAmount(x) => paid' >= ExpectedAmount(x)
      BY <1>a, <1>b, <2>1, <2>3, <2>4, <2>5
    <3>2. \A d \in Charging' : req'[d] = "settled" => d = c \/ req[d] = "settled"
      BY <2>1
    <3> QED
      BY <1>a, <2>1, <2>2, <2>5, <3>1, <3>2 DEF Bills, Charging
  <2>7. ASSUME ~doubt' PROVE Charging = {c} /\ paid' = ExpectedAmount(pay[c].bytes)
    <3>1. Charging = {c} /\ pay[c].prev = store
      BY <2>1, <2>2, <2>7 DEF Alone
    <3>2. \A d \in Charges : req[d] # "settled"
      BY <2>1, <3>1 DEF Charging
    <3>3. paid = ExpectedAmount(store)
      BY <2>1, <2>7, <3>2 DEF Alone
    <3> QED
      BY <2>1, <2>3, <2>4, <3>1, <3>3
  <2>8. ~doubt' => \A d \in Charges : req'[d] = "settled" <=> d = c
    BY <2>1, <2>7 DEF Charging
  <2>9. ~doubt' => pay[c].prev = store
    BY <2>1, <2>2 DEF Alone
  <2> QED
    BY <2>1, <2>2, <2>6, <2>7, <2>8, <2>9 DEF Alone
<1>10. ASSUME NEW c \in Charges, ChargeRecorded(c) PROVE Bills' /\ Alone'
  <2>1. /\ req[c] = "settled" /\ req' = [req EXCEPT ![c] = "off"] /\ store' = pay[c].bytes
        /\ UNCHANGED <<paid, doubt>> /\ \A d \in Charges : d # c => pay'[d] = pay[d]
    BY <1>10 DEF ChargeRecorded, Goes, Forgets
  <2>2. Charging' = Charging \ {c} /\ c \in Charging
    BY <2>1 DEF Charging
  <2>3. Bills'
    BY <2>1, <2>2 DEF Bills, Charging
  <2>4. ASSUME ~doubt' PROVE /\ Charging' = {} /\ paid' = ExpectedAmount(store')
                             /\ \A d \in Charges : req'[d] # "settled"
    BY <2>1, <2>2, <2>4 DEF Alone, Charging
  <2> QED
    BY <2>3, <2>4 DEF Alone
<1>11. ASSUME NEW c \in Charges, ReceiptUnread(c) PROVE Bills' /\ Alone'
  <2>1. /\ req' = [req EXCEPT ![c] = "off"] /\ doubt'
        /\ UNCHANGED <<store, paid>> /\ \A d \in Charges : d # c => pay'[d] = pay[d]
    BY <1>11 DEF ReceiptUnread, Goes, Forgets
  <2>2. Charging' = Charging \ {c}
    BY <2>1 DEF Charging
  <2> QED
    BY <2>1, <2>2 DEF Bills, Alone, Charging
<1>12. ASSUME NEW c \in Charges, ChargeChallenged(c) \/ ChargeForNothing(c) \/ ChargeFails(c)
       PROVE  Bills' /\ Alone'
  BY <1>8, <1>12 DEF ChargeChallenged, ChargeForNothing, ChargeFails, Goes, Forgets
<1>13. ASSUME MainGoesOn PROVE Bills' /\ Alone'
  BY <1>4, <1>13 DEF MainGoesOn, Goes
<1>14. ASSUME NEW d \in Deliveries, DeliveryArrives(d) \/ DeliveryServed(d) PROVE Bills' /\ Alone'
  <2>1. \A s \in Requests : s # d => req'[s] = req[s]
    BY <1>14, Arrival DEF DeliveryArrives, DeliveryServed, Goes
  <2>2. d \notin Charges
    BY ServerAssumption
  <2> QED
    BY <1>4, <1>14, <2>1, <2>2 DEF DeliveryArrives, DeliveryServed
<1>15. CASE UNCHANGED vars
  BY <1>15, Quiet DEF vars
<1> QED
  BY <1>1, <1>2, <1>3, <1>5, <1>6, <1>7, <1>9, <1>10, <1>11, <1>12, <1>13, <1>14, <1>15
  DEF Next, Charge

----------------------------------------------------------------------------
(* Theorems *)

IInv == TypeOK /\ Built /\ ReadyIsMonitored /\ Bills /\ Alone

LEMMA InitIInv == Init => IInv
<1> SUFFICES ASSUME Init PROVE IInv
  OBVIOUS
<1>1. TypeOK
  <2>1. pay \in [Charges -> [bytes : 0..MaxBytes, pays : 0..Total, prev : 0..MaxBytes]]
    BY Prices, ServerAssumption DEF Init, NoPay
  <2>2. store \in 0..MaxBytes /\ paid \in Nat /\ faults \in 0..MaxFaults
    BY ServerAssumption DEF Init
  <2>5. doubt \in BOOLEAN
    BY Zenon DEF Init
  <2>3. /\ req \in [Requests -> {"off", "waiting", "granted", "port", "settled"}]
        /\ \A b \in Boots : flight[b] = 1
    BY DEF Init
  <2>4. /\ ready \in [Boots -> BOOLEAN] /\ flight \in [Boots -> Nat]
        /\ cool \in [Boots -> BOOLEAN] /\ instance \in [Boots -> 0..MaxBuilds]
        /\ monitors \subseteq 1..MaxBuilds
    BY ServerAssumption DEF Init
  <2> QED
    BY <2>1, <2>2, <2>3, <2>4, <2>5, Parties DEF TypeOK
<1>2. Built /\ ReadyIsMonitored
  BY Parties DEF Init, Built, ReadyIsMonitored, Boots
<1>3. Charging = {} /\ \A c \in Charges : req[c] # "settled"
  BY Parties DEF Init, Charging
<1>4. store = 0 /\ paid = 0
  BY DEF Init
<1>5. Bills
  BY <1>3, <1>4, Prices DEF Bills
<1>6. Alone
  BY <1>3, <1>4, Prices DEF Alone
<1> QED
  BY <1>1, <1>2, <1>5, <1>6 DEF IInv

LEMMA Inductive == Spec => []IInv
<1>1. IInv /\ [Next]_vars => IInv'
  BY TypeStep, BuiltStep, MonitoredStep, BillsStep DEF IInv
<1> QED
  BY <1>1, InitIInv, PTL DEF Spec

\* The variables keep their types, and a request waits only while a build is under way.
THEOREM ServerTypes == Spec => []TypeOK
<1>1. IInv => TypeOK
  BY DEF IInv
<1> QED
  BY <1>1, Inductive, PTL

\* However many requests arm the boots and however the builds end, a process has one
\* instance of each and its channel instance is monitored.
THEOREM ServerOneMonitored == Spec => []OneMonitored
<1>1. IInv => OneMonitored
  BY DEF IInv, Built, OneMonitored, OneInstance
<1> QED
  BY <1>1, Inductive, PTL

\* For any prices, totals and overlap of requests, what is counted as billed was paid.
THEOREM ServerBilledIsPaid == Spec => []BilledIsPaid
<1>1. IInv => BilledIsPaid
  BY DEF IInv, Bills, BilledIsPaid
<1> QED
  BY <1>1, Inductive, PTL

\* A session without overlap, unread receipt or restart has paid for its total exactly.
THEOREM ServerPaidOnce == Spec => []PaidOnce
<1>1. ASSUME IInv PROVE PaidOnce
  <2>1. CASE \E c \in Charges : req[c] = "settled"
    <3> DEFINE c == CHOOSE c \in Charges : req[c] = "settled"
    <3>1. c \in Charges /\ req[c] = "settled"
      BY <2>1
    <3>2. Billed = pay[c].bytes
      BY <2>1 DEF Billed
    <3> HIDE DEF c
    <3> QED
      BY <1>1, <3>1, <3>2 DEF IInv, Alone, PaidOnce
  <2>2. CASE ~\E c \in Charges : req[c] = "settled"
    BY <1>1, <2>2 DEF IInv, Alone, PaidOnce, Billed
  <2> QED
    BY <2>1, <2>2
<1> QED
  BY <1>1, Inductive, PTL
=============================================================================
