------------------------------ MODULE MissionProofs -----------------------------
(***************************************************************************)
(* Proofs about Mission, for any missions, handlers, budgets, quota and    *)
(* bursts: its type invariant, what is paid for, what the meter credits,   *)
(* and what a client was answered.                                         *)
(***************************************************************************)
EXTENDS Mission, TLAPS

Valid(m, v) == \E n \in Missions : <<m, "mission", n>> \in v

\* A record says no more than what was bought, used and validated.
Real(m, c, s, v, u) ==
  /\ c.sim => s[UserOf[m]].bought
  /\ c.bytes <= u[m]
  /\ c = Absent \/ c.budget = Budget + IF c.top = "settled" THEN Top ELSE 0
  /\ c.pay = "paid" \/ c.sim => Valid(m, v)
  /\ c.top = "settled" => <<m, "topup", m>> \in v

\* A handler's request: every record in its hands, and what its next step relies on.
Fine(q, s, v, u, hi) ==
  /\ \A m \in Missions : Real(m, q.file[m], s, v, u)
  /\ q.m \in Missions => Real(q.m, q.copy, s, v, u)
  /\ q.pc # "off" => q.m \in Missions /\ MaxOps # 0
  /\ q.pc \notin {"off", "find"} => q.copy.budget = Budget + IF q.copy.top = "settled" THEN Top ELSE 0
  /\ q.pc = "call" => ~Refuses(q.op, q.copy)
  /\ q.pc = "fund" => /\ q.op = "confirm_topup" /\ q.copy.top = "pending"
                      /\ <<q.m, "topup", q.m>> \in v
  /\ q.pc \in {"find", "call", "voucher"} => ~q.signed
  /\ q.op = "confirm_topup" /\ q.pc \in {"save", "write"} => q.copy.top = "settled"
  /\ q.pc \in {"voucher", "policy"} =>
       /\ q.op = "traffic" /\ q.read <= u[q.m] /\ q.copy.bytes + q.bytes <= u[q.m]
       /\ q.signed => q.read <= hi[q.m]

DiskReal == \A m \in Missions : Real(m, disk[m], sim, valid, used)
AllFine == \A h \in Handlers : Fine(req[h], sim, valid, used, high)
\* Data is on only where an eSIM was bought, and bought only where a mission was paid.
SimsAre(s, v) ==
  \A u \in Users : /\ s[u].bought => \E m \in Missions : UserOf[m] = u /\ Valid(m, v)
                   /\ s[u].on => s[u].bought /\ ~s[u].refund
SimsPaid == SimsAre(sim, valid)
\* What pays for an amount: the mission's budget, or the deposit that missions share.
Pays(m, v) == Budget + IF <<m, "topup", m>> \in v THEN Top ELSE 0
Covers(m, x, ag, dep, v, u) ==
  IF ag THEN x <= dep /\ \E n \in Missions : x <= u[n]
  ELSE x <= Pays(m, v) /\ x <= u[m]
\* What a meter credits is signed, and what is signed was used and paid for.
Meters ==
  \A m \in Missions :
    /\ meter[m].paid <= high[m] /\ meter[m].paid <= used[m]
    /\ Covers(m, high[m], agent, deposit, valid, used)
    /\ meter[m].sum <= used[m] /\ meter[m].deposit <= Pays(m, valid)
    /\ meter[m].on => meter[m].sum <= meter[m].paid + Quota
\* The missions that share a channel share what was signed on it.
OneChannel == agent => \A m, n \in Missions : high[m] = high[n]
Funds == \A m \in Missions : funded[m] > 0 => <<m, "topup", m>> \in valid

Safe == TypeOK /\ DiskReal /\ AllFine /\ SimsPaid /\ Meters /\ OneChannel /\ Funds

----------------------------------------------------------------------------
(* Constants and records *)

LEMMA Sizes ==
  /\ Budget \in Nat /\ Top \in Nat /\ Quota \in Nat /\ MaxOps \in Nat /\ MaxBytes \in Nat
  /\ MaxFaults \in [BOOLEAN -> Nat] /\ OneMb \in Nat /\ Bursts \subseteq Nat
  /\ NoMission \notin Missions /\ ChannelDeposit \in Nat /\ UserOf \in [Missions -> Users]
  /\ Budget + MaxOps * Top \in Nat /\ Budget <= Budget + MaxOps * Top
  /\ MaxOps # 0 => Budget + Top <= Budget + MaxOps * Top
<1>1. /\ Budget \in Nat /\ Top \in Nat /\ Quota \in Nat /\ MaxOps \in Nat /\ MaxBytes \in Nat
      /\ MaxFaults \in [BOOLEAN -> Nat] /\ OneMb \in Nat /\ Bursts \subseteq Nat
      /\ NoMission \notin Missions /\ ChannelDeposit \in Nat /\ UserOf \in [Missions -> Users]
  BY MissionAssumption
<1>2. MaxOps * Top \in Nat
  BY <1>1
<1>3. ASSUME MaxOps # 0 PROVE Top <= MaxOps * Top
  <2>1. MaxOps - 1 \in Nat
    BY <1>1, <1>3
  <2>2. (MaxOps - 1) * Top \in Nat
    BY <1>1, <2>1
  <2>3. MaxOps * Top = (MaxOps - 1) * Top + Top
    BY <1>1
  <2> QED
    BY <1>1, <2>2, <2>3
<1> QED
  BY <1>1, <1>2, <1>3

LEMMA Fresh ==
  /\ Absent \in Records /\ Created \in Records /\ Empty \in [Missions -> Records]
  /\ Idle \in Requests /\ NewMeter \in Counters
<1>1. Absent \in Records
  BY Sizes DEF Absent, Records
<1>3. Created \in Records
  <2>1. Budget \in 0..(Budget + MaxOps * Top) /\ 0 \in 0..MaxBytes
    BY Sizes
  <2> QED
    BY <1>1, <2>1 DEF Created, Records
<1>4. Empty \in [Missions -> Records]
  BY <1>1 DEF Empty
<1>5. Idle \in Requests
  BY <1>1, <1>4, Sizes DEF Idle, Requests
<1>6. NewMeter \in Counters
  BY Sizes DEF NewMeter, Counters
<1> QED
  BY <1>1, <1>3, <1>4, <1>5, <1>6

LEMMA IdleIsFine ==
  ASSUME NEW s, NEW v, NEW hi, NEW u \in [Missions -> 0..MaxBytes]
  PROVE  /\ Fine(Idle, s, v, u, hi)
         /\ \A m \in Missions : Real(m, Absent, s, v, u)
<1>1. \A m \in Missions : Real(m, Absent, s, v, u)
  BY Sizes DEF Real, Absent
<1>2. Idle.file = Empty /\ Idle.m = NoMission /\ Idle.pc = "off"
  BY DEF Idle
<1>3. \A m \in Missions : Idle.file[m] = Absent
  BY <1>2 DEF Empty
<1>4. Idle.m \notin Missions
  BY <1>2, Sizes
<1> QED
  BY <1>1, <1>2, <1>3, <1>4 DEF Fine

\* More bought, validated, used and signed takes nothing from what a record says.
Grows(s, v, u, hi, s2, v2, u2, hi2) ==
  /\ v \subseteq v2
  /\ \A w \in Users : s[w].bought => s2[w].bought
  /\ \A m \in Missions : u[m] <= u2[m] /\ hi[m] <= hi2[m]

LEMMA FineGrows ==
  ASSUME NEW s, NEW v, NEW u \in [Missions -> 0..MaxBytes], NEW hi \in [Missions -> 0..MaxBytes],
         NEW s2, NEW v2, NEW u2 \in [Missions -> 0..MaxBytes], NEW hi2 \in [Missions -> 0..MaxBytes],
         Grows(s, v, u, hi, s2, v2, u2, hi2)
  PROVE  /\ \A m \in Missions : \A c \in Records : Real(m, c, s, v, u) => Real(m, c, s2, v2, u2)
         /\ \A q \in Requests : Fine(q, s, v, u, hi) => Fine(q, s2, v2, u2, hi2)
<1>1. ASSUME NEW m \in Missions, NEW c \in Records, Real(m, c, s, v, u)
      PROVE  Real(m, c, s2, v2, u2)
  <2>1. u[m] \in Nat /\ u2[m] \in Nat /\ u[m] <= u2[m] /\ c.bytes \in Nat
    BY Sizes DEF Grows, Records
  <2>2. c.bytes <= u2[m]
    BY <1>1, <2>1 DEF Real
  <2>3. UserOf[m] \in Users
    BY Sizes
  <2>4. c.sim => s2[UserOf[m]].bought
    BY <1>1, <2>3 DEF Real, Grows
  <2>5. c.pay = "paid" \/ c.sim => Valid(m, v2)
    BY <1>1 DEF Real, Grows, Valid
  <2>6. c.top = "settled" => <<m, "topup", m>> \in v2
    BY <1>1 DEF Real, Grows
  <2> QED
    BY <1>1, <2>2, <2>4, <2>5, <2>6 DEF Real
<1>2. ASSUME NEW q \in Requests, Fine(q, s, v, u, hi) PROVE Fine(q, s2, v2, u2, hi2)
  <2>a. q.copy \in Records /\ q.file \in [Missions -> Records]
        /\ q.read \in 0..MaxBytes /\ q.bytes \in Bursts \cup {0}
    BY DEF Requests
  <2>1. /\ q.copy \in Records /\ q.file \in [Missions -> Records]
        /\ q.read \in Nat /\ q.bytes \in Nat /\ q.copy.bytes \in Nat
    <3>1. q.copy.bytes \in 0..MaxBytes
      BY <2>a DEF Records
    <3>2. MaxBytes \in Nat /\ \A b \in Bursts \cup {0} : b \in Nat
      BY Sizes
    <3>3. q.read \in 0..MaxBytes /\ q.bytes \in Bursts \cup {0}
      BY <2>a
    <3>4. q.read \in Nat /\ q.copy.bytes \in Nat
      BY <3>1, <3>2, <3>3
    <3>5. q.bytes \in Nat
      BY <3>2, <3>3
    <3> QED
      BY <2>a, <3>4, <3>5
  <2>2. \A m \in Missions : Real(m, q.file[m], s2, v2, u2)
    BY <1>1, <1>2, <2>1 DEF Fine
  <2>3. q.m \in Missions => Real(q.m, q.copy, s2, v2, u2)
    BY <1>1, <1>2, <2>1 DEF Fine
  <2>4. ASSUME q.pc \in {"voucher", "policy"}
        PROVE  /\ q.read <= u2[q.m] /\ q.copy.bytes + q.bytes <= u2[q.m]
               /\ q.signed => q.read <= hi2[q.m]
    <3>1. q.m \in Missions
      BY <1>2, <2>4 DEF Fine
    <3>2. /\ u[q.m] \in Nat /\ u2[q.m] \in Nat /\ hi[q.m] \in Nat /\ hi2[q.m] \in Nat
          /\ u[q.m] <= u2[q.m] /\ hi[q.m] <= hi2[q.m]
      BY <3>1, Sizes DEF Grows
    <3>3. /\ q.read <= u[q.m] /\ q.copy.bytes + q.bytes <= u[q.m]
          /\ q.signed => q.read <= hi[q.m]
      BY <1>2, <2>4 DEF Fine
    <3> QED
      BY <2>1, <3>2, <3>3
  <2>5. q.pc = "fund" => <<q.m, "topup", q.m>> \in v2
    BY <1>2 DEF Fine, Grows
  <2> QED
    BY <1>2, <2>2, <2>3, <2>4, <2>5 DEF Fine
<1> QED
  BY <1>1, <1>2

----------------------------------------------------------------------------
(* The shapes of a step *)

Others == <<disk, meter, high, sim, used, agent, deposit, funded>>

\* What was paid for and told stays so when more is validated, used and deposited.
LEMMA CoversGrows ==
  ASSUME NEW m \in Missions, NEW x \in Nat, NEW ag, NEW dep \in Nat, NEW dep2 \in Nat,
         NEW v, NEW v2, NEW u \in [Missions -> 0..MaxBytes], NEW u2 \in [Missions -> 0..MaxBytes],
         v \subseteq v2, dep <= dep2, \A n \in Missions : u[n] <= u2[n]
  PROVE  /\ Covers(m, x, ag, dep, v, u) => Covers(m, x, ag, dep2, v2, u2)
         /\ Pays(m, v) \in Nat /\ Pays(m, v2) \in Nat /\ Pays(m, v) <= Pays(m, v2)
<1>1. Pays(m, v) \in Nat /\ Pays(m, v2) \in Nat /\ Pays(m, v) <= Pays(m, v2)
  BY Sizes DEF Pays
<1>2. ASSUME NEW n \in Missions PROVE u[n] \in Nat /\ u2[n] \in Nat
  <2>1. u[n] \in 0..MaxBytes /\ u2[n] \in 0..MaxBytes /\ MaxBytes \in Nat
    BY Sizes
  <2> QED
    BY <2>1
<1>3. ASSUME Covers(m, x, ag, dep, v, u) PROVE Covers(m, x, ag, dep2, v2, u2)
  <2>1. CASE ag
    <3>1. PICK n \in Missions : x <= u[n]
      BY <1>3, <2>1 DEF Covers
    <3>2. x <= u2[n] /\ x <= dep2
      BY <1>2, <1>3, <2>1, <3>1 DEF Covers
    <3> QED
      BY <2>1, <3>2 DEF Covers
  <2>2. CASE ~ag
    <3>1. x <= Pays(m, v) /\ x <= u[m]
      BY <1>3, <2>2 DEF Covers
    <3> HIDE DEF Pays
    <3>2. x <= Pays(m, v2) /\ x <= u2[m]
      BY <1>1, <1>2, <3>1
    <3> QED
      BY <2>2, <3>2 DEF Covers
  <2> QED
    BY <2>1, <2>2
<1> QED
  BY <1>1, <1>3

Payments(v) == {<<p[1], p[2]>> : p \in v}

LEMMA PaymentsGrow ==
  ASSUME NEW v, NEW v2, v \subseteq v2
  PROVE  Payments(v) \subseteq Payments(v2)
BY DEF Payments

LEMMA SimsGrow ==
  ASSUME NEW s, NEW v, NEW v2, v \subseteq v2, SimsAre(s, v)
  PROVE  SimsAre(s, v2)
<1> SUFFICES ASSUME NEW w \in Users, s[w].bought
             PROVE  \E m \in Missions : UserOf[m] = w /\ Valid(m, v2)
  BY DEF SimsAre
<1>1. PICK m \in Missions : UserOf[m] = w /\ Valid(m, v)
  BY DEF SimsAre
<1>2. Valid(m, v2)
  BY <1>1 DEF Valid
<1> QED
  BY <1>1, <1>2

\* A handler goes on, and what the records are about has grown or is the same.
LEMMA Moves ==
  ASSUME TypeOK, AllFine, NEW h \in Handlers, NEW q \in Requests, req' = [req EXCEPT ![h] = q],
         Grows(sim, valid, used, high, sim', valid', used', high'),
         used' \in [Missions -> 0..MaxBytes], high' \in [Missions -> 0..MaxBytes],
         Fine(q, sim', valid', used', high')
  PROVE  AllFine' /\ req' \in [Handlers -> Requests]
<1>1. req \in [Handlers -> Requests] /\ used \in [Missions -> 0..MaxBytes]
      /\ high \in [Missions -> 0..MaxBytes]
  BY DEF TypeOK
<1>2. req' \in [Handlers -> Requests] /\ \A g \in Handlers : req'[g] = IF g = h THEN q ELSE req[g]
  BY <1>1
<1>3. \A g \in Handlers : Fine(req[g], sim', valid', used', high')
  BY <1>1, FineGrows DEF AllFine
<1> QED
  BY <1>2, <1>3 DEF AllFine

\* What the records said before a step that only adds, they say after it.
LEMMA StepGrows ==
  ASSUME TypeOK, Grows(sim, valid, used, high, sim', valid', used', high'),
         used' \in [Missions -> 0..MaxBytes], high' \in [Missions -> 0..MaxBytes]
  PROVE  /\ \A m \in Missions : \A c \in Records :
              Real(m, c, sim, valid, used) => Real(m, c, sim', valid', used')
         /\ \A q \in Requests : Fine(q, sim, valid, used, high) => Fine(q, sim', valid', used', high')
         /\ DiskReal /\ UNCHANGED disk => DiskReal'
<1>1. used \in [Missions -> 0..MaxBytes] /\ high \in [Missions -> 0..MaxBytes]
      /\ disk \in [Missions -> Records]
  BY DEF TypeOK
<1>2. /\ \A m \in Missions : \A c \in Records :
            Real(m, c, sim, valid, used) => Real(m, c, sim', valid', used')
      /\ \A q \in Requests : Fine(q, sim, valid, used, high) => Fine(q, sim', valid', used', high')
  BY <1>1, FineGrows
<1>3. ASSUME DiskReal, UNCHANGED disk PROVE DiskReal'
  <2>1. \A m \in Missions : Real(m, disk[m], sim', valid', used')
    BY <1>1, <1>2, <1>3 DEF DiskReal
  <2> QED
    BY <1>3, <2>1 DEF DiskReal
<1> QED
  BY <1>2, <1>3

\* A payment may be validated on the way, and nothing else is touched.
LEMMA Quiet ==
  ASSUME Safe, NEW h \in Handlers, NEW q \in Requests, req' = [req EXCEPT ![h] = q],
         UNCHANGED Others, valid \subseteq valid', valid' \subseteq Missions \X Kinds \X Missions,
         told' \subseteq told \cup Payments(valid'),
         doubt' \in BOOLEAN, born' \subseteq Missions, ops' \in 0..MaxOps,
         faults' \in 0..MaxFaults[agent], Fine(q, sim, valid', used, high)
  PROVE  Safe'
<1>1. /\ used \in [Missions -> 0..MaxBytes] /\ high \in [Missions -> 0..MaxBytes]
      /\ UNCHANGED <<disk, meter, high, sim, used, agent, deposit, funded>>
      /\ disk \in [Missions -> Records] /\ deposit \in Nat
  BY DEF Safe, TypeOK, Others
<1>2. \A m \in Missions : used[m] <= used[m] /\ high[m] <= high[m]
  BY <1>1, Sizes
<1>3. Grows(sim, valid, used, high, sim', valid', used', high')
  BY <1>1, <1>2 DEF Grows
<1>4. AllFine' /\ req' \in [Handlers -> Requests]
  BY <1>1, <1>3, Moves DEF Safe
<1>5. TypeOK'
  <2>1. told \subseteq Payments(valid)
    BY DEF Safe, TypeOK, Payments
  <2>2. told' \subseteq Payments(valid')
    BY <2>1, PaymentsGrow
  <2> QED
    BY <1>1, <1>4, <2>2 DEF Safe, TypeOK, Payments
<1>6. DiskReal'
  BY <1>1, <1>3, FineGrows DEF Safe, DiskReal
<1>7. SimsPaid' /\ OneChannel' /\ Funds'
  <2>1. SimsAre(sim, valid')
    BY SimsGrow DEF Safe, SimsPaid
  <2> QED
    BY <1>1, <2>1 DEF Safe, SimsPaid, OneChannel, Funds
<1>8. Meters'
  <2> SUFFICES ASSUME NEW m \in Missions
               PROVE  /\ Covers(m, high[m], agent, deposit, valid', used)
                      /\ meter[m].deposit <= Pays(m, valid')
    BY <1>1 DEF Safe, Meters
  <2>1. meter[m] \in Counters
    BY DEF Safe, TypeOK
  <2>2. meter[m].deposit \in Nat /\ high[m] \in Nat /\ deposit <= deposit
    BY <1>1, <2>1, Sizes DEF Counters
  <2>3. meter[m].deposit <= Pays(m, valid) /\ Covers(m, high[m], agent, deposit, valid, used)
    BY DEF Safe, Meters
  <2>4. /\ Covers(m, high[m], agent, deposit, valid', used)
        /\ Pays(m, valid) \in Nat /\ Pays(m, valid') \in Nat /\ Pays(m, valid) <= Pays(m, valid')
    BY <1>1, <1>2, <2>2, <2>3, CoversGrows
  <2> QED
    BY <2>2, <2>3, <2>4
<1> QED
  BY <1>4, <1>5, <1>6, <1>7, <1>8 DEF Safe

\* Saves(h, c): the request with its copy.
Saving(h, c) == [req[h] EXCEPT !.pc = "save", !.copy = c]
BudgetOf(c) == Budget + IF c.top = "settled" THEN Top ELSE 0

LEMMA SavingIsFine ==
  ASSUME TypeOK, NEW h \in Handlers, NEW c \in Records, Saves(h, c),
         NEW s, NEW v, NEW u, NEW hi, Fine(req[h], s, v, u, hi), req[h].pc \notin {"off", "find"},
         Real(req[h].m, c, s, v, u), c.budget = BudgetOf(c),
         req[h].op = "confirm_topup" => c.top = "settled"
  PROVE  /\ Saving(h, c) \in Requests /\ req' = [req EXCEPT ![h] = Saving(h, c)]
         /\ Fine(Saving(h, c), s, v, u, hi) /\ Saving(h, c).m = req[h].m /\ req[h].m \in Missions
<1> DEFINE q == Saving(h, c)
<1>1. req[h] \in Requests /\ req \in [Handlers -> Requests]
  BY DEF TypeOK
<1>2. q \in Requests
  BY <1>1 DEF Saving, Requests
<1>3. req' = [req EXCEPT ![h] = q]
  BY <1>1 DEF Saves, Saving, Requests
<1>4. q.pc = "save" /\ q.copy = c /\ q.m = req[h].m /\ q.file = req[h].file /\ q.op = req[h].op
  BY <1>1 DEF Saving, Requests
<1>5. Fine(q, s, v, u, hi)
  <2> HIDE DEF q
  <2> QED
    BY <1>4 DEF Fine, BudgetOf
<1> QED
  BY <1>2, <1>3, <1>4, <1>5 DEF Fine

\* What a handler past its find() has in its hands.
LEMMA InHand ==
  ASSUME Safe, NEW h \in Handlers, req[h].pc \notin {"off", "find"}
  PROVE  /\ req[h].m \in Missions /\ req[h].copy \in Records /\ MaxOps # 0
         /\ Real(req[h].m, req[h].copy, sim, valid, used)
         /\ req[h].copy.budget = BudgetOf(req[h].copy)
         /\ Fine(req[h], sim, valid, used, high)
         /\ req[h].pc = "call" => ~Refuses(req[h].op, req[h].copy)
<1>1. req[h] \in Requests /\ Fine(req[h], sim, valid, used, high)
  BY DEF Safe, TypeOK, AllFine
<1>2. req[h].copy \in Records
  BY <1>1 DEF Requests
<1> QED
  BY <1>1, <1>2 DEF Fine, BudgetOf

\* The copy is saved with a field the budget and the payments do not depend on.
LEMMA Saved ==
  ASSUME Safe, NEW h \in Handlers, req[h].pc = "call", req[h].op # "confirm_topup",
         NEW c \in Records, Saves(h, c),
         \/ c = req[h].copy
         \/ \E x \in {"paid", "active", "paused", "completed"} : c = [req[h].copy EXCEPT !.status = x]
         \/ req[h].copy.top = "none" /\ c = [req[h].copy EXCEPT !.top = "pending"]
         \/ c = [req[h].copy EXCEPT !.pay = "failed"]
  PROVE  /\ Saving(h, c) \in Requests /\ req' = [req EXCEPT ![h] = Saving(h, c)]
         /\ Fine(Saving(h, c), sim, valid, used, high)
<1> DEFINE k == req[h].copy
<1>1. k \in Records /\ Real(req[h].m, k, sim, valid, used) /\ k.budget = BudgetOf(k)
      /\ Fine(req[h], sim, valid, used, high)
  BY InHand
<1> HIDE DEF k
<1>2. /\ c.sim = k.sim /\ c.bytes = k.bytes /\ c.budget = k.budget
      /\ c.pay = k.pay \/ c.pay = "failed"
      /\ c.top = k.top \/ (k.top = "none" /\ c.top = "pending")
  BY <1>1 DEF k, Records
<1>3. c.budget = BudgetOf(c)
  BY <1>1, <1>2 DEF BudgetOf
<1>4. Real(req[h].m, c, sim, valid, used)
  BY <1>1, <1>2, <1>3 DEF Real, BudgetOf
<1> QED
  BY <1>1, <1>3, <1>4, SavingIsFine DEF Safe

----------------------------------------------------------------------------
(* Safe, action by action *)

LEMMA ArrivesSafe ==
  ASSUME Safe, NEW h \in Handlers, NEW op \in Operations, NEW m \in Missions,
         NEW b \in Bursts \cup {0}, Arrives(h, op, m, b)
  PROVE  Safe'
<1> DEFINE c == IF op = "create" THEN Created ELSE Absent
           q == [Idle EXCEPT !.op = op, !.m = m, !.bytes = b,
                             !.pc = IF op = "create" THEN "save" ELSE "find", !.copy = c]
<1>1. req' = [req EXCEPT ![h] = q]
  BY DEF Arrives
<1>2. c \in Records
  BY Fresh
<1>3. q \in Requests
  BY <1>2, Fresh DEF Requests
<1>4. /\ q.m = m /\ q.copy = c /\ q.file = Empty /\ q.op = op
      /\ q.pc = (IF op = "create" THEN "save" ELSE "find") /\ ~q.signed
  BY DEF Idle
<1>5. MaxOps # 0 /\ ops' \in 0..MaxOps /\ born' \subseteq Missions
  <2>1. ops \in 0..MaxOps /\ MaxOps \in Nat /\ born \subseteq Missions
    BY Sizes DEF Safe, TypeOK
  <2> QED
    BY <2>1 DEF Arrives
<1>6. used \in [Missions -> 0..MaxBytes]
  BY DEF Safe, TypeOK
<1>7. \A n \in Missions : Real(n, Absent, sim, valid, used) /\ Empty[n] = Absent
  BY <1>6, IdleIsFine DEF Empty
<1>8. Real(m, Created, sim, valid, used) /\ Created.budget = Budget /\ Created.top = "none"
  <2>1. /\ Created.budget = Budget /\ Created.top = "none" /\ Created.sim = FALSE
        /\ Created.bytes = 0 /\ Created.pay = "pending"
    BY DEF Created, Absent
  <2>2. 0 <= used[m]
    BY <1>6, Sizes
  <2>3. Budget = Budget + 0
    BY Sizes
  <2> QED
    BY <2>1, <2>2, <2>3 DEF Real
<1>9. Fine(q, sim, valid, used, high)
  <2> HIDE DEF q
  <2>1. Budget = Budget + 0
    BY Sizes
  <2> QED
    BY <1>4, <1>5, <1>7, <1>8, <2>1 DEF Fine
<1>10. /\ UNCHANGED <<Others, told>> /\ valid' = valid /\ doubt' \in BOOLEAN
       /\ faults' \in 0..MaxFaults[agent] /\ valid' \subseteq Missions \X Kinds \X Missions
  BY DEF Arrives, outside, payments, Others, Safe, TypeOK
<1> HIDE DEF q
<1> QED
  BY <1>1, <1>3, <1>5, <1>9, <1>10, Quiet

\* An action that touches the request alone, and counts its fault if it is one.
LEMMA Alone ==
  ASSUME Safe, NEW h \in Handlers, NEW q \in Requests, req' = [req EXCEPT ![h] = q],
         Fine(q, sim, valid, used, high), UNCHANGED <<Others, payments, born, ops>>,
         doubt' \in BOOLEAN, Fault \/ UNCHANGED faults
  PROVE  Safe'
<1>1. faults' \in 0..MaxFaults[agent]
  <2>1. MaxFaults[agent] \in Nat /\ faults \in 0..MaxFaults[agent]
    BY Sizes DEF Safe, TypeOK
  <2> QED
    BY <2>1 DEF Fault
<1> QED
  BY <1>1, Quiet DEF payments, Safe, TypeOK

LEMMA EndsSafe ==
  ASSUME Safe, NEW h \in Handlers, Ends(h), UNCHANGED <<Others, payments, born, ops>>,
         doubt' \in BOOLEAN, Fault \/ UNCHANGED faults
  PROVE  Safe'
<1>1. Idle \in Requests /\ Fine(Idle, sim, valid, used, high)
  BY Fresh, IdleIsFine DEF Safe, TypeOK
<1> QED
  BY <1>1, Alone DEF Ends

\* What is answered of a record that CosmoPay has paid for was validated.
LEMMA AnswerIsValid ==
  ASSUME NEW op, NEW m \in Missions, NEW c, NEW s, NEW v, NEW u, Real(m, c, s, v, u)
  PROVE  Answer(op, m, c) \subseteq Payments(v)
<1> SUFFICES ASSUME NEW t \in Answer(op, m, c) PROVE t \in Payments(v)
  OBVIOUS
<1>1. PICK kind \in Kinds :
        /\ t = <<m, kind>>
        /\ \/ kind = "mission" /\ op = "confirm" /\ c.pay = "paid"
           \/ kind = "topup" /\ op = "confirm_topup" /\ c.top = "settled"
  BY DEF Answer
<1>2. PICK n \in Missions : <<m, kind, n>> \in v
  <2>1. CASE kind = "mission"
    BY <1>1, <2>1 DEF Real, Valid
  <2>2. CASE kind = "topup"
    BY <1>1, <2>2 DEF Real
  <2> QED
    BY <1>1, <2>1, <2>2
<1>3. t = <<(<<m, kind, n>>)[1], (<<m, kind, n>>)[2]>>
  BY <1>1
<1> QED
  BY <1>2, <1>3 DEF Payments

LEMMA FindsSafe ==
  ASSUME Safe, NEW h \in Handlers, Finds(h)
  PROVE  Safe'
<1> DEFINE c == disk[req[h].m]
           q == [req[h] EXCEPT !.copy = c, !.pc = "call"]
<1>1. /\ UNCHANGED <<Others, valid, born, ops>> /\ doubt' \in BOOLEAN /\ UNCHANGED faults
  BY DEF Finds, outside, Others, counts, Safe, TypeOK
<1>0. /\ req[h].m \in Missions /\ Real(req[h].m, c, sim, valid, used)
  BY DEF Finds, Safe, AllFine, Fine, DiskReal
<1>2. CASE Refuses(req[h].op, c)
  <2>1. Ends(h) /\ told' = told \cup Answer(req[h].op, req[h].m, c)
    BY <1>2 DEF Finds
  <2>2. told' \subseteq told \cup Payments(valid)
    BY <1>0, <2>1, AnswerIsValid
  <2>3. Idle \in Requests /\ Fine(Idle, sim, valid, used, high)
    BY Fresh, IdleIsFine DEF Safe, TypeOK
  <2>4. /\ born' \subseteq Missions /\ ops' \in 0..MaxOps /\ faults' \in 0..MaxFaults[agent]
        /\ valid' = valid /\ valid \subseteq Missions \X Kinds \X Missions /\ UNCHANGED Others
    BY <1>1 DEF Safe, TypeOK
  <2> HIDE DEF c
  <2> QED
    BY <1>1, <2>1, <2>2, <2>3, <2>4, Quiet DEF Ends
<1>3. CASE ~Refuses(req[h].op, c)
  <2>1. req[h] \in Requests /\ req \in [Handlers -> Requests] /\ disk \in [Missions -> Records]
        /\ Fine(req[h], sim, valid, used, high)
    BY DEF Safe, TypeOK, AllFine
  <2>2. req[h].m \in Missions /\ MaxOps # 0
    BY <2>1 DEF Fine, Finds
  <2>3. c \in Records /\ Real(req[h].m, c, sim, valid, used)
    BY <2>1, <2>2 DEF Safe, DiskReal
  <2>4. q \in Requests
    BY <2>1, <2>3 DEF Requests
  <2>5. req' = [req EXCEPT ![h] = q] /\ UNCHANGED payments
    BY <1>1, <1>3, <2>1 DEF Finds, Requests, payments
  <2>6. c # Absent
    BY <1>3 DEF Refuses
  <2> HIDE DEF c
  <2>7. q.pc = "call" /\ q.copy = c /\ q.m = req[h].m /\ q.file = req[h].file /\ q.op = req[h].op
        /\ q.signed = req[h].signed
    BY <2>1 DEF Requests
  <2> HIDE DEF q
  <2>8. Fine(q, sim, valid, used, high)
    BY <1>3, <2>1, <2>2, <2>3, <2>6, <2>7 DEF Fine, Real, Finds
  <2> QED
    BY <1>1, <2>4, <2>5, <2>8, Alone
<1> QED
  BY <1>2, <1>3

\* save() has read the file, or takes it for one without missions.
LEMMA SaveReadsSafe ==
  ASSUME Safe, NEW h \in Handlers, SaveReads(h) \/ ReadFails(h)
  PROVE  Safe'
<1>1. req[h] \in Requests /\ req \in [Handlers -> Requests] /\ disk \in [Missions -> Records]
      /\ Fine(req[h], sim, valid, used, high) /\ doubt \in BOOLEAN
  BY DEF Safe, TypeOK, AllFine
<1>2. /\ UNCHANGED <<Others, payments, born, ops>> /\ doubt' \in BOOLEAN
      /\ Fault \/ UNCHANGED faults
  BY <1>1 DEF SaveReads, ReadFails, outside, Others, counts
<1>3. CASE Ends(h)
  BY <1>2, <1>3, EndsSafe
<1>4. ASSUME NEW f \in [Missions -> Records], req[h].pc = "save",
             \A m \in Missions : Real(m, f[m], sim, valid, used),
             req' = [req EXCEPT ![h].file = f, ![h].pc = "write"]
      PROVE  Safe'
  <2> DEFINE q == [req[h] EXCEPT !.file = f, !.pc = "write"]
  <2>1. q \in Requests
    BY <1>1 DEF Requests
  <2>2. req' = [req EXCEPT ![h] = q]
    BY <1>1, <1>4 DEF Requests
  <2>3. q.pc = "write" /\ q.copy = req[h].copy /\ q.m = req[h].m /\ q.file = f /\ q.op = req[h].op
    BY <1>1 DEF Requests
  <2> HIDE DEF q
  <2>4. Fine(q, sim, valid, used, high)
    BY <1>1, <1>4, <2>3 DEF Fine
  <2> QED
    BY <1>2, <2>1, <2>2, <2>4, Alone
<1>5. CASE SaveReads(h)
  BY <1>1, <1>4, <1>5 DEF SaveReads, Safe, DiskReal
<1>6. CASE ReadFails(h) /\ ~Ends(h)
  <2>1. Empty \in [Missions -> Records] /\ \A m \in Missions : Empty[m] = Absent
    BY Fresh DEF Empty
  <2>2. \A m \in Missions : Real(m, Empty[m], sim, valid, used)
    BY <2>1, IdleIsFine DEF Safe, TypeOK
  <2> QED
    BY <1>4, <1>6, <2>1, <2>2 DEF ReadFails
<1> QED
  BY <1>3, <1>5, <1>6

LEMMA SaveWritesSafe ==
  ASSUME Safe, NEW h \in Handlers, SaveWrites(h)
  PROVE  Safe'
<1> DEFINE m == req[h].m
           c == req[h].copy
           f == req[h].file
<1>1. m \in Missions /\ c \in Records /\ Real(m, c, sim, valid, used)
      /\ Fine(req[h], sim, valid, used, high) /\ req[h] \in Requests /\ req[h].pc = "write"
  BY InHand DEF SaveWrites, Safe, TypeOK
<1>2. f \in [Missions -> Records] /\ \A n \in Missions : Real(n, f[n], sim, valid, used)
  BY <1>1 DEF Fine, Requests
<1>3. disk' = [f EXCEPT ![m] = c] /\ Ends(h)
      /\ UNCHANGED <<meter, high, sim, deposit, funded, agent, valid, used, born, ops, faults>>
      /\ told' = told \cup Answer(req[h].op, m, c)
  BY DEF SaveWrites, outside, counts
<1>4. told' \subseteq Payments(valid')
  <2>1. Answer(req[h].op, m, c) \subseteq Payments(valid)
    BY <1>1, AnswerIsValid
  <2> QED
    BY <1>3, <2>1 DEF Safe, TypeOK, Payments
<1>5. doubt' \in BOOLEAN
  <2>1. doubt' = (doubt \/ Deciding # {h})
    BY DEF SaveWrites
  <2> QED
    BY <2>1, Zenon
<1>6. Idle \in Requests /\ Fine(Idle, sim, valid, used, high)
  BY Fresh, IdleIsFine DEF Safe, TypeOK
<1>7. AllFine' /\ req' \in [Handlers -> Requests]
  <2>1. /\ req \in [Handlers -> Requests] /\ \A g \in Handlers : Fine(req[g], sim, valid, used, high)
    BY DEF Safe, TypeOK, AllFine
  <2>2. \A g \in Handlers : req'[g] = Idle \/ req'[g] = req[g]
    BY <1>3, <2>1 DEF Ends
  <2>3. req' \in [Handlers -> Requests]
    BY <1>3, <1>6, <2>1 DEF Ends
  <2> QED
    BY <1>3, <1>6, <2>1, <2>2, <2>3 DEF AllFine
<1> HIDE DEF m, c, f
<1>8. disk' \in [Missions -> Records] /\ \A n \in Missions : disk'[n] = IF n = m THEN c ELSE f[n]
  BY <1>1, <1>2, <1>3
<1>9. DiskReal'
  BY <1>1, <1>2, <1>3, <1>8 DEF DiskReal
<1>10. TypeOK'
  BY <1>3, <1>4, <1>5, <1>7, <1>8 DEF Safe, TypeOK, Payments
<1>11. SimsPaid' /\ Meters' /\ OneChannel' /\ Funds'
  BY <1>3 DEF Safe, SimsPaid, Meters, OneChannel, Funds
<1> QED
  BY <1>7, <1>9, <1>10, <1>11 DEF Safe

LEMMA RestartsSafe == Safe /\ Restarts => Safe'
<1> SUFFICES ASSUME Safe, Restarts PROVE Safe'
  OBVIOUS
<1>1. /\ UNCHANGED <<disk, sim, valid, told, used, born, ops, agent, deposit, funded>>
      /\ doubt' \in BOOLEAN
  <2>1. doubt' = (doubt \/ \E h \in Deciding : req[h].op = "confirm_topup" /\ req[h].copy.top = "settled")
    BY DEF Restarts
  <2>2. doubt' \in BOOLEAN
    BY <2>1, Zenon
  <2> QED
    BY <2>2 DEF Restarts, payments, chain
<1>2. used \in [Missions -> 0..MaxBytes]
  BY DEF Safe, TypeOK
<1>3. AllFine' /\ req' \in [Handlers -> Requests]
  <2>1. req' = [h \in Handlers |-> Idle]
    BY DEF Restarts
  <2>2. Idle \in Requests /\ Fine(Idle, sim, valid, used, high')
    BY <1>2, Fresh, IdleIsFine
  <2>3. \A h \in Handlers : req'[h] = Idle
    BY <2>1
  <2>4. req' \in [Handlers -> Requests]
    BY <2>1, <2>2
  <2> QED
    BY <1>1, <2>2, <2>3, <2>4 DEF AllFine
<1>4. /\ high' \in [Missions -> 0..MaxBytes]
      /\ (agent /\ high' = high) \/ (~agent /\ \A m \in Missions : high'[m] = 0)
  <2>1. high \in [Missions -> 0..MaxBytes] /\ high' = IF agent THEN high ELSE [m \in Missions |-> 0]
    BY DEF Restarts, Safe, TypeOK
  <2> QED
    BY <2>1, Sizes
<1>5. meter' \in [Missions -> Counters] /\ \A m \in Missions : meter'[m] = NewMeter
  BY Fresh DEF Restarts
<1>6. faults' \in 0..MaxFaults[agent]
  <2>1. MaxFaults[agent] \in Nat /\ faults \in 0..MaxFaults[agent]
    BY Sizes DEF Safe, TypeOK
  <2> QED
    BY <2>1 DEF Restarts, Fault
<1>7. TypeOK' /\ DiskReal' /\ SimsPaid' /\ Funds'
  BY <1>1, <1>3, <1>4, <1>5, <1>6 DEF Safe, TypeOK, DiskReal, SimsPaid, Funds
<1>8. OneChannel'
  BY <1>1, <1>4 DEF Safe, OneChannel
<1>9. ASSUME NEW m \in Missions
      PROVE  /\ Covers(m, high'[m], agent, deposit, valid, used)
             /\ 0 <= high'[m] /\ 0 <= used[m] /\ 0 <= Pays(m, valid) /\ 0 <= 0 + Quota
  <2>1. Pays(m, valid) \in Nat /\ used[m] \in Nat /\ high'[m] \in Nat
    BY <1>2, <1>4, Sizes DEF Pays
  <2>2. Covers(m, high[m], agent, deposit, valid, used)
    BY DEF Safe, Meters
  <2>3. ~agent => 0 <= Pays(m, valid) /\ 0 <= used[m]
    BY <2>1
  <2>4. Covers(m, high'[m], agent, deposit, valid, used)
    BY <1>4, <2>2, <2>3 DEF Covers
  <2> QED
    BY <2>1, <2>4, Sizes
<1>10. \A m \in Missions : meter'[m].sum = 0 /\ meter'[m].paid = 0 /\ meter'[m].deposit = 0
  BY <1>5 DEF NewMeter
<1>11. Meters'
  BY <1>1, <1>9, <1>10 DEF Meters
<1> QED
  BY <1>3, <1>7, <1>8, <1>11 DEF Safe

\* What the intents save.
LEMMA SavesSafe ==
  ASSUME Safe, NEW h \in Handlers,
         \/ PaymentIntent(h) \/ TopUpIntent(h)
  PROVE  Safe'
<1> DEFINE k == req[h].copy
<1>1. k \in Records /\ req[h].pc = "call" /\ ~Refuses(req[h].op, k)
  BY InHand DEF PaymentIntent, TopUpIntent, At
<1>2. PICK c \in Records :
        /\ Saves(h, c)
        /\ \/ c = k
           \/ k.top = "none" /\ c = [k EXCEPT !.top = "pending"]
  <2>1. CASE PaymentIntent(h)
    BY <1>1, <2>1 DEF PaymentIntent
  <2>2. CASE TopUpIntent(h)
    <3>1. k.top = "none"
      BY <1>1, <2>2 DEF TopUpIntent, At, Refuses
    <3>2. [k EXCEPT !.top = "pending"] \in Records
      BY <1>1 DEF Records
    <3> QED
      BY <2>2, <3>1, <3>2 DEF TopUpIntent
  <2> QED
    BY <2>1, <2>2
<1>3. req[h].op # "confirm_topup"
  BY DEF PaymentIntent, TopUpIntent, At
<1>4. /\ Saving(h, c) \in Requests /\ req' = [req EXCEPT ![h] = Saving(h, c)]
      /\ Fine(Saving(h, c), sim, valid, used, high)
  BY <1>1, <1>2, <1>3, Saved
<1>5. UNCHANGED <<Others, payments, born, ops, faults>> /\ doubt' \in BOOLEAN
  BY DEF PaymentIntent, TopUpIntent, Others, outside, counts, Safe, TypeOK
<1> QED
  BY <1>4, <1>5, Alone

LEMMA ConfirmsSafe ==
  ASSUME Safe, NEW h \in Handlers, Confirms(h)
  PROVE  Safe'
<1> DEFINE k == req[h].copy
           m == req[h].m
<1>1. /\ m \in Missions /\ k \in Records /\ Real(m, k, sim, valid, used) /\ k.budget = BudgetOf(k)
      /\ req[h].pc = "call" /\ req[h].op = "confirm" /\ Fine(req[h], sim, valid, used, high)
  BY InHand DEF Confirms, At
<1>2. UNCHANGED <<Others, told, born, ops, faults>> /\ doubt' \in BOOLEAN
      /\ used \in [Missions -> 0..MaxBytes] /\ high \in [Missions -> 0..MaxBytes]
      /\ req[h] \in Requests /\ ops \in 0..MaxOps /\ faults \in 0..MaxFaults[agent]
      /\ born \subseteq Missions /\ valid \subseteq Missions \X Kinds \X Missions
  BY DEF Confirms, Others, outside, counts, Safe, TypeOK
<1> HIDE DEF k, m
<1>3. CASE /\ \E n \in born : valid' = valid \cup {<<m, "mission", n>>}
           /\ Saves(h, [k EXCEPT !.pay = "paid", !.status = "paid"])
  <2>0. PICK n \in Missions : valid' = valid \cup {<<m, "mission", n>>}
    BY <1>2, <1>3
  <2>00. valid \subseteq valid' /\ Valid(m, valid') /\ (Valid(m, valid) => Valid(m, valid'))
    BY <2>0 DEF Valid
  <2> DEFINE c == [k EXCEPT !.pay = "paid", !.status = "paid"]
  <2>1. c \in Records
    BY <1>1 DEF Records
  <2>2. c.sim = k.sim /\ c.bytes = k.bytes /\ c.budget = k.budget /\ c.top = k.top
    BY <1>1 DEF Records
  <2> HIDE DEF c
  <2>3. Real(m, c, sim, valid', used) /\ c.budget = BudgetOf(c)
    BY <1>1, <2>00, <2>2 DEF Real, BudgetOf
  <2>4. \A i \in Missions : used[i] <= used[i] /\ high[i] <= high[i]
    BY <1>2, Sizes
  <2>5. Grows(sim, valid, used, high, sim, valid', used, high)
    BY <2>00, <2>4 DEF Grows
  <2>6. Fine(req[h], sim, valid', used, high)
    BY <1>1, <1>2, <2>5, FineGrows
  <2>7. /\ Saving(h, c) \in Requests /\ req' = [req EXCEPT ![h] = Saving(h, c)]
        /\ Fine(Saving(h, c), sim, valid', used, high)
    BY <1>1, <1>3, <2>1, <2>3, <2>6, SavingIsFine DEF Safe, c, m
  <2>8. valid \subseteq valid' /\ valid' \subseteq Missions \X Kinds \X Missions
    BY <1>1, <1>2, <2>0 DEF Kinds
  <2> QED
    BY <1>2, <2>7, <2>8, Quiet
<1>4. CASE UNCHANGED valid /\ Saves(h, [k EXCEPT !.pay = "failed"])
  <2> DEFINE c == [k EXCEPT !.pay = "failed"]
  <2>1. c \in Records
    BY <1>1 DEF Records
  <2>2. /\ Saving(h, c) \in Requests /\ req' = [req EXCEPT ![h] = Saving(h, c)]
        /\ Fine(Saving(h, c), sim, valid, used, high)
    BY <1>1, <1>4, <2>1, Saved DEF k
  <2> QED
    BY <1>2, <1>4, <2>2, Alone DEF payments
<1> QED
  BY <1>3, <1>4 DEF Confirms, k, m

LEMMA TopUpConfirmsSafe ==
  ASSUME Safe, NEW h \in Handlers, TopUpConfirms(h)
  PROVE  Safe'
<1> DEFINE k == req[h].copy
           m == req[h].m
           q == [req[h] EXCEPT !.pc = "fund"]
<1>1. /\ m \in Missions /\ k \in Records /\ Real(m, k, sim, valid, used) /\ k.budget = BudgetOf(k)
      /\ req[h].pc = "call" /\ req[h].op = "confirm_topup" /\ Fine(req[h], sim, valid, used, high)
      /\ k.top = "pending"
  BY InHand DEF TopUpConfirms, At, Refuses
<1>2. UNCHANGED <<Others, told, born, ops, faults>> /\ doubt' \in BOOLEAN
      /\ used \in [Missions -> 0..MaxBytes] /\ high \in [Missions -> 0..MaxBytes]
      /\ req[h] \in Requests /\ ops \in 0..MaxOps /\ faults \in 0..MaxFaults[agent]
      /\ born \subseteq Missions /\ valid \subseteq Missions \X Kinds \X Missions
  BY DEF TopUpConfirms, Others, outside, counts, Safe, TypeOK
<1>3. CASE Ends(h) /\ UNCHANGED valid
  BY <1>2, <1>3, EndsSafe DEF payments
<1>4. CASE valid' = valid \cup {<<m, "topup", m>>} /\ req' = [req EXCEPT ![h].pc = "fund"]
  <2>1. q \in Requests /\ req' = [req EXCEPT ![h] = q]
    BY <1>2, <1>4 DEF Requests, Safe, TypeOK
  <2>2. q.pc = "fund" /\ q.op = req[h].op /\ q.copy = k /\ q.m = m /\ q.file = req[h].file
    BY <1>2 DEF Requests
  <2> HIDE DEF q, k, m
  <2>3. \A n \in Missions : used[n] <= used[n] /\ high[n] <= high[n]
    BY <1>2, Sizes
  <2>4. Grows(sim, valid, used, high, sim, valid', used, high)
    BY <1>4, <2>3 DEF Grows
  <2>5. Fine(req[h], sim, valid', used, high) /\ Real(m, k, sim, valid', used)
    BY <1>1, <1>2, <2>4, FineGrows
  <2>6. Fine(q, sim, valid', used, high)
    BY <1>1, <1>4, <2>2, <2>5 DEF Fine, BudgetOf
  <2>7. valid \subseteq valid' /\ valid' \subseteq Missions \X Kinds \X Missions
    BY <1>1, <1>2, <1>4 DEF Kinds
  <2> QED
    BY <1>2, <2>1, <2>6, <2>7, Quiet
<1> QED
  BY <1>3, <1>4 DEF TopUpConfirms

\* The eSIM was bought, switched or funded, the channel topped up, and the copy says so.
LEMMA SimSaved ==
  ASSUME Safe, NEW h \in Handlers, req[h].pc \notin {"off", "find"}, NEW c \in Records, Saves(h, c),
         UNCHANGED <<disk, meter, high, agent, payments, used, born, counts>>,
         doubt' \in BOOLEAN, deposit' \in Nat, deposit <= deposit',
         funded' \in [Missions -> Nat], Funds',
         sim' \in [Users -> Sims], \A w \in Users : sim[w].bought => sim'[w].bought,
         SimsAre(sim', valid), c.budget = BudgetOf(c), Real(req[h].m, c, sim', valid, used),
         req[h].op = "confirm_topup" => c.top = "settled"
  PROVE  Safe'
<1>1. /\ used \in [Missions -> 0..MaxBytes] /\ high \in [Missions -> 0..MaxBytes]
      /\ req[h] \in Requests /\ disk \in [Missions -> Records] /\ Fine(req[h], sim, valid, used, high)
      /\ deposit \in Nat
  BY DEF Safe, TypeOK, AllFine
<1>2. \A n \in Missions : used[n] <= used[n] /\ high[n] <= high[n]
  BY <1>1, Sizes
<1>3. Grows(sim, valid, used, high, sim', valid, used, high)
  BY <1>2 DEF Grows
<1>4. Fine(req[h], sim', valid, used, high)
  BY <1>1, <1>3, FineGrows
<1>5. /\ Saving(h, c) \in Requests /\ req' = [req EXCEPT ![h] = Saving(h, c)]
      /\ Fine(Saving(h, c), sim', valid, used, high)
  BY <1>4, SavingIsFine DEF Safe
<1>6. UNCHANGED <<disk, meter, high, agent, valid, told, used, born, ops, faults>>
  BY DEF payments, counts
<1>7. AllFine' /\ req' \in [Handlers -> Requests]
  BY <1>1, <1>3, <1>5, <1>6, Moves DEF Safe
<1>8. DiskReal'
  <2>1. Grows(sim, valid, used, high, sim', valid', used', high')
        /\ used' \in [Missions -> 0..MaxBytes] /\ high' \in [Missions -> 0..MaxBytes]
    BY <1>1, <1>3, <1>6
  <2> QED
    BY <1>6, <2>1, StepGrows DEF Safe
<1>9. TypeOK'
  BY <1>6, <1>7 DEF Safe, TypeOK
<1>10. SimsPaid' /\ OneChannel'
  BY <1>6 DEF Safe, SimsPaid, OneChannel
<1>11. Meters'
  <2> SUFFICES ASSUME NEW m \in Missions PROVE Covers(m, high[m], agent, deposit', valid, used)
    BY <1>6 DEF Safe, Meters
  <2>1. high[m] \in Nat /\ Covers(m, high[m], agent, deposit, valid, used)
    BY <1>1, Sizes DEF Safe, Meters
  <2> QED
    BY <1>1, <1>2, <2>1, CoversGrows
<1> QED
  BY <1>7, <1>8, <1>9, <1>10, <1>11 DEF Safe

\* An eSIM that was bought is switched, or its refund is asked.
LEMMA SimSwitched ==
  ASSUME Safe, NEW w \in Users, sim[w].bought, NEW on \in BOOLEAN, NEW back \in BOOLEAN,
         on => ~back, sim' = [sim EXCEPT ![w].on = on, ![w].refund = back] \/ sim' = sim
  PROVE  /\ sim' \in [Users -> Sims] /\ SimsAre(sim', valid)
         /\ \A x \in Users : sim[x].bought => sim'[x].bought
<1>1. sim \in [Users -> Sims] /\ SimsAre(sim, valid)
  BY DEF Safe, TypeOK, SimsPaid
<1>2. CASE sim' = sim
  BY <1>1, <1>2
<1>3. CASE sim' = [sim EXCEPT ![w].on = on, ![w].refund = back]
  <2>1. /\ \A x \in Users : x # w => sim'[x] = sim[x]
        /\ sim'[w].bought = sim[w].bought /\ sim'[w].on = on /\ sim'[w].refund = back
        /\ sim'[w] \in Sims
    BY <1>1, <1>3 DEF Sims
  <2>2. sim' \in [Users -> Sims]
    BY <1>1, <1>3, <2>1
  <2>3. SimsAre(sim', valid)
    <3> SUFFICES ASSUME NEW x \in Users
                 PROVE  /\ sim'[x].bought => \E m \in Missions : UserOf[m] = x /\ Valid(m, valid)
                        /\ sim'[x].on => sim'[x].bought /\ ~sim'[x].refund
      BY DEF SimsAre
    <3>1. CASE x = w
      BY <1>1, <2>1, <3>1 DEF SimsAre
    <3>2. CASE x # w
      BY <1>1, <2>1, <3>2 DEF SimsAre
    <3> QED
      BY <3>1, <3>2
  <2> QED
    BY <2>1, <2>2, <2>3
<1> QED
  BY <1>2, <1>3

LEMMA DataSet ==
  ASSUME Safe, NEW h \in Handlers, req[h].pc \notin {"off", "find"}, NEW on \in BOOLEAN, SetData(h, on)
  PROVE  /\ sim' \in [Users -> Sims] /\ SimsAre(sim', valid)
         /\ \A x \in Users : sim[x].bought => sim'[x].bought
<1> DEFINE w == UserOf[req[h].m]
           f == on /\ ~sim[w].refund
<1>1. w \in Users /\ (req[h].copy.sim => sim[w].bought)
  BY InHand, Sizes DEF Real
<1>2. sim \in [Users -> Sims] /\ SimsAre(sim, valid)
  BY DEF Safe, TypeOK, SimsPaid
<1>3. CASE ~req[h].copy.sim
  BY <1>2, <1>3 DEF SetData
<1>4. CASE req[h].copy.sim
  <2>1. sim' = [sim EXCEPT ![w].on = f]
    BY <1>4 DEF SetData
  <2>2. sim[w] \in Sims
    BY <1>1, <1>2
  <2>3. sim[w].refund \in BOOLEAN /\ f \in BOOLEAN /\ (f => ~sim[w].refund)
    BY <2>2 DEF Sims
  <2> HIDE DEF f, w
  <2>4. sim' = [sim EXCEPT ![w].on = f, ![w].refund = sim[w].refund]
    BY <1>1, <1>2, <2>1, <2>2 DEF Sims
  <2> QED
    BY <1>1, <1>4, <2>3, <2>4, SimSwitched
<1> QED
  BY <1>3, <1>4

\* A status does not change what a record says.
LEMMA StatusIsFine ==
  ASSUME Safe, NEW h \in Handlers, req[h].pc \notin {"off", "find"},
         NEW x \in {"active", "paused", "completed"}, NEW s,
         \A w \in Users : sim[w].bought => s[w].bought
  PROVE  LET c == [req[h].copy EXCEPT !.status = x]  IN
         c \in Records /\ c.budget = BudgetOf(c) /\ Real(req[h].m, c, s, valid, used)
<1> DEFINE k == req[h].copy
           m == req[h].m
           c == [k EXCEPT !.status = x]
<1>1. m \in Missions /\ k \in Records /\ Real(m, k, sim, valid, used) /\ k.budget = BudgetOf(k)
  BY InHand
<1>2. c \in Records /\ c.sim = k.sim /\ c.bytes = k.bytes /\ c.budget = k.budget /\ c.top = k.top
      /\ c.pay = k.pay
  BY <1>1 DEF Records
<1>3. UserOf[m] \in Users
  BY <1>1, Sizes
<1> HIDE DEF c, k, m
<1>4. Real(m, c, s, valid, used) /\ c.budget = BudgetOf(c)
  BY <1>1, <1>2, <1>3 DEF Real, BudgetOf
<1> QED
  BY <1>2, <1>4 DEF c, k, m

LEMMA SimSafe ==
  ASSUME Safe, NEW h \in Handlers, Activates(h) \/ Pauses(h) \/ Resumes(h) \/ Finishes(h)
  PROVE  Safe'
<1> DEFINE k == req[h].copy
           m == req[h].m
           w == UserOf[m]
<1>1. /\ m \in Missions /\ k \in Records /\ Real(m, k, sim, valid, used) /\ k.budget = BudgetOf(k)
      /\ req[h].pc = "call" /\ req[h].op # "confirm_topup" /\ ~Refuses(req[h].op, k)
      /\ w \in Users
  BY InHand, Sizes DEF Activates, Pauses, Resumes, Finishes, At
<1>2. /\ UNCHANGED <<disk, meter, high, agent, deposit, funded, payments, used, born, counts>>
      /\ doubt' \in BOOLEAN /\ deposit' \in Nat /\ deposit <= deposit'
      /\ funded' \in [Missions -> Nat] /\ Funds'
  <2>1. UNCHANGED <<disk, meter, high, agent, deposit, funded, payments, used, doubt, born, counts>>
    BY DEF Activates, Pauses, Resumes, Finishes, chain
  <2>2. doubt \in BOOLEAN /\ deposit \in Nat /\ deposit <= deposit /\ funded \in [Missions -> Nat] /\ Funds
    BY DEF Safe, TypeOK
  <2>3. Funds'
    BY <2>1, <2>2 DEF Funds, payments
  <2> QED
    BY <2>1, <2>2, <2>3
<1>3. sim \in [Users -> Sims] /\ SimsAre(sim, valid) /\ sim[w] \in Sims
  BY <1>1 DEF Safe, TypeOK, SimsPaid
<1>4. CASE Activates(h)
  <2> DEFINE c == [k EXCEPT !.sim = TRUE, !.status = "active"]
             new == [NoSim EXCEPT !.bought = TRUE, !.on = TRUE]
  <2>1. sim' = IF sim[w].bought THEN sim ELSE [sim EXCEPT ![w] = new]
    BY <1>4 DEF Activates
  <2>2. Saves(h, c)
    BY <1>4 DEF Activates
  <2>3. k.pay = "paid"
    BY <1>1, <1>4 DEF Activates, At, Refuses
  <2>4. Valid(m, valid)
    BY <1>1, <2>3 DEF Real
  <2>5. new \in Sims /\ new.bought /\ ~new.refund
    BY DEF NoSim, Sims
  <2>6. c \in Records /\ c.sim /\ c.bytes = k.bytes /\ c.budget = k.budget /\ c.top = k.top
        /\ c.pay = k.pay
    BY <1>1 DEF Records
  <2> HIDE DEF k, c, new
  <2>7. /\ sim' \in [Users -> Sims] /\ sim'[w].bought
        /\ \A x \in Users : x # w => sim'[x] = sim[x]
        /\ sim'[w] = sim[w] \/ sim'[w] = new
    BY <1>1, <1>3, <2>1, <2>5
  <2>8. SimsAre(sim', valid)
    <3> SUFFICES ASSUME NEW x \in Users
                 PROVE  /\ sim'[x].bought => \E n \in Missions : UserOf[n] = x /\ Valid(n, valid)
                        /\ sim'[x].on => sim'[x].bought /\ ~sim'[x].refund
      BY DEF SimsAre
    <3>1. CASE x = w
      BY <1>1, <1>3, <2>4, <2>5, <2>7, <3>1 DEF SimsAre
    <3>2. CASE x # w
      BY <1>3, <2>7, <3>2 DEF SimsAre
    <3> QED
      BY <3>1, <3>2
  <2>9. \A x \in Users : sim[x].bought => sim'[x].bought
    BY <2>7
  <2>10. Real(m, c, sim', valid, used) /\ c.budget = BudgetOf(c)
    BY <1>1, <2>4, <2>6, <2>7 DEF Real, BudgetOf
  <2> QED
    BY <1>1, <1>2, <2>2, <2>6, <2>7, <2>8, <2>9, <2>10, SimSaved
<1>5. ASSUME NEW x \in {"active", "paused", "completed"}, Saves(h, [k EXCEPT !.status = x]),
             sim' \in [Users -> Sims], SimsAre(sim', valid),
             \A y \in Users : sim[y].bought => sim'[y].bought
      PROVE  Safe'
  <2> DEFINE c == [k EXCEPT !.status = x]
  <2>1. c \in Records /\ c.budget = BudgetOf(c) /\ Real(m, c, sim', valid, used) /\ Saves(h, c)
    BY <1>1, <1>5, StatusIsFine
  <2> HIDE DEF c
  <2> QED
    BY <1>1, <1>2, <1>5, <2>1, SimSaved
<1>6. CASE Pauses(h)
  BY <1>1, <1>5, <1>6, DataSet DEF Pauses
<1>7. CASE Resumes(h)
  BY <1>1, <1>5, <1>7, DataSet DEF Resumes
<1>8. CASE Finishes(h)
  <2>1. /\ Saves(h, [k EXCEPT !.status = "completed"])
        /\ sim' = sim \/ (k.sim /\ sim' = [sim EXCEPT ![w].refund = TRUE, ![w].on = FALSE])
    BY <1>8 DEF Finishes
  <2>2. k.sim => sim[w].bought
    BY <1>1 DEF Real
  <2>3. CASE sim' = sim
    BY <1>3, <1>5, <2>1, <2>3
  <2>4. CASE k.sim /\ sim' = [sim EXCEPT ![w].refund = TRUE, ![w].on = FALSE]
    <3>1. sim' = [sim EXCEPT ![w].on = FALSE, ![w].refund = TRUE]
      BY <1>1, <1>3, <2>4 DEF Sims
    <3> HIDE DEF w
    <3>2. /\ sim' \in [Users -> Sims] /\ SimsAre(sim', valid)
          /\ \A x \in Users : sim[x].bought => sim'[x].bought
      BY <1>1, <2>2, <2>4, <3>1, SimSwitched
    <3> QED
      BY <1>5, <2>1, <3>2
  <2> QED
    BY <2>1, <2>3, <2>4
<1> QED
  BY <1>4, <1>6, <1>7, <1>8

\* The copy of a top-up that is settled.
Settled(h) == [req[h].copy EXCEPT !.top = "settled", !.budget = @ + Top,
                                 !.status = IF @ = "paused" THEN "active" ELSE @]

LEMMA SettledIsFine ==
  ASSUME Safe, NEW h \in Handlers, req[h].pc = "fund"
  PROVE  /\ Settled(h) \in Records /\ Settled(h).budget = BudgetOf(Settled(h))
         /\ Settled(h).pay = req[h].copy.pay /\ Settled(h).top = "settled"
         /\ \A s : (\A w \in Users : sim[w].bought => s[w].bought)
                    => Real(req[h].m, Settled(h), s, valid, used)
<1> DEFINE k == req[h].copy
           m == req[h].m
           c == Settled(h)
<1>1. /\ m \in Missions /\ k \in Records /\ Real(m, k, sim, valid, used) /\ k.budget = BudgetOf(k)
      /\ MaxOps # 0 /\ k.top = "pending" /\ <<m, "topup", m>> \in valid
  BY InHand DEF Fine
<1>2. UserOf[m] \in Users
  BY <1>1, Sizes
<1>3. c = [k EXCEPT !.top = "settled", !.budget = @ + Top,
                    !.status = IF @ = "paused" THEN "active" ELSE @]
  BY DEF Settled
<1> HIDE DEF k, m, c
<1>4. k.budget = Budget /\ k.budget + Top \in 0..(Budget + MaxOps * Top)
  <2>1. k.budget = Budget + 0
    BY <1>1 DEF BudgetOf
  <2>2. k.budget = Budget
    BY <2>1, Sizes
  <2> QED
    BY <1>1, <2>2, Sizes
<1>5. c \in Records
  BY <1>1, <1>3, <1>4 DEF Records
<1>6. c.sim = k.sim /\ c.bytes = k.bytes /\ c.budget = Budget + Top /\ c.pay = k.pay
      /\ c.top = "settled"
  BY <1>1, <1>3, <1>4 DEF Records
<1>7. c.budget = BudgetOf(c)
  BY <1>6 DEF BudgetOf
<1>8. ASSUME NEW s, \A w \in Users : sim[w].bought => s[w].bought
      PROVE  Real(m, c, s, valid, used)
  BY <1>1, <1>2, <1>6, <1>7, <1>8 DEF Real, BudgetOf
<1> QED
  BY <1>5, <1>6, <1>7, <1>8 DEF k, m, c

LEMMA TopsUpSafe ==
  ASSUME Safe, NEW h \in Handlers, TopsUp(h)
  PROVE  Safe'
<1> DEFINE c == Settled(h)
           m == req[h].m
           w == UserOf[m]
<1>1. /\ m \in Missions /\ req[h].pc = "fund" /\ w \in Users
      /\ (req[h].copy.sim => sim[w].bought) /\ <<m, "topup", m>> \in valid
  BY InHand, Sizes DEF TopsUp, At, Real, Fine
<1>2. /\ UNCHANGED <<disk, meter, high, agent, payments, used, born, counts>> /\ Saves(h, c)
  BY DEF TopsUp, Settled
<1>3. doubt' \in BOOLEAN
  <2>1. doubt' = (doubt \/ \E g \in Deciding \ {h} : req[g].m = m)
    BY DEF TopsUp
  <2> QED
    BY <2>1, Zenon
<1>4. /\ sim \in [Users -> Sims] /\ SimsAre(sim, valid) /\ sim[w] \in Sims /\ deposit \in Nat
      /\ funded \in [Missions -> Nat] /\ Funds /\ Top \in Nat
  BY <1>1, Sizes DEF Safe, TypeOK, SimsPaid
<1> HIDE DEF c, w
<1>5. /\ deposit' \in Nat /\ deposit <= deposit' /\ funded' \in [Missions -> Nat] /\ Funds'
      /\ sim' \in [Users -> Sims] /\ SimsAre(sim', valid)
      /\ \A x \in Users : sim[x].bought => sim'[x].bought
  <2>1. CASE ~req[h].copy.sim
    <3>1. UNCHANGED <<funded, deposit, sim, valid>>
      BY <1>2, <2>1 DEF TopsUp, payments
    <3> QED
      BY <1>4, <3>1 DEF Funds
  <2>2. CASE req[h].copy.sim
    <3>1. /\ funded' = [funded EXCEPT ![m] = @ + 1]
          /\ deposit' = deposit \/ deposit' = deposit + Top
          /\ \E on \in {sim[w].on, ~sim[w].refund} : sim' = [sim EXCEPT ![w].on = on]
      BY <2>2 DEF TopsUp, w
    <3>2. deposit' \in Nat /\ deposit <= deposit' /\ funded' \in [Missions -> Nat]
      BY <1>1, <1>4, <3>1
    <3>3. Funds'
      <4>1. \A n \in Missions : n # m => funded'[n] = funded[n]
        BY <1>4, <3>1
      <4>2. UNCHANGED valid
        BY <1>2 DEF payments
      <4> QED
        BY <1>1, <1>4, <4>1, <4>2 DEF Funds
    <3>4. PICK on \in {sim[w].on, ~sim[w].refund} : sim' = [sim EXCEPT ![w].on = on]
      BY <3>1
    <3>5. on \in BOOLEAN /\ sim[w].refund \in BOOLEAN /\ (on => ~sim[w].refund)
      BY <1>1, <1>4, <3>4 DEF Sims, SimsAre
    <3>6. sim' = [sim EXCEPT ![w].on = on, ![w].refund = sim[w].refund]
      BY <1>1, <1>4, <3>4 DEF Sims
    <3>7. /\ sim' \in [Users -> Sims] /\ SimsAre(sim', valid)
          /\ \A x \in Users : sim[x].bought => sim'[x].bought
      BY <1>1, <2>2, <3>5, <3>6, SimSwitched
    <3> QED
      BY <3>2, <3>3, <3>7
  <2> QED
    BY <2>1, <2>2
<1>6. c \in Records /\ c.budget = BudgetOf(c) /\ Real(m, c, sim', valid, used) /\ c.top = "settled"
  BY <1>1, <1>5, SettledIsFine DEF c
<1> QED
  BY <1>1, <1>2, <1>3, <1>5, <1>6, SimSaved

LEMMA ProviderFailsSafe ==
  ASSUME Safe, NEW h \in Handlers, ProviderFails(h)
  PROVE  Safe'
<1>1. /\ Ends(h) /\ UNCHANGED <<Others, payments, born, ops>> /\ doubt' \in BOOLEAN /\ Fault
  BY DEF ProviderFails, Others, outside, Safe, TypeOK
<1> QED
  BY <1>1, EndsSafe

LEMMA TrafficRecordedSafe ==
  ASSUME Safe, NEW h \in Handlers, TrafficRecorded(h)
  PROVE  Safe'
<1> DEFINE m == req[h].m
           b == req[h].bytes
           k == req[h].copy
           r == Recorded(m, b)
           q == [req[h] EXCEPT !.pc = "voucher", !.read = r.sum]
<1>1. /\ m \in Missions /\ k \in Records /\ Real(m, k, sim, valid, used) /\ k.budget = BudgetOf(k)
      /\ req[h].pc = "call" /\ req[h].op = "traffic" /\ Fine(req[h], sim, valid, used, high)
  BY InHand DEF TrafficRecorded, At
<1>2. /\ used \in [Missions -> 0..MaxBytes] /\ high \in [Missions -> 0..MaxBytes]
      /\ req[h] \in Requests /\ req \in [Handlers -> Requests] /\ meter \in [Missions -> Counters]
  BY DEF Safe, TypeOK
<1>3. /\ used[m] + b <= MaxBytes /\ used' = [used EXCEPT ![m] = @ + b]
      /\ meter' = [meter EXCEPT ![m] = [r EXCEPT !.deposit = k.budget]]
      /\ req' = [req EXCEPT ![h].pc = "voucher", ![h].read = r.sum]
      /\ UNCHANGED <<disk, high, sim, agent, deposit, funded, valid, told, doubt, born, ops, faults>>
  BY DEF TrafficRecorded, outside, payments, counts
<1>4. b \in Nat /\ used[m] \in Nat /\ k.bytes \in Nat /\ k.budget \in 0..(Budget + MaxOps * Top)
      /\ high[m] \in Nat /\ MaxBytes \in Nat
  <2>1. b \in Bursts \cup {0}
    BY <1>2 DEF Requests
  <2>2. MaxBytes \in Nat /\ \A x \in Bursts \cup {0} : x \in Nat
    BY Sizes
  <2>3. k.bytes \in 0..MaxBytes /\ k.budget \in 0..(Budget + MaxOps * Top)
    BY <1>1 DEF Records
  <2> HIDE DEF k, b, m
  <2> QED
    BY <1>1, <1>2, <2>1, <2>2, <2>3
<1>5. meter[m] \in Counters /\ meter[m].sum \in Nat /\ meter[m].paid \in Nat
      /\ meter[m].sum <= used[m] /\ meter[m].paid <= high[m] /\ meter[m].paid <= used[m]
      /\ meter[m].on \in BOOLEAN
      /\ (meter[m].on => meter[m].sum <= meter[m].paid + Quota)
  <2>1. meter[m] \in Counters
    BY <1>1, <1>2
  <2>2. meter[m].sum \in 0..MaxBytes /\ meter[m].paid \in 0..MaxBytes /\ meter[m].on \in BOOLEAN
    BY <2>1 DEF Counters
  <2> HIDE DEF m
  <2> QED
    BY <1>1, <1>4, <2>1, <2>2 DEF Safe, Meters
<1>6. /\ r \in Counters /\ r.sum \in Nat /\ r.sum <= used[m] + b /\ r.paid = meter[m].paid
      /\ r.on => r.sum <= r.paid + Quota
  <2> HIDE DEF b, m
  <2>1. CASE meter[m].on
    <3>1. r = [meter[m] EXCEPT !.sum = @ + b, !.on = meter[m].sum + b <= meter[m].paid + Quota]
      BY <2>1 DEF Recorded
    <3>2. meter[m].sum + b \in 0..MaxBytes
      BY <1>3, <1>4, <1>5 DEF b, m
    <3>3. r.sum = meter[m].sum + b /\ r.paid = meter[m].paid
          /\ (r.on <=> meter[m].sum + b <= meter[m].paid + Quota)
      BY <1>5, <3>1 DEF Counters
    <3>4. r \in Counters
      <4>1. (meter[m].sum + b <= meter[m].paid + Quota) \in BOOLEAN
        OBVIOUS
      <4> QED
        BY <1>5, <3>1, <3>2, <4>1 DEF Counters
    <3> HIDE DEF r
    <3> QED
      BY <1>4, <1>5, <3>2, <3>3, <3>4
  <2>2. CASE ~meter[m].on
    <3>1. r = meter[m]
      BY <2>2 DEF Recorded
    <3> HIDE DEF r
    <3> QED
      BY <1>4, <1>5, <2>2, <3>1
  <2> QED
    BY <2>1, <2>2
<1>7. k.budget <= Pays(m, valid) /\ k.budget \in Nat
  <2>1. k.top = "settled" => <<m, "topup", m>> \in valid
    BY <1>1 DEF Real
  <2> HIDE DEF k, m
  <2> QED
    BY <1>1, <2>1, Sizes DEF BudgetOf, Pays
<1>8. q \in Requests /\ req' = [req EXCEPT ![h] = q]
  <2> HIDE DEF r
  <2>1. r.sum \in 0..MaxBytes
    BY <1>6 DEF Counters
  <2>2. q \in Requests
    BY <1>2, <2>1 DEF Requests
  <2> QED
    BY <1>2, <1>3, <2>2 DEF Requests
<1>9. q.pc = "voucher" /\ q.op = "traffic" /\ q.m = m /\ q.copy = k /\ q.file = req[h].file
      /\ q.bytes = b /\ q.read = r.sum /\ q.signed = req[h].signed
  BY <1>1, <1>2 DEF Requests
<1>10. ~q.signed
  <2> HIDE DEF q
  <2> QED
    BY <1>1, <1>9 DEF Fine
<1> HIDE DEF q, r, k, m, b
<1>11. used' \in [Missions -> 0..MaxBytes] /\ used'[m] = used[m] + b
       /\ \A n \in Missions : n # m => used'[n] = used[n]
  <2>1. used[m] + b \in 0..MaxBytes
    BY <1>3, <1>4
  <2> QED
    BY <1>1, <1>2, <1>3, <2>1
<1>12. Grows(sim, valid, used, high, sim', valid', used', high')
  <2> SUFFICES ASSUME NEW n \in Missions PROVE used[n] <= used'[n] /\ high[n] <= high[n]
    BY <1>3 DEF Grows
  <2>1. used[n] \in Nat /\ high[n] \in Nat
    BY <1>2, Sizes
  <2> QED
    BY <1>4, <1>11, <2>1
<1>13. Fine(q, sim', valid', used', high')
  <2>1. Fine(req[h], sim', valid', used', high')
    BY <1>1, <1>2, <1>3, <1>11, <1>12, StepGrows DEF Safe
  <2>2. Real(m, k, sim', valid', used')
    BY <1>1, <1>2, <1>3, <1>11, <1>12, StepGrows DEF Safe
  <2>3. r.sum <= used'[m] /\ k.bytes + b <= used'[m]
    BY <1>1, <1>4, <1>6, <1>11 DEF Real
  <2>4. MaxOps # 0
    BY <1>1 DEF Fine
  <2> QED
    BY <1>1, <1>9, <1>10, <2>1, <2>2, <2>3, <2>4 DEF Fine, BudgetOf
<1>14. AllFine' /\ req' \in [Handlers -> Requests]
  <2>1. high' \in [Missions -> 0..MaxBytes]
    BY <1>2, <1>3
  <2> QED
    BY <1>8, <1>11, <1>12, <1>13, <2>1, Moves DEF Safe
<1>15. DiskReal'
  BY <1>2, <1>3, <1>11, <1>12, StepGrows DEF Safe
<1>16. SimsPaid' /\ OneChannel' /\ Funds'
  BY <1>3 DEF Safe, SimsPaid, OneChannel, Funds
<1> DEFINE d == [r EXCEPT !.deposit = k.budget]
<1>17. d \in Counters /\ d.sum = r.sum /\ d.paid = r.paid /\ d.on = r.on /\ d.deposit = k.budget
  BY <1>4, <1>6 DEF Counters
<1> HIDE DEF d
<1>18. meter' \in [Missions -> Counters] /\ meter'[m] = d /\ \A n \in Missions : n # m => meter'[n] = meter[n]
  BY <1>1, <1>2, <1>3, <1>17 DEF d
<1>19. TypeOK'
  BY <1>3, <1>11, <1>14, <1>18 DEF Safe, TypeOK
<1>20. Meters'
  <2> SUFFICES ASSUME NEW n \in Missions
               PROVE  /\ meter'[n].paid <= high[n] /\ meter'[n].paid <= used'[n]
                      /\ Covers(n, high[n], agent, deposit, valid, used')
                      /\ meter'[n].sum <= used'[n] /\ meter'[n].deposit <= Pays(n, valid)
                      /\ meter'[n].on => meter'[n].sum <= meter'[n].paid + Quota
    BY <1>3 DEF Meters
  <2>1. Covers(n, high[n], agent, deposit, valid, used')
    <3>1. \A x \in Missions : used[x] <= used'[x]
      BY <1>12 DEF Grows
    <3>2. high[n] \in Nat /\ deposit \in Nat /\ Covers(n, high[n], agent, deposit, valid, used)
      BY <1>2, Sizes DEF Safe, TypeOK, Meters
    <3>3. deposit <= deposit
      BY <3>2
    <3> QED
      BY <1>2, <1>11, <3>1, <3>2, <3>3, CoversGrows
  <2>2. CASE n = m
    <3>1. meter[m].paid <= used'[m]
      BY <1>4, <1>5, <1>11
    <3>2. d.paid <= high[m] /\ d.paid <= used'[m] /\ d.sum <= used'[m] /\ d.deposit <= Pays(m, valid)
          /\ (d.on => d.sum <= d.paid + Quota)
      BY <1>5, <1>6, <1>7, <1>11, <1>17, <3>1
    <3> QED
      BY <1>18, <2>1, <2>2, <3>2
  <2>3. CASE n # m
    BY <1>11, <1>18, <2>1, <2>3 DEF Safe, Meters
  <2> QED
    BY <2>2, <2>3
<1> QED
  BY <1>14, <1>15, <1>16, <1>19, <1>20 DEF Safe

\* What a request that has asked for its voucher knows.
LEMMA Read ==
  ASSUME Safe, NEW h \in Handlers, req[h].pc \in {"voucher", "policy"}
  PROVE  LET m == req[h].m  IN
         /\ m \in Missions /\ req[h] \in Requests /\ Fine(req[h], sim, valid, used, high)
         /\ req[h].read \in 0..MaxBytes /\ req[h].read <= used[m] /\ req[h].op = "traffic"
         /\ req[h].signed => req[h].read <= high[m]
         /\ used[m] \in Nat /\ high[m] \in Nat /\ req[h].read \in Nat
<1> DEFINE m == req[h].m
<1>1. m \in Missions /\ Fine(req[h], sim, valid, used, high)
  BY InHand
<1>2. req[h] \in Requests /\ used[m] \in 0..MaxBytes /\ high[m] \in 0..MaxBytes
  BY <1>1 DEF Safe, TypeOK
<1>3. req[h].read \in 0..MaxBytes
  BY <1>2 DEF Requests
<1> QED
  BY <1>1, <1>2, <1>3, Sizes DEF Fine

LEMMA VoucherAskedSafe ==
  ASSUME Safe, NEW h \in Handlers, VoucherAsked(h)
  PROVE  Safe'
<1> DEFINE m == req[h].m
           x == req[h].read
<1>1. /\ m \in Missions /\ req[h] \in Requests /\ Fine(req[h], sim, valid, used, high)
      /\ x \in 0..MaxBytes /\ x <= used[m] /\ used[m] \in Nat /\ high[m] \in Nat /\ x \in Nat
      /\ req[h].pc = "voucher" /\ req[h].op = "traffic"
  BY Read DEF VoucherAsked, At
<1>2. /\ UNCHANGED <<disk, meter, sim, used, payments, born, ops, faults, agent, deposit, funded>>
      /\ doubt' = doubt /\ UNCHANGED <<valid, told>>
  BY DEF VoucherAsked, payments, counts, chain
<1>3. /\ req \in [Handlers -> Requests] /\ high \in [Missions -> 0..MaxBytes]
      /\ used \in [Missions -> 0..MaxBytes] /\ doubt \in BOOLEAN /\ agent \in BOOLEAN
  BY DEF Safe, TypeOK
<1> HIDE DEF m, x
<1>4. CASE /\ high[m] <= x /\ (high[m] < x => x <= Deposit(m))
           /\ high' = [n \in Missions |-> IF agent \/ n = m THEN x ELSE high[n]]
           /\ req' = [req EXCEPT ![h].pc = "policy", ![h].signed = TRUE]
  <2> DEFINE q == [req[h] EXCEPT !.pc = "policy", !.signed = TRUE]
  <2>1. q \in Requests /\ req' = [req EXCEPT ![h] = q]
    BY <1>1, <1>3, <1>4 DEF Requests
  <2>2. q.pc = "policy" /\ q.op = "traffic" /\ q.m = m /\ q.copy = req[h].copy /\ q.file = req[h].file
        /\ q.bytes = req[h].bytes /\ q.read = x
    BY <1>1 DEF Requests, m, x
  <2> HIDE DEF q
  <2>3. high' \in [Missions -> 0..MaxBytes] /\ high'[m] = x
        /\ \A n \in Missions : high'[n] = IF agent \/ n = m THEN x ELSE high[n]
    BY <1>1, <1>3, <1>4
  <2>4. \A n \in Missions : high[n] \in Nat /\ high[n] <= high'[n]
    <3> SUFFICES ASSUME NEW n \in Missions PROVE high[n] \in Nat /\ high[n] <= high'[n]
      OBVIOUS
    <3>1. high[n] \in Nat
      BY <1>3, Sizes
    <3>2. agent => high[n] = high[m]
      BY <1>1 DEF Safe, OneChannel
    <3> QED
      BY <1>4, <2>3, <3>1, <3>2
  <2>5. Grows(sim, valid, used, high, sim', valid', used', high')
    <3>1. \A n \in Missions : used[n] <= used[n]
      BY <1>3, Sizes
    <3> QED
      BY <1>2, <2>4, <3>1 DEF Grows
  <2>6. Fine(req[h], sim', valid', used', high')
    BY <1>1, <1>2, <1>3, <2>3, <2>5, StepGrows DEF Safe
  <2>7. x <= high'[m]
    BY <1>1, <2>3
  <2>8. Fine(q, sim', valid', used', high')
    BY <1>1, <2>2, <2>6, <2>7 DEF Fine, m, x
  <2>9. AllFine' /\ req' \in [Handlers -> Requests]
    BY <1>2, <1>3, <2>1, <2>3, <2>5, <2>8, Moves DEF Safe
  <2>10. DiskReal'
    BY <1>2, <1>3, <2>3, <2>5, StepGrows DEF Safe
  <2>11. TypeOK'
    BY <1>2, <1>3, <2>3, <2>9 DEF Safe, TypeOK
  <2>12. SimsPaid' /\ Funds' /\ OneChannel'
    BY <1>2, <2>3 DEF Safe, SimsPaid, Funds, OneChannel
  <2>13. Covers(m, x, agent, deposit, valid, used)
    <3>1. /\ Covers(m, high[m], agent, deposit, valid, used) /\ meter[m].deposit <= Pays(m, valid)
      BY <1>1 DEF Safe, Meters
    <3>2. meter[m] \in Counters /\ Pays(m, valid) \in Nat /\ deposit \in Nat
      BY <1>1, Sizes DEF Safe, TypeOK, Pays
    <3>3. meter[m].deposit \in Nat
      BY <3>2, Sizes DEF Counters
    <3>4. CASE agent
      <4>1. high[m] <= deposit /\ Deposit(m) = deposit
        BY <3>1, <3>4 DEF Covers, Deposit
      <4>2. x <= deposit
        BY <1>1, <1>4, <3>2, <4>1
      <4> QED
        BY <1>1, <3>4, <4>2 DEF Covers
    <3>5. CASE ~agent
      <4>1. high[m] <= Pays(m, valid) /\ Deposit(m) = meter[m].deposit
        BY <3>1, <3>5 DEF Covers, Deposit
      <4>2. x <= Pays(m, valid)
        BY <1>1, <1>4, <3>1, <3>2, <3>3, <4>1
      <4> QED
        BY <1>1, <3>5, <4>2 DEF Covers
    <3> QED
      BY <3>4, <3>5
  <2>14. Meters'
    <3> SUFFICES ASSUME NEW n \in Missions
                 PROVE  /\ meter[n].paid <= high'[n] /\ Covers(n, high'[n], agent, deposit, valid, used)
      BY <1>2 DEF Safe, Meters
    <3>1. meter[n].paid <= high[n] /\ Covers(n, high[n], agent, deposit, valid, used)
      BY DEF Safe, Meters
    <3>2. meter[n] \in Counters
      BY DEF Safe, TypeOK
    <3>3. meter[n].paid \in Nat /\ high'[n] \in Nat
      BY <2>3, <3>2, Sizes DEF Counters
    <3>4. meter[n].paid <= high'[n]
      BY <2>4, <3>1, <3>3
    <3>5. agent => Covers(n, x, agent, deposit, valid, used)
      BY <2>13 DEF Covers
    <3> QED
      BY <2>3, <2>13, <3>1, <3>4, <3>5
  <2> QED
    BY <2>9, <2>10, <2>11, <2>12, <2>14 DEF Safe
<1>5. CASE req' = [req EXCEPT ![h].pc = "policy"] /\ UNCHANGED high
  <2> DEFINE q == [req[h] EXCEPT !.pc = "policy"]
  <2>1. q \in Requests /\ req' = [req EXCEPT ![h] = q]
    BY <1>1, <1>3, <1>5 DEF Requests
  <2>2. q.pc = "policy" /\ q.op = "traffic" /\ q.m = m /\ q.copy = req[h].copy /\ q.file = req[h].file
        /\ q.bytes = req[h].bytes /\ q.read = x /\ q.signed = req[h].signed
    BY <1>1 DEF Requests, m, x
  <2> HIDE DEF q
  <2>3. Fine(q, sim, valid, used, high)
    BY <1>1, <2>2 DEF Fine, m, x
  <2> QED
    BY <1>2, <1>3, <1>5, <2>1, <2>3, Alone DEF Others
<1> QED
  BY <1>4, <1>5 DEF VoucherAsked, m, x

LEMMA CountedIsReal ==
  ASSUME Safe, NEW h \in Handlers, req[h].pc = "policy", NEW suspend \in BOOLEAN
  PROVE  LET c == Counted(h, suspend)  IN
         /\ c \in Records /\ c.budget = BudgetOf(c)
         /\ \A s : (req[h].copy.sim => s[UserOf[req[h].m]].bought) => Real(req[h].m, c, s, valid, used)
<1> DEFINE m == req[h].m
           k == req[h].copy
           b == req[h].bytes
           c == Counted(h, suspend)
           d == [k EXCEPT !.bytes = @ + b]
<1>1. /\ m \in Missions /\ k \in Records /\ Real(m, k, sim, valid, used) /\ k.budget = BudgetOf(k)
      /\ req[h] \in Requests /\ k.bytes + b <= used[m]
  BY InHand, Read DEF Fine
<1>2. k.bytes \in Nat /\ b \in Nat /\ used[m] \in 0..MaxBytes /\ MaxBytes \in Nat
  <2>1. k.bytes \in 0..MaxBytes /\ b \in Bursts \cup {0}
    BY <1>1 DEF Records, Requests
  <2>2. MaxBytes \in Nat /\ \A y \in Bursts \cup {0} : y \in Nat
    BY Sizes
  <2> HIDE DEF k, b, m
  <2> QED
    BY <1>1, <2>1, <2>2 DEF Safe, TypeOK
<1>3. k.bytes + b \in 0..MaxBytes
  <2> HIDE DEF k, b, m
  <2> QED
    BY <1>1, <1>2
<1>4. d \in Records /\ d.bytes = k.bytes + b /\ d.sim = k.sim /\ d.pay = k.pay /\ d.top = k.top
      /\ d.budget = k.budget
  BY <1>1, <1>3 DEF Records
<1>5. c = [d EXCEPT !.status = IF suspend \/ d.bytes >= d.budget THEN "paused" ELSE @]
  BY DEF Counted
<1> HIDE DEF d, k, m, b, c
<1>6. c \in Records /\ c.bytes = k.bytes + b /\ c.sim = k.sim /\ c.pay = k.pay /\ c.top = k.top
      /\ c.budget = k.budget
  <2>1. CASE c = [d EXCEPT !.status = "paused"]
    BY <1>4, <2>1 DEF Records
  <2>2. CASE c = [d EXCEPT !.status = @]
    BY <1>4, <2>2 DEF Records
  <2> QED
    BY <1>5, <2>1, <2>2
<1>7. c.budget = BudgetOf(c)
  BY <1>1, <1>6 DEF BudgetOf
<1>8. ASSUME NEW s, k.sim => s[UserOf[m]].bought PROVE Real(m, c, s, valid, used)
  BY <1>1, <1>6, <1>7, <1>8 DEF Real, BudgetOf
<1> QED
  BY <1>6, <1>7, <1>8 DEF c, k, m

LEMMA PolicySuspendsSafe ==
  ASSUME Safe, NEW h \in Handlers, PolicySuspends(h)
  PROVE  Safe'
<1>1. req[h].pc = "policy" /\ req[h].op = "traffic"
  BY DEF PolicySuspends, At
<1>2. UNCHANGED <<disk, meter, high, agent, deposit, funded, payments, used, doubt, born, ops>>
  BY DEF PolicySuspends, chain
<1>3. CASE SetData(h, FALSE) /\ Saves(h, Counted(h, TRUE)) /\ UNCHANGED faults
  <2> DEFINE c == Counted(h, TRUE)
  <2>1. /\ sim' \in [Users -> Sims] /\ SimsAre(sim', valid)
        /\ \A w \in Users : sim[w].bought => sim'[w].bought
    BY <1>1, <1>3, DataSet
  <2>2. /\ req[h].m \in Missions /\ UserOf[req[h].m] \in Users
        /\ (req[h].copy.sim => sim[UserOf[req[h].m]].bought)
    BY <1>1, InHand, Sizes DEF Real
  <2>3. c \in Records /\ c.budget = BudgetOf(c) /\ Real(req[h].m, c, sim', valid, used)
    BY <1>1, <2>1, <2>2, CountedIsReal
  <2> HIDE DEF c
  <2>4. Saves(h, c) /\ UNCHANGED counts
    BY <1>2, <1>3 DEF c, counts
  <2>5. /\ doubt' \in BOOLEAN /\ deposit' \in Nat /\ deposit <= deposit'
        /\ funded' \in [Missions -> Nat] /\ Funds'
    BY <1>2 DEF Safe, TypeOK, Funds, payments
  <2> QED
    BY <1>1, <1>2, <2>1, <2>3, <2>4, <2>5, SimSaved
<1>4. CASE Ends(h) /\ UNCHANGED sim /\ Fault
  <2>1. UNCHANGED Others /\ doubt' \in BOOLEAN
    BY <1>2, <1>4 DEF Others, Safe, TypeOK
  <2> QED
    BY <1>2, <1>4, <2>1, EndsSafe
<1> QED
  BY <1>3, <1>4 DEF PolicySuspends

LEMMA PolicyPassesSafe ==
  ASSUME Safe, NEW h \in Handlers, PolicyPasses(h)
  PROVE  Safe'
<1> DEFINE m == req[h].m
           x == req[h].read
           c == Counted(h, FALSE)
<1>1. /\ m \in Missions /\ req[h] \in Requests /\ Fine(req[h], sim, valid, used, high)
      /\ x \in 0..MaxBytes /\ x <= used[m] /\ used[m] \in Nat /\ high[m] \in Nat /\ x \in Nat
      /\ req[h].pc = "policy" /\ req[h].op = "traffic"
      /\ req[h].signed => x <= high[m]
  BY Read DEF PolicyPasses, At
<1>2. /\ UNCHANGED <<disk, high, sim, agent, deposit, funded, valid, told, used, doubt, born, ops, faults>>
      /\ Saves(h, c)
  BY DEF PolicyPasses, outside, payments, counts
<1>3. c \in Records /\ c.budget = BudgetOf(c) /\ Real(m, c, sim, valid, used)
  <2>1. req[h].copy.sim => sim[UserOf[m]].bought
    BY <1>1, InHand DEF Real
  <2> QED
    BY <1>1, <2>1, CountedIsReal
<1> HIDE DEF c
<1>4. /\ Saving(h, c) \in Requests /\ req' = [req EXCEPT ![h] = Saving(h, c)]
      /\ Fine(Saving(h, c), sim, valid, used, high)
  BY <1>1, <1>2, <1>3, SavingIsFine DEF Safe
<1> HIDE DEF m, x
<1>5. /\ used \in [Missions -> 0..MaxBytes] /\ high \in [Missions -> 0..MaxBytes]
      /\ meter \in [Missions -> Counters]
  BY DEF Safe, TypeOK
<1>6. \A n \in Missions : used[n] <= used[n] /\ high[n] <= high[n]
  BY <1>5, Sizes
<1>7. Grows(sim, valid, used, high, sim', valid', used', high')
  BY <1>2, <1>6 DEF Grows
<1>8. AllFine' /\ req' \in [Handlers -> Requests]
  BY <1>2, <1>4, <1>5, <1>7, Moves DEF Safe
<1>9. DiskReal' /\ SimsPaid' /\ OneChannel' /\ Funds'
  BY <1>2 DEF Safe, DiskReal, SimsPaid, OneChannel, Funds
<1>11. CASE req[h].signed /\ x >= meter[m].sum /\ meter' = [meter EXCEPT ![m].paid = x, ![m].on = TRUE]
  <2> DEFINE d == [meter[m] EXCEPT !.paid = x, !.on = TRUE]
  <2>1. meter[m] \in Counters
    BY <1>1, <1>5
  <2>2. d \in Counters /\ d.paid = x /\ d.sum = meter[m].sum /\ d.deposit = meter[m].deposit
    BY <1>1, <2>1 DEF Counters
  <2>3. meter' = [meter EXCEPT ![m] = d]
    BY <1>11
  <2> HIDE DEF d
  <2>4. meter' \in [Missions -> Counters] /\ meter'[m] = d /\ \A n \in Missions : n # m => meter'[n] = meter[n]
    BY <1>1, <1>5, <2>2, <2>3
  <2>5. meter[m].sum \in 0..MaxBytes
    BY <2>1 DEF Counters
  <2>6. meter[m].sum <= x + Quota
    <3>1. Quota \in Nat /\ meter[m].sum \in Nat
      BY <2>5, Sizes
    <3> QED
      BY <1>1, <1>11, <3>1
  <2>7. Meters'
    <3> SUFFICES ASSUME NEW n \in Missions
                 PROVE  /\ meter'[n].paid <= high[n] /\ meter'[n].paid <= used[n]
                        /\ meter'[n].sum <= used[n] /\ meter'[n].deposit <= Pays(n, valid)
                        /\ meter'[n].on => meter'[n].sum <= meter'[n].paid + Quota
      BY <1>2 DEF Safe, Meters
    <3>1. CASE n = m
      BY <1>1, <1>11, <2>2, <2>4, <2>6, <3>1 DEF Safe, Meters
    <3>2. CASE n # m
      BY <2>4, <3>2 DEF Safe, Meters
    <3> QED
      BY <3>1, <3>2
  <2>8. TypeOK'
    BY <1>2, <1>8, <2>4 DEF Safe, TypeOK
  <2> QED
    BY <1>8, <1>9, <2>7, <2>8 DEF Safe
<1>12. CASE UNCHANGED meter
  <2>1. TypeOK'
    BY <1>2, <1>8, <1>12 DEF Safe, TypeOK
  <2>2. Meters'
    BY <1>2, <1>12 DEF Safe, Meters
  <2> QED
    BY <1>8, <1>9, <2>1, <2>2 DEF Safe
<1> QED
  BY <1>11, <1>12 DEF PolicyPasses, m, x

LEMMA StepSafe == Safe /\ [Next]_vars => Safe'
<1> SUFFICES ASSUME Safe, [Next]_vars PROVE Safe'
  OBVIOUS
<1>1. CASE UNCHANGED vars
  BY <1>1
  DEF vars, Safe, TypeOK, DiskReal, AllFine, SimsPaid, Meters, OneChannel, Funds
<1>2. CASE Restarts
  BY <1>2, RestartsSafe
<1>3. ASSUME NEW h \in Handlers, NEW op \in Operations, NEW m \in Missions, NEW b \in Bursts \cup {0},
             Arrives(h, op, m, b)
      PROVE  Safe'
  BY <1>3, ArrivesSafe
<1>4. ASSUME NEW h \in Handlers,
             \/ Finds(h) \/ SaveReads(h) \/ ReadFails(h) \/ SaveWrites(h)
             \/ PaymentIntent(h) \/ Confirms(h) \/ TopUpIntent(h) \/ TopUpConfirms(h) \/ TopsUp(h)
             \/ ProviderFails(h) \/ Activates(h) \/ Pauses(h) \/ Resumes(h) \/ Finishes(h)
             \/ TrafficRecorded(h) \/ VoucherAsked(h) \/ PolicySuspends(h) \/ PolicyPasses(h)
      PROVE  Safe'
  BY <1>4, FindsSafe, SaveReadsSafe, SaveWritesSafe, SavesSafe, ConfirmsSafe, TopUpConfirmsSafe,
     TopsUpSafe, ProviderFailsSafe, SimSafe, TrafficRecordedSafe, VoucherAskedSafe, PolicySuspendsSafe,
     PolicyPassesSafe
<1> QED
  BY <1>1, <1>2, <1>3, <1>4 DEF Next

----------------------------------------------------------------------------
(* What clients were told, and what was funded *)

\* What a record says of what the client was told.
Told(m, c, t) ==
  /\ <<m, "mission">> \in t => c.pay = "paid"
  /\ <<m, "topup">> \in t => c.top = "settled"

\* A copy that knows of the payments the file's record knows of.
Knows(c, d) == (d.pay = "paid" => c.pay = "paid") /\ (d.top = "settled" => c.top = "settled")

\* A confirmation that has topped up the channel and the eSIM and has yet to save it.
InFunding(q, m) == q.op = "confirm_topup" /\ q.m = m /\ q.pc \in {"save", "write"}

\* A mission is born before anything is said of it.
Births ==
  /\ \A m \in Missions, kind \in Kinds : <<m, kind>> \in told => m \in born
  /\ \A h \in Handlers : req[h].pc # "off" => req[h].m \in born
\* What was funded once is settled in the file, or about to be saved so.
Once(m) ==
  /\ funded[m] <= 1
  /\ funded[m] > 0 => disk[m].top = "settled" \/ \E h \in Handlers : InFunding(req[h], m)
\* Without doubt every copy past its find() knows what the file does, and the file knows
\* what was told.
Kept ==
  ~doubt =>
    /\ \A m \in Missions : Told(m, disk[m], told) /\ Once(m) /\ (m \notin born => disk[m] = Absent)
    /\ \A h \in Handlers :
         /\ req[h].pc \notin {"off", "find"} => Knows(req[h].copy, disk[req[h].m])
         /\ req[h].pc = "write" => req[h].file = disk

\* A handler goes on and the file stays: more may have been told, or funded.
LEMMA KeptMoves ==
  ASSUME Safe, Births, Kept, NEW h \in Handlers, NEW q, req' = [req EXCEPT ![h] = q],
         UNCHANGED disk, doubt => doubt', born \subseteq born',
         \A m \in Missions, kind \in Kinds : <<m, kind>> \in told' => <<m, kind>> \in told \/ m \in born,
         q.pc # "off" => q.m \in born',
         ~doubt' => \A m \in Missions : Told(m, disk[m], told'),
         ~doubt' => \A m \in Missions :
                      /\ funded'[m] <= 1
                      /\ funded'[m] > 0 => \/ disk[m].top = "settled" \/ InFunding(q, m)
                                           \/ \E g \in Handlers \ {h} : InFunding(req[g], m),
         ~doubt' /\ q.pc \notin {"off", "find"} => Knows(q.copy, disk[q.m]),
         ~doubt' /\ q.pc = "write" => q.file = disk
  PROVE  Births' /\ Kept'
<1>1. req \in [Handlers -> Requests]
  BY DEF Safe, TypeOK
<1>2. \A g \in Handlers : req'[g] = IF g = h THEN q ELSE req[g]
  BY <1>1
<1>3. Births'
  <2>1. \A m \in Missions, kind \in Kinds : <<m, kind>> \in told' => m \in born'
    BY DEF Births
  <2>2. \A g \in Handlers : req'[g].pc # "off" => req'[g].m \in born'
    BY <1>2 DEF Births
  <2> QED
    BY <2>1, <2>2 DEF Births
<1>4. ASSUME ~doubt'
      PROVE  \A g \in Handlers :
               /\ req'[g].pc \notin {"off", "find"} => Knows(req'[g].copy, disk[req'[g].m])
               /\ req'[g].pc = "write" => req'[g].file = disk
  BY <1>2, <1>4 DEF Kept
<1>5. ASSUME ~doubt', NEW m \in Missions
      PROVE  /\ Told(m, disk[m], told') /\ (m \notin born' => disk[m] = Absent)
             /\ Once(m)'
  <2>1. m \notin born' => disk[m] = Absent
    BY <1>5 DEF Kept
  <2>2. ASSUME funded'[m] > 0, disk[m].top # "settled"
        PROVE  \E g \in Handlers : InFunding(req'[g], m)
    <3>1. InFunding(q, m) \/ \E g \in Handlers \ {h} : InFunding(req[g], m)
      BY <1>5, <2>2
    <3> QED
      BY <1>2, <3>1
  <2>3. funded'[m] <= 1
    BY <1>5
  <2> QED
    BY <1>5, <2>1, <2>2, <2>3 DEF Once
<1> QED
  BY <1>3, <1>4, <1>5 DEF Kept

\* A handler that funds nothing goes on, and tells nothing.
LEMMA KeptGoesOn ==
  ASSUME Safe, Births, Kept, NEW h \in Handlers, NEW q, req' = [req EXCEPT ![h] = q],
         UNCHANGED <<disk, told, funded>>, doubt => doubt', born \subseteq born',
         q.pc # "off" => q.m \in born',
         ~doubt' => \A m \in Missions : InFunding(req[h], m) => InFunding(q, m),
         ~doubt' /\ q.pc \notin {"off", "find"} => Knows(q.copy, disk[q.m]),
         ~doubt' /\ q.pc = "write" => q.file = disk
  PROVE  Births' /\ Kept'
<1>1. \A m \in Missions, kind \in Kinds : <<m, kind>> \in told' => <<m, kind>> \in told \/ m \in born
  OBVIOUS
<1>2. ASSUME ~doubt' PROVE \A m \in Missions : Told(m, disk[m], told')
  BY <1>2 DEF Kept
<1>3. ASSUME ~doubt', NEW m \in Missions
      PROVE  /\ funded'[m] <= 1
             /\ funded'[m] > 0 => \/ disk[m].top = "settled" \/ InFunding(q, m)
                                  \/ \E g \in Handlers \ {h} : InFunding(req[g], m)
  <2>1. Once(m)
    BY <1>3 DEF Kept
  <2>2. \A n \in Missions : InFunding(req[h], n) => InFunding(q, n)
    BY <1>3
  <2> QED
    BY <2>1, <2>2 DEF Once
<1> QED
  BY <1>1, <1>2, <1>3, KeptMoves

LEMMA KeptEnds ==
  ASSUME Safe, Births, Kept, NEW h \in Handlers, Ends(h), UNCHANGED <<disk, told, funded, born>>,
         doubt => doubt', req[h].pc \notin {"save", "write"}
  PROVE  Births' /\ Kept'
<1>1. Idle.pc = "off"
  BY DEF Idle
<1>2. \A m \in Missions : ~InFunding(req[h], m)
  BY DEF InFunding
<1> QED
  BY <1>1, <1>2, KeptGoesOn DEF Ends

\* The copy to be saved knows of the payments it knew of when it was read.
LEMMA KeptSaves ==
  ASSUME Safe, Births, Kept, NEW h \in Handlers, req[h].pc \in {"call", "policy"},
         NEW c \in Records, Saves(h, c), UNCHANGED <<disk, told, funded, born, doubt>>,
         \/ c.pay = req[h].copy.pay
         \/ c.pay = "paid"
         \/ req[h].copy.pay # "paid",
         \/ c.top = req[h].copy.top
         \/ c.top = "settled"
         \/ req[h].copy.top # "settled"
  PROVE  Births' /\ Kept'
<1> DEFINE q == [req[h] EXCEPT !.pc = "save", !.copy = c]
<1>1. req[h] \in Requests /\ req \in [Handlers -> Requests]
  BY DEF Safe, TypeOK
<1>2. req' = [req EXCEPT ![h] = q]
  BY <1>1 DEF Saves, Requests
<1>3. q.pc = "save" /\ q.copy = c /\ q.m = req[h].m
  BY <1>1 DEF Requests
<1>4. q.m \in born
  BY <1>3 DEF Births
<1> HIDE DEF q
<1>5. ASSUME ~doubt PROVE Knows(q.copy, disk[q.m])
  <2>1. Knows(req[h].copy, disk[req[h].m])
    BY <1>5 DEF Kept
  <2> QED
    BY <1>3, <2>1 DEF Knows
<1>6. \A m \in Missions : ~InFunding(req[h], m)
  BY DEF InFunding
<1> QED
  BY <1>2, <1>3, <1>4, <1>5, <1>6, KeptGoesOn

LEMMA KeptArrives ==
  ASSUME Safe, Births, Kept, NEW h \in Handlers, NEW op \in Operations, NEW m \in Missions,
         NEW b \in Bursts \cup {0}, Arrives(h, op, m, b)
  PROVE  Births' /\ Kept'
<1> DEFINE q == [Idle EXCEPT !.op = op, !.m = m, !.bytes = b,
                             !.pc = IF op = "create" THEN "save" ELSE "find",
                             !.copy = IF op = "create" THEN Created ELSE Absent]
<1>1. /\ req' = [req EXCEPT ![h] = q] /\ born' = born \cup {m}
      /\ UNCHANGED <<disk, told, funded, doubt>> /\ req[h].pc = "off"
  BY DEF Arrives, payments, outside
<1>2. q.m = m /\ q.pc = IF op = "create" THEN "save" ELSE "find"
  BY DEF Idle
<1> HIDE DEF q
<1>3. ASSUME ~doubt, op = "create" PROVE Knows(q.copy, disk[m])
  <2>1. m \notin born
    BY <1>3 DEF Arrives
  <2>2. disk[m] = Absent
    BY <1>3, <2>1 DEF Kept
  <2> QED
    BY <2>2 DEF Knows, Absent
<1>4. \A n \in Missions : ~InFunding(req[h], n)
  BY <1>1 DEF InFunding
<1> QED
  BY <1>1, <1>2, <1>3, <1>4, KeptGoesOn

\* What is answered of a record is what it says.
LEMMA AnswerSays ==
  ASSUME NEW op, NEW m, NEW c, NEW n, NEW kind, <<n, kind>> \in Answer(op, m, c)
  PROVE  /\ n = m
         /\ kind = "mission" => c.pay = "paid"
         /\ kind = "topup" => c.top = "settled"
BY DEF Answer

LEMMA KeptFinds ==
  ASSUME Safe, Births, Kept, NEW h \in Handlers, Finds(h)
  PROVE  Births' /\ Kept'
<1> DEFINE c == disk[req[h].m]
           m == req[h].m
<1>1. UNCHANGED <<disk, funded, born, doubt>> /\ req[h].pc = "find"
      /\ \A n \in Missions : ~InFunding(req[h], n)
  BY DEF Finds, outside, InFunding
<1>0. /\ req[h] \in Requests /\ req \in [Handlers -> Requests] /\ m \in Missions /\ m \in born
  BY DEF Safe, TypeOK, AllFine, Fine, Finds, Births
<1>2. CASE Ends(h) /\ told' = told \cup Answer(req[h].op, m, c)
  <2>1. \A n \in Missions, kind \in Kinds : <<n, kind>> \in told' => <<n, kind>> \in told \/ n \in born
    BY <1>0, <1>2, AnswerSays
  <2>2. ASSUME ~doubt', NEW n \in Missions PROVE Told(n, disk[n], told')
    <3>1. Told(n, disk[n], told)
      BY <1>1, <2>2 DEF Kept
    <3>2. \A kind \in Kinds : <<n, kind>> \in Answer(req[h].op, m, c) =>
            /\ kind = "mission" => disk[n].pay = "paid"
            /\ kind = "topup" => disk[n].top = "settled"
      BY AnswerSays
    <3> HIDE DEF c, m
    <3> QED
      BY <1>2, <3>1, <3>2 DEF Told, Kinds
  <2>3. ASSUME ~doubt', NEW n \in Missions
        PROVE  /\ funded'[n] <= 1
               /\ funded'[n] > 0 => \/ disk[n].top = "settled"
                                    \/ \E g \in Handlers \ {h} : InFunding(req[g], n)
    <3>1. Once(n)
      BY <1>1, <2>3 DEF Kept
    <3> QED
      BY <1>1, <3>1 DEF Once
  <2>4. Idle.pc = "off" /\ req' = [req EXCEPT ![h] = Idle]
    BY <1>2 DEF Idle, Ends
  <2> HIDE DEF c, m
  <2> QED
    BY <1>1, <2>1, <2>2, <2>3, <2>4, KeptMoves
<1>3. CASE req' = [req EXCEPT ![h].copy = c, ![h].pc = "call"] /\ UNCHANGED told
  <2> DEFINE q == [req[h] EXCEPT !.copy = c, !.pc = "call"]
  <2> HIDE DEF c
  <2>3. req' = [req EXCEPT ![h] = q]
    BY <1>0, <1>3 DEF Requests
  <2>4. q.m = m /\ q.copy = c /\ q.pc = "call"
    BY <1>0 DEF Requests
  <2> HIDE DEF q
  <2>5. Knows(q.copy, disk[q.m])
    BY <2>4 DEF Knows, c
  <2> QED
    BY <1>0, <1>1, <1>3, <2>3, <2>4, <2>5, KeptGoesOn
<1> QED
  BY <1>2, <1>3 DEF Finds

LEMMA KeptSaveReads ==
  ASSUME Safe, Births, Kept, NEW h \in Handlers, SaveReads(h) \/ ReadFails(h)
  PROVE  Births' /\ Kept'
<1>1. UNCHANGED <<disk, told, funded, born>>
  BY DEF SaveReads, ReadFails, payments, outside
<1>2. CASE Ends(h) /\ req[h].pc = "find" /\ UNCHANGED doubt
  BY <1>1, <1>2, KeptEnds
<1>3. ASSUME NEW f, req[h].pc = "save", req' = [req EXCEPT ![h].file = f, ![h].pc = "write"],
             doubt => doubt', ~doubt' => f = disk
      PROVE  Births' /\ Kept'
  <2> DEFINE q == [req[h] EXCEPT !.file = f, !.pc = "write"]
  <2>1. req[h] \in Requests /\ req \in [Handlers -> Requests]
    BY DEF Safe, TypeOK
  <2>2. req' = [req EXCEPT ![h] = q]
    BY <1>3, <2>1 DEF Requests
  <2>3. q.m = req[h].m /\ q.copy = req[h].copy /\ q.pc = "write" /\ q.file = f /\ q.op = req[h].op
    BY <2>1 DEF Requests
  <2>4. q.m \in born
    BY <1>3, <2>3 DEF Births
  <2> HIDE DEF q
  <2>5. ~doubt' => Knows(q.copy, disk[q.m])
    BY <1>3, <2>3 DEF Kept
  <2>6. \A m \in Missions : InFunding(req[h], m) => InFunding(q, m)
    BY <2>3 DEF InFunding
  <2> QED
    BY <1>1, <1>3, <2>2, <2>3, <2>4, <2>5, <2>6, KeptGoesOn
<1>4. CASE SaveReads(h)
  BY <1>3, <1>4 DEF SaveReads
<1>5. CASE ReadFails(h) /\ ~(Ends(h) /\ req[h].pc = "find" /\ UNCHANGED doubt)
  <2>1. /\ req[h].pc = "save" /\ req' = [req EXCEPT ![h].file = Empty, ![h].pc = "write"] /\ doubt' = TRUE
    BY <1>5 DEF ReadFails
  <2> QED
    BY <1>3, <2>1
<1> QED
  BY <1>2, <1>4, <1>5

LEMMA KeptSaveWrites ==
  ASSUME Safe, Births, Kept, NEW h \in Handlers, SaveWrites(h)
  PROVE  Births' /\ Kept'
<1> DEFINE m == req[h].m
           c == req[h].copy
           f == req[h].file
           t == Answer(req[h].op, m, c)
<1>1. /\ m \in Missions /\ c \in Records /\ Fine(req[h], sim, valid, used, high)
      /\ req[h] \in Requests /\ req \in [Handlers -> Requests] /\ disk \in [Missions -> Records]
  BY InHand DEF SaveWrites, Safe, TypeOK
<1>2. /\ req[h].pc = "write" /\ Ends(h) /\ disk' = [f EXCEPT ![m] = c] /\ told' = told \cup t
      /\ born' = born /\ funded' = funded
      /\ ~doubt' => ~doubt /\ Deciding = {h}
  BY DEF SaveWrites, outside
<1>3. \A n \in Missions, kind \in Kinds : <<n, kind>> \in t =>
        /\ n = m
        /\ kind = "mission" => c.pay = "paid"
        /\ kind = "topup" => c.top = "settled"
  BY AnswerSays
<1>4. req[h].op = "confirm_topup" => c.top = "settled"
  BY <1>1, <1>2 DEF Fine
<1>5. \A g \in Handlers : req'[g] = IF g = h THEN Idle ELSE req[g]
  BY <1>1, <1>2 DEF Ends
<1>a. m \in born
  BY <1>2 DEF Births
<1> HIDE DEF t
<1>6. Births'
  <2>2. \A g \in Handlers : req'[g].pc # "off" => req'[g].m \in born
    BY <1>5 DEF Births, Idle
  <2>3. \A n \in Missions, kind \in Kinds : <<n, kind>> \in told' => n \in born
    BY <1>2, <1>3, <1>a DEF Births
  <2> QED
    BY <1>2, <2>2, <2>3 DEF Births
<1>7. Kept'
  <2> SUFFICES ASSUME ~doubt'
               PROVE  /\ \A n \in Missions :
                           /\ Told(n, disk'[n], told') /\ (n \notin born => disk'[n] = Absent)
                           /\ funded'[n] <= 1 /\ (funded'[n] > 0 => disk'[n].top = "settled")
                      /\ \A g \in Handlers : req'[g].pc \in {"off", "find"}
    BY <1>2 DEF Kept, Once
  <2>1. /\ f = disk /\ Knows(c, disk[m])
        /\ \A n \in Missions : Told(n, disk[n], told) /\ Once(n) /\ (n \notin born => disk[n] = Absent)
    BY <1>1, <1>2 DEF Kept
  <2> HIDE DEF m, c, f
  <2>2. \A n \in Missions : disk'[n] = IF n = m THEN c ELSE disk[n]
    BY <1>1, <1>2, <2>1
  <2>3. ASSUME NEW n \in Missions PROVE Told(n, disk'[n], told')
    <3>1. Told(n, disk'[n], told)
      BY <2>1, <2>2 DEF Told, Knows
    <3>2. \A kind \in Kinds : <<n, kind>> \in t =>
            /\ kind = "mission" => disk'[n].pay = "paid"
            /\ kind = "topup" => disk'[n].top = "settled"
      BY <1>3, <2>2
    <3> QED
      BY <1>2, <3>1, <3>2 DEF Told, Kinds
  <2>4. \A g \in Handlers : g # h => req[g].pc \in {"off", "find"}
    BY <1>2 DEF Deciding
  <2>5. \A g \in Handlers : req'[g].pc \in {"off", "find"}
    BY <1>5, <2>4 DEF Idle
  <2>6. ASSUME NEW n \in Missions
        PROVE  funded'[n] <= 1 /\ (funded'[n] > 0 => disk'[n].top = "settled")
    <3>1. funded[n] <= 1 /\ (funded[n] > 0 => disk[n].top = "settled" \/ \E g \in Handlers : InFunding(req[g], n))
      BY <2>1 DEF Once
    <3>2. ASSUME NEW g \in Handlers, InFunding(req[g], n) PROVE disk'[n].top = "settled"
      <4>1. g = h
        BY <2>4, <3>2 DEF InFunding
      <4>2. n = m /\ c.top = "settled"
        BY <1>4, <3>2, <4>1 DEF InFunding, m
      <4> QED
        BY <2>2, <4>2
    <3>3. disk[n].top = "settled" => disk'[n].top = "settled"
      BY <2>1, <2>2 DEF Knows
    <3> QED
      BY <1>2, <3>1, <3>2, <3>3
  <2>7. \A n \in Missions : n \notin born => disk'[n] = Absent
    BY <1>a, <2>1, <2>2
  <2> QED
    BY <2>3, <2>5, <2>6, <2>7
<1> QED
  BY <1>6, <1>7

\* The handlers that decide on their copy and save it.
LEMMA KeptCalls ==
  ASSUME Safe, Births, Kept, NEW h \in Handlers,
         \/ PaymentIntent(h) \/ Confirms(h) \/ TopUpIntent(h) \/ TopUpConfirms(h)
         \/ Activates(h) \/ Pauses(h) \/ Resumes(h) \/ Finishes(h)
  PROVE  Births' /\ Kept'
<1> DEFINE k == req[h].copy
<1>1. k \in Records /\ ~Refuses(req[h].op, k) /\ req[h].pc = "call"
  BY InHand DEF PaymentIntent, Confirms, TopUpIntent, TopUpConfirms, Activates, Pauses, Resumes,
     Finishes, At
<1>2. UNCHANGED <<disk, told, funded, born, doubt>>
  BY DEF PaymentIntent, Confirms, TopUpIntent, TopUpConfirms, Activates, Pauses, Resumes,
     Finishes, payments, outside
<1>3. CASE Ends(h)
  BY <1>1, <1>2, <1>3, KeptEnds
<1>4. CASE PaymentIntent(h)
  BY <1>1, <1>2, <1>4, KeptSaves DEF PaymentIntent
<1>5. CASE Confirms(h)
  <2>1. k.pay # "paid"
    BY <1>1, <1>5 DEF Confirms, At, Refuses
  <2>2. ASSUME NEW c \in Records, Saves(h, c), c.top = k.top PROVE Births' /\ Kept'
    BY <1>1, <1>2, <2>1, <2>2, KeptSaves
  <2>3. [k EXCEPT !.pay = "paid", !.status = "paid"] \in Records
        /\ [k EXCEPT !.pay = "failed"] \in Records
    BY <1>1 DEF Records
  <2>4. [k EXCEPT !.pay = "paid", !.status = "paid"].top = k.top /\ [k EXCEPT !.pay = "failed"].top = k.top
    BY <1>1 DEF Records
  <2>5. \/ Saves(h, [k EXCEPT !.pay = "paid", !.status = "paid"])
        \/ Saves(h, [k EXCEPT !.pay = "failed"])
    BY <1>5 DEF Confirms
  <2> HIDE DEF k
  <2> QED
    BY <2>2, <2>3, <2>4, <2>5
<1>6. CASE TopUpIntent(h)
  <2> DEFINE c == [k EXCEPT !.top = "pending"]
  <2>1. k.top = "none"
    BY <1>1, <1>6 DEF TopUpIntent, At, Refuses
  <2>2. c \in Records /\ c.pay = k.pay /\ Saves(h, c)
    BY <1>1, <1>6 DEF Records, TopUpIntent
  <2> HIDE DEF c
  <2> QED
    BY <1>1, <1>2, <2>1, <2>2, KeptSaves
<1>7. CASE TopUpConfirms(h) /\ ~Ends(h)
  <2> DEFINE q == [req[h] EXCEPT !.pc = "fund"]
  <2>1. req[h] \in Requests /\ req \in [Handlers -> Requests]
    BY DEF Safe, TypeOK
  <2>2. req' = [req EXCEPT ![h] = q]
    BY <1>7, <2>1 DEF TopUpConfirms, Requests
  <2>3. q.m = req[h].m /\ q.copy = k /\ q.pc = "fund"
    BY <2>1 DEF Requests
  <2>4. q.m \in born
    BY <1>1, <2>3 DEF Births
  <2> HIDE DEF q
  <2>5. ~doubt => Knows(q.copy, disk[q.m])
    BY <1>1, <2>3 DEF Kept
  <2>6. \A m \in Missions : ~InFunding(req[h], m)
    BY <1>1 DEF InFunding
  <2> QED
    BY <1>2, <2>2, <2>3, <2>4, <2>5, <2>6, KeptGoesOn
<1>8. CASE Activates(h)
  <2> DEFINE c == [k EXCEPT !.sim = TRUE, !.status = "active"]
  <2>1. c \in Records /\ c.pay = k.pay /\ c.top = k.top /\ Saves(h, c)
    BY <1>1, <1>8 DEF Records, Activates
  <2> HIDE DEF c
  <2> QED
    BY <1>1, <1>2, <2>1, KeptSaves
<1>9. CASE Pauses(h) \/ Resumes(h) \/ Finishes(h)
  <2>1. PICK x \in {"paused", "active", "completed"} : Saves(h, [k EXCEPT !.status = x])
    BY <1>9 DEF Pauses, Resumes, Finishes
  <2> DEFINE c == [k EXCEPT !.status = x]
  <2>2. c \in Records /\ c.pay = k.pay /\ c.top = k.top
    BY <1>1 DEF Records
  <2> HIDE DEF c
  <2>3. Saves(h, c)
    BY <2>1 DEF c
  <2> QED
    BY <1>1, <1>2, <2>2, <2>3, KeptSaves
<1> QED
  BY <1>3, <1>4, <1>5, <1>6, <1>7, <1>8, <1>9

\* processDemoTraffic(), and a provider that throws.
LEMMA KeptTraffic ==
  ASSUME Safe, Births, Kept, NEW h \in Handlers,
         \/ ProviderFails(h) \/ TrafficRecorded(h) \/ VoucherAsked(h)
         \/ PolicySuspends(h) \/ PolicyPasses(h)
  PROVE  Births' /\ Kept'
<1>1. UNCHANGED <<disk, told, funded, born, doubt>>
      /\ req[h].pc \in {"call", "voucher", "policy"}
  BY DEF ProviderFails, TrafficRecorded, VoucherAsked, PolicySuspends, PolicyPasses, payments,
     outside, At
<1>2. CASE Ends(h)
  BY <1>1, <1>2, KeptEnds
<1>3. ASSUME NEW pc \in {"voucher", "policy"}, NEW x, NEW y, req[h].pc \notin {"off", "find"},
             req' = [req EXCEPT ![h].pc = pc, ![h].read = x, ![h].signed = y]
      PROVE  Births' /\ Kept'
  <2> DEFINE q == [req[h] EXCEPT !.pc = pc, !.read = x, !.signed = y]
  <2>1. req[h] \in Requests /\ req \in [Handlers -> Requests]
    BY DEF Safe, TypeOK
  <2>2. req' = [req EXCEPT ![h] = q]
    BY <1>3, <2>1 DEF Requests
  <2>3. q.m = req[h].m /\ q.copy = req[h].copy /\ q.pc = pc
    BY <2>1 DEF Requests
  <2>4. q.m \in born
    BY <1>3, <2>3 DEF Births
  <2> HIDE DEF q
  <2>5. ~doubt => Knows(q.copy, disk[q.m])
    BY <1>3, <2>3 DEF Kept
  <2>6. \A m \in Missions : ~InFunding(req[h], m)
    BY <1>1 DEF InFunding
  <2> QED
    BY <1>1, <1>3, <2>2, <2>3, <2>4, <2>5, <2>6, KeptGoesOn
<1>4. req \in [Handlers -> Requests] /\ req[h] \in Requests
  BY DEF Safe, TypeOK
<1>5. CASE TrafficRecorded(h)
  <2> DEFINE x == Recorded(req[h].m, req[h].bytes).sum
  <2>1. req[h].pc = "call" /\ req' = [req EXCEPT ![h].pc = "voucher", ![h].read = x]
    BY <1>5 DEF TrafficRecorded, At
  <2> HIDE DEF x
  <2>2. req' = [req EXCEPT ![h].pc = "voucher", ![h].read = x, ![h].signed = req[h].signed]
    BY <1>4, <2>1 DEF Requests
  <2> QED
    BY <1>3, <2>1, <2>2
<1>6. CASE VoucherAsked(h)
  <2>1. req[h].pc = "voucher"
        /\ \/ req' = [req EXCEPT ![h].pc = "policy", ![h].signed = TRUE]
           \/ req' = [req EXCEPT ![h].pc = "policy"]
    BY <1>6 DEF VoucherAsked, At
  <2>2. CASE req' = [req EXCEPT ![h].pc = "policy", ![h].signed = TRUE]
    <3>1. req' = [req EXCEPT ![h].pc = "policy", ![h].read = req[h].read, ![h].signed = TRUE]
      BY <1>4, <2>2 DEF Requests
    <3> QED
      BY <1>3, <2>1, <3>1
  <2>3. CASE req' = [req EXCEPT ![h].pc = "policy"]
    <3>1. req' = [req EXCEPT ![h].pc = "policy", ![h].read = req[h].read, ![h].signed = req[h].signed]
      BY <1>4, <2>3 DEF Requests
    <3> QED
      BY <1>3, <2>1, <3>1
  <2> QED
    BY <2>1, <2>2, <2>3
<1>7. ASSUME NEW suspend \in BOOLEAN, req[h].pc = "policy", Saves(h, Counted(h, suspend))
      PROVE  Births' /\ Kept'
  <2> DEFINE k == req[h].copy
             d == [k EXCEPT !.bytes = @ + req[h].bytes]
             c == Counted(h, suspend)
  <2>1. c \in Records
    BY <1>7, CountedIsReal
  <2>2. k \in Records
    BY <1>4 DEF Requests
  <2>3. c = [d EXCEPT !.status = IF suspend \/ d.bytes >= d.budget THEN "paused" ELSE @]
    BY DEF Counted
  <2>4. c.pay = k.pay /\ c.top = k.top
    BY <2>2, <2>3 DEF Records
  <2> HIDE DEF c
  <2> QED
    BY <1>1, <1>7, <2>1, <2>4, KeptSaves DEF c
<1>8. CASE PolicySuspends(h)
  BY <1>2, <1>7, <1>8 DEF PolicySuspends, At
<1>9. CASE PolicyPasses(h)
  BY <1>7, <1>9 DEF PolicyPasses, At
<1> QED
  BY <1>2, <1>5, <1>6, <1>8, <1>9 DEF ProviderFails

\* The top-up of a mission that no other handler decides on is funded for the first time.
LEMMA KeptTopsUp ==
  ASSUME Safe, Births, Kept, NEW h \in Handlers, TopsUp(h)
  PROVE  Births' /\ Kept'
<1> DEFINE m == req[h].m
           k == req[h].copy
           c == [k EXCEPT !.top = "settled", !.budget = @ + Top,
                          !.status = IF @ = "paused" THEN "active" ELSE @]
           q == [req[h] EXCEPT !.pc = "save", !.copy = c]
<1>1. /\ req[h] \in Requests /\ req \in [Handlers -> Requests] /\ funded \in [Missions -> Nat]
      /\ m \in Missions /\ k \in Records /\ k.top = "pending"
      /\ req[h].op = "confirm_topup" /\ req[h].pc = "fund"
  BY InHand DEF TopsUp, At, Safe, TypeOK, AllFine, Fine
<1>2. /\ UNCHANGED <<disk, told, born>>
      /\ \/ funded' = [funded EXCEPT ![m] = @ + 1]
         \/ funded' = funded
      /\ ~doubt' => ~doubt /\ \A g \in Deciding \ {h} : req[g].m # m
  BY DEF TopsUp, payments
<1>3. req' = [req EXCEPT ![h] = q]
  BY <1>1 DEF TopsUp, Saves, Requests
<1>4. /\ q.pc = "save" /\ q.m = m /\ q.op = "confirm_topup" /\ q.copy.top = "settled"
      /\ q.copy.pay = k.pay
  BY <1>1 DEF Requests, Records
<1>5. q.m \in born
  BY <1>1, <1>4 DEF Births
<1>6. InFunding(q, m) /\ \A n \in Missions : ~InFunding(req[h], n)
  BY <1>1, <1>4 DEF InFunding
<1> HIDE DEF q, k
<1>7. ASSUME ~doubt', NEW n \in Missions
      PROVE  /\ funded'[n] <= 1
             /\ funded'[n] > 0 => \/ disk[n].top = "settled" \/ InFunding(q, n)
                                  \/ \E g \in Handlers \ {h} : InFunding(req[g], n)
  <2>1. Once(n)
    BY <1>2, <1>7 DEF Kept
  <2>2. CASE n = m
    <3>1. disk[m].top # "settled"
      BY <1>1, <1>2, <1>7 DEF Kept, Knows, k
    <3>2. \A g \in Handlers : ~InFunding(req[g], m)
      <4>1. ASSUME NEW g \in Handlers, InFunding(req[g], m), g # h PROVE FALSE
        BY <1>2, <1>7, <4>1 DEF InFunding, Deciding
      <4> QED
        BY <1>6, <1>1, <4>1
    <3>3. ~(funded[m] > 0) /\ funded[m] \in Nat
      BY <1>1, <2>1, <2>2, <3>1, <3>2 DEF Once
    <3>4. funded'[m] = funded[m] + 1 \/ funded'[m] = funded[m]
      BY <1>1, <1>2
    <3>5. funded'[m] <= 1
      BY <3>3, <3>4
    <3> QED
      BY <1>6, <2>2, <3>5
  <2>3. CASE n # m
    <3>1. funded'[n] = funded[n]
      BY <1>1, <1>2, <2>3
    <3> QED
      BY <1>6, <2>1, <3>1 DEF Once
  <2> QED
    BY <2>2, <2>3
<1>8. ASSUME ~doubt' PROVE Knows(q.copy, disk[q.m])
  <2>1. Knows(k, disk[m])
    BY <1>1, <1>2, <1>8 DEF Kept, k
  <2> QED
    BY <1>4, <2>1 DEF Knows
<1>9. ~doubt' => \A n \in Missions : Told(n, disk[n], told')
  BY <1>2 DEF Kept
<1>10. doubt => doubt'
  BY <1>2
<1>11. \A n \in Missions, kind \in Kinds : <<n, kind>> \in told' => <<n, kind>> \in told \/ n \in born
  BY <1>2
<1> QED
  BY <1>2, <1>3, <1>4, <1>5, <1>7, <1>8, <1>9, <1>10, <1>11, KeptMoves

\* A death that cuts no confirmation short between its funding and its save.
LEMMA KeptRestarts ==
  ASSUME Safe, Births, Kept, Restarts
  PROVE  Births' /\ Kept'
<1>1. /\ UNCHANGED <<disk, told, funded, born>> /\ \A h \in Handlers : req'[h].pc = "off"
      /\ ~doubt' => ~doubt /\ ~\E h \in Deciding : req[h].op = "confirm_topup" /\ req[h].copy.top = "settled"
  BY DEF Restarts, payments, Idle
<1>2. ASSUME ~doubt', NEW m \in Missions
      PROVE  Told(m, disk[m], told) /\ Once(m)' /\ (m \notin born => disk[m] = Absent)
  <2>1. Told(m, disk[m], told) /\ Once(m) /\ (m \notin born => disk[m] = Absent)
    BY <1>1, <1>2 DEF Kept
  <2>2. ASSUME NEW h \in Handlers PROVE ~InFunding(req[h], m)
    <3>1. Fine(req[h], sim, valid, used, high)
      BY DEF Safe, AllFine
    <3> QED
      BY <1>1, <1>2, <3>1 DEF InFunding, Fine, Deciding
  <2>3. Once(m)'
    BY <1>1, <2>1, <2>2 DEF Once
  <2> QED
    BY <2>1, <2>3
<1> QED
  BY <1>1, <1>2 DEF Births, Kept

LEMMA KeptStep == Safe /\ Births /\ Kept /\ [Next]_vars => Births' /\ Kept'
<1> SUFFICES ASSUME Safe, Births, Kept, [Next]_vars PROVE Births' /\ Kept'
  OBVIOUS
<1>1. CASE UNCHANGED vars
  BY <1>1 DEF vars, Births, Kept, Once
<1>2. CASE Restarts
  BY <1>2, KeptRestarts
<1>3. ASSUME NEW h \in Handlers, NEW op \in Operations, NEW m \in Missions, NEW b \in Bursts \cup {0},
             Arrives(h, op, m, b)
      PROVE  Births' /\ Kept'
  BY <1>3, KeptArrives
<1>4. ASSUME NEW h \in Handlers,
             \/ Finds(h) \/ SaveReads(h) \/ ReadFails(h) \/ SaveWrites(h)
             \/ PaymentIntent(h) \/ Confirms(h) \/ TopUpIntent(h) \/ TopUpConfirms(h) \/ TopsUp(h)
             \/ ProviderFails(h) \/ Activates(h) \/ Pauses(h) \/ Resumes(h) \/ Finishes(h)
             \/ TrafficRecorded(h) \/ VoucherAsked(h) \/ PolicySuspends(h) \/ PolicyPasses(h)
      PROVE  Births' /\ Kept'
  BY <1>4, KeptFinds, KeptSaveReads, KeptSaveWrites, KeptCalls, KeptTopsUp, KeptTraffic
<1> QED
  BY <1>1, <1>2, <1>3, <1>4 DEF Next

----------------------------------------------------------------------------
(* Theorems *)

IInv == Safe /\ Births /\ Kept

LEMMA InitIInv == Init => IInv
<1> SUFFICES ASSUME Init PROVE IInv
  OBVIOUS
<1>1. /\ disk = Empty /\ req = [h \in Handlers |-> Idle] /\ meter = [m \in Missions |-> NewMeter]
      /\ high = [m \in Missions |-> 0] /\ used = [m \in Missions |-> 0]
      /\ sim = [u \in Users |-> NoSim] /\ funded = [m \in Missions |-> 0]
      /\ agent \in BOOLEAN /\ deposit = ChannelDeposit
      /\ valid = {} /\ told = {} /\ born = {} /\ ops = 0 /\ faults = 0
  BY DEF Init
<1>2. used \in [Missions -> 0..MaxBytes] /\ high \in [Missions -> 0..MaxBytes]
      /\ funded \in [Missions -> Nat]
  BY <1>1, Sizes
<1>3. req \in [Handlers -> Requests] /\ meter \in [Missions -> Counters]
      /\ disk \in [Missions -> Records]
  BY <1>1, Fresh
<1>4. sim \in [Users -> Sims]
  BY <1>1 DEF Sims, NoSim
<1>5. ops \in 0..MaxOps /\ faults \in 0..MaxFaults[agent] /\ deposit \in Nat
  BY <1>1, Sizes
<1>6. doubt \in BOOLEAN
  <2>1. doubt = FALSE
    BY DEF Init
  <2> QED
    BY <2>1, Zenon
<1>7. TypeOK
  BY <1>1, <1>2, <1>3, <1>4, <1>5, <1>6 DEF TypeOK
<1>8. \A m \in Missions : disk[m] = Absent /\ funded[m] = 0
  BY <1>1 DEF Empty
<1>9. DiskReal
  BY <1>2, <1>8, IdleIsFine DEF DiskReal
<1>10. AllFine
  BY <1>1, <1>2, IdleIsFine DEF AllFine
<1>11. SimsPaid
  BY <1>1 DEF SimsPaid, SimsAre, NoSim
<1>12. Meters
  <2>1. \A m \in Missions : meter[m].sum = 0 /\ meter[m].paid = 0 /\ meter[m].deposit = 0
    BY <1>1 DEF NewMeter
  <2>2. \A m \in Missions : high[m] = 0 /\ used[m] = 0
    BY <1>1
  <2>3. 0 <= 0 + Quota /\ 0 <= deposit
    BY <1>1, Sizes
  <2>4. \A m \in Missions : 0 <= Pays(m, valid)
    BY Sizes DEF Pays
  <2>5. ASSUME NEW m \in Missions PROVE Covers(m, high[m], agent, deposit, valid, used)
    <3>1. high[m] <= deposit /\ high[m] <= used[m] /\ high[m] <= Pays(m, valid)
      BY <2>2, <2>3, <2>4
    <3> QED
      BY <3>1 DEF Covers
  <2>6. ASSUME NEW m \in Missions
        PROVE  /\ meter[m].paid <= high[m] /\ meter[m].paid <= used[m] /\ meter[m].sum <= used[m]
               /\ meter[m].deposit <= Pays(m, valid) /\ meter[m].sum <= meter[m].paid + Quota
    BY <2>1, <2>2, <2>3, <2>4
  <2> QED
    BY <2>5, <2>6 DEF Meters
<1>13. OneChannel /\ Funds
  BY <1>1, <1>8 DEF OneChannel, Funds
<1>14. Births
  BY <1>1 DEF Births, Idle
<1>15. Kept
  <2>0. \A m \in Missions : Told(m, disk[m], told)
    BY <1>1 DEF Told
  <2>1. ASSUME NEW m \in Missions PROVE Once(m)
    <3>1. funded[m] <= 1 /\ ~(funded[m] > 0)
      BY <1>8
    <3> QED
      BY <3>1 DEF Once
  <2>2. \A h \in Handlers : req[h].pc = "off"
    BY <1>1 DEF Idle
  <2> QED
    BY <1>8, <2>0, <2>1, <2>2 DEF Kept
<1> QED
  BY <1>7, <1>9, <1>10, <1>11, <1>12, <1>13, <1>14, <1>15 DEF IInv, Safe

LEMMA Inductive == Spec => []IInv
<1>1. IInv /\ [Next]_vars => IInv'
  BY StepSafe, KeptStep DEF IInv
<1> QED
  BY <1>1, InitIInv, PTL DEF Spec

\* The variables keep their types: a budget grows by one top-up at most, and no record
\* counts more bytes than there were.
THEOREM MissionTypes == Spec => []TypeOK
<1>1. IInv => TypeOK
  BY DEF IInv, Safe
<1> QED
  BY <1>1, Inductive, PTL

\* For any requests, overlaps, restarts and unreadable files: no record claims a payment
\* that was not validated, no eSIM is bought without one, and the channel and the eSIM get
\* no top-up that was not validated, nor, without doubt, the same one twice.
THEOREM MissionPaymentsBack == Spec => []PaymentsBack
<1>1. ASSUME IInv PROVE PaymentsBack
  <2>1. ASSUME NEW m \in Missions, NEW c \in RecordsOf(m) PROVE Real(m, c, sim, valid, used)
    <3>1. CASE c = disk[m]
      BY <1>1, <3>1 DEF IInv, Safe, DiskReal
    <3>2. ASSUME NEW h \in Handlers, req[h].m = m, c = req[h].copy PROVE Real(m, c, sim, valid, used)
      BY <1>1, <3>2 DEF IInv, Safe, AllFine, Fine
    <3> QED
      BY <2>1, <3>1, <3>2 DEF RecordsOf
  <2>2. BudgetIsBacked
    BY <2>1 DEF BudgetIsBacked, Real, Valid, Validated
  <2>3. PaidBeforeEsim
    BY <1>1 DEF IInv, Safe, SimsPaid, SimsAre, Valid, Validated, PaidBeforeEsim
  <2>4. FundedOnce
    BY <1>1 DEF IInv, Safe, Funds, Kept, Once, FundedOnce
  <2> QED
    BY <2>2, <2>3, <2>4 DEF PaymentsBack
<1> QED
  BY <1>1, Inductive, PTL

\* While no save meets another request and no read of the file fails, what a client was
\* told is what the file says, across restarts.
THEOREM MissionAnsweredIsKept == Spec => []AnsweredIsKept
<1>1. IInv => AnsweredIsKept
  BY DEF IInv, Kept, Told, AnsweredIsKept
<1> QED
  BY <1>1, Inductive, PTL

\* For any bursts, quota and deposit, with an agent for each mission or a channel they
\* share: what the meter credits is signed, used and paid for, and it lets through no more
\* than its quota beyond that.
THEOREM MissionQuotaIsPaid == Spec => []QuotaIsPaid
<1>1. IInv => QuotaIsPaid
  BY DEF IInv, Safe, Meters, Covers, Pays, PaidFor, QuotaIsPaid
<1> QED
  BY <1>1, Inductive, PTL
=============================================================================
