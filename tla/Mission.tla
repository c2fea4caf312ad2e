-------------------------------- MODULE Mission --------------------------------
(***************************************************************************)
(* The mission product API (product/): MissionProductService over the one  *)
(* file of FileMissionRepository, which a handler reads whole to find its  *)
(* mission, and reads and writes whole to save it; the meter that demo     *)
(* traffic feeds, the vouchers it asks for and the policy on its eSIM      *)
(* (meter/meter-service.ts, demo-meter.ts, voucher-port.ts).               *)
(*                                                                         *)
(* Every await is a point where another request may act. External: the     *)
(* validation of payments by CosmoPay, the provider, which keeps one eSIM  *)
(* per user, the channel, and the agent, which signs an amount or does     *)
(* not. The boot chooses between an agent in memory for each mission, with *)
(* the mission's budget for a deposit, and the agent and the one channel   *)
(* the environment names, which all missions share. Money is counted in    *)
(* the bytes it pays for. The esimStatus follows the status wherever it is *)
(* read, and the balance matters by its sign alone: neither is a field.    *)
(***************************************************************************)
EXTENDS Naturals

CONSTANTS
  Missions,     \* missions there may be
  Users, UserOf, \* whose they are: an eSIM is provisioned per userId
  Handlers,     \* requests that may be under way
  NoMission,
  Budget, Top,  \* what a mission is created with, and its top-up
  ChannelDeposit, \* what CHANNEL_CONTRACT holds at first
  OneMb,        \* the policy suspends when less than this is left
  Quota,        \* maxUnpaidQuotaBytes of the meter
  Bursts,       \* sizes of the bursts of demo traffic
  MaxBytes,     \* bound: traffic of a mission
  MaxOps,       \* bound: requests
  MaxFaults     \* bound, with the agents in memory and with the shared one: unreadable
                \* files, deaths, throwing providers

ASSUME MissionAssumption ==
  /\ NoMission \notin Missions /\ UserOf \in [Missions -> Users]
  /\ {Budget, Top, OneMb} \subseteq Nat \ {0} /\ {ChannelDeposit, Quota} \subseteq Nat
  /\ Bursts \subseteq Nat \ {0} /\ MaxBytes \in Nat /\ MaxOps \in Nat /\ MaxFaults \in [BOOLEAN -> Nat]

VARIABLES
  disk,    \* missions.json
  req,     \* per handler: its operation, where it is, its copy, the file it read
  meter,   \* memory: per mission the count, the paid quota, the switch, depositsRaw
  agent,   \* memory: AGENT_VOUCHERS_URL and CHANNEL_CONTRACT are set
  deposit, \* chain: what CHANNEL_CONTRACT holds
  high,    \* agent: per mission the highest amount signed on its channel
  sim,     \* provider: per user, whether the eSIM is bought, its data on, its refund asked
  valid,   \* history: <<m, kind, n>>, a payment CosmoPay validated for m under an intent of n
  told,    \* history: payments a client was told are settled
  funded,  \* history: per mission, how often its top-up was sent to the channel and the eSIM
  used,    \* history: bytes of traffic that reached a mission's meter
  doubt,   \* history: requests met over a mission, a file was saved over unread, or a
           \* top-up was cut short by the death of the process
  born, ops, faults

payments == <<valid, told>>
chain == <<agent, deposit>>
outside == <<high, sim, deposit, funded, agent>>
counts == <<ops, faults>>
vars == <<disk, req, meter, agent, deposit, high, sim, valid, told, funded, used, doubt,
          born, ops, faults>>

Absent == [pay |-> "none", status |-> "none", sim |-> FALSE, top |-> "none", budget |-> 0, bytes |-> 0]
Created == [Absent EXCEPT !.pay = "pending", !.status = "pending_payment", !.budget = Budget]
Records == [pay : {"none", "pending", "paid", "failed"},
            status : {"none", "pending_payment", "paid", "active", "paused", "completed"},
            sim : BOOLEAN, top : {"none", "pending", "settled"},
            budget : 0..(Budget + MaxOps * Top), bytes : 0..MaxBytes]
Empty == [m \in Missions |-> Absent]
Operations == {"create", "payment_intent", "confirm", "activate", "pause", "resume",
               "topup_intent", "confirm_topup", "finish", "traffic"}
Idle == [op |-> "none", m |-> NoMission, pc |-> "off", bytes |-> 0, copy |-> Absent, file |-> Empty,
         read |-> 0, signed |-> FALSE]
Requests == [op : Operations \cup {"none"}, m : Missions \cup {NoMission},
             pc : {"off", "find", "call", "fund", "voucher", "policy", "save", "write"},
             bytes : Bursts \cup {0}, copy : Records, file : [Missions -> Records],
             read : 0..MaxBytes, signed : BOOLEAN]
Counters == [sum : 0..MaxBytes, paid : 0..MaxBytes, on : BOOLEAN,
             deposit : 0..(Budget + MaxOps * Top)]
NewMeter == [sum |-> 0, paid |-> 0, on |-> TRUE, deposit |-> 0]
Kinds == {"mission", "topup"}
NoSim == [bought |-> FALSE, on |-> FALSE, refund |-> FALSE]
Sims == [bought : BOOLEAN, on : BOOLEAN, refund : BOOLEAN]

TypeOK ==
  /\ disk \in [Missions -> Records]
  /\ req \in [Handlers -> Requests]
  /\ meter \in [Missions -> Counters]
  /\ high \in [Missions -> 0..MaxBytes]
  /\ agent \in BOOLEAN /\ deposit \in Nat
  /\ sim \in [Users -> Sims] /\ funded \in [Missions -> Nat]
  /\ valid \subseteq Missions \X Kinds \X Missions
  /\ told \subseteq {<<v[1], v[2]>> : v \in valid}
  /\ used \in [Missions -> 0..MaxBytes] /\ doubt \in BOOLEAN /\ born \subseteq Missions
  /\ ops \in 0..MaxOps /\ faults \in 0..MaxFaults[agent]

Init ==
  /\ disk = Empty /\ req = [h \in Handlers |-> Idle] /\ meter = [m \in Missions |-> NewMeter]
  /\ agent \in BOOLEAN /\ deposit = ChannelDeposit
  /\ high = [m \in Missions |-> 0] /\ sim = [u \in Users |-> NoSim]
  /\ funded = [m \in Missions |-> 0]
  /\ valid = {} /\ told = {} /\ used = [m \in Missions |-> 0] /\ doubt = FALSE
  /\ born = {} /\ ops = 0 /\ faults = 0

Fault == faults < MaxFaults[agent] /\ faults' = faults + 1
At(h, op, pc) == req[h].op = op /\ req[h].pc = pc
Ends(h) == req' = [req EXCEPT ![h] = Idle]
\* The handler is done with everything but save(copy).
Saves(h, copy) == req' = [req EXCEPT ![h].pc = "save", ![h].copy = copy]
\* Handlers that decide on a copy they have read.
Deciding == {h \in Handlers : req[h].pc \notin {"off", "find"}}

----------------------------------------------------------------------------
(* Requests and the repository *)

\* A request; createMission() has nothing to find, and an id of its own.
Arrives(h, op, m, b) ==
  /\ req[h].pc = "off" /\ ops < MaxOps /\ ops' = ops + 1
  /\ (op = "create") <=> (m \notin born)
  /\ (b > 0) <=> (op = "traffic")
  /\ req' = [req EXCEPT ![h] = [Idle EXCEPT !.op = op, !.m = m, !.bytes = b,
               !.pc = IF op = "create" THEN "save" ELSE "find",
               !.copy = IF op = "create" THEN Created ELSE Absent]]
  /\ born' = born \cup {m}
  /\ UNCHANGED <<disk, meter, outside, payments, used, doubt, faults>>

\* Mutant: a top-up that is settled is confirmed once more.
RefusesPending(op, c) ==
  \/ c = Absent
  \/ op = "confirm" /\ c.pay = "paid"
  \/ op = "activate" /\ (c.pay # "paid" \/ (c.status = "active" /\ c.sim))
  \/ op = "topup_intent" /\ c.top # "none"
  \/ op = "confirm_topup" /\ c.top = "none"
  \/ op = "traffic" /\ c.status # "active"

\* What a handler answers at once, from the copy it found (a second top-up: a bound).
Refuses(op, c) ==
  \/ c = Absent
  \/ op = "confirm" /\ c.pay = "paid"
  \/ op = "activate" /\ (c.pay # "paid" \/ (c.status = "active" /\ c.sim))
  \/ op = "topup_intent" /\ c.top # "none"
  \/ op = "confirm_topup" /\ c.top # "pending"
  \/ op = "traffic" /\ c.status # "active"

\* Mutant: a failed payment is saved and no error follows.
AnswerFailed(op, m, c) ==
  {<<m, kind>> : kind \in {k \in Kinds :
     \/ k = "mission" /\ op = "confirm" /\ c.pay \in {"paid", "failed"}
     \/ k = "topup" /\ op = "confirm_topup" /\ c.top = "settled"}}

\* What a confirmation tells its client, once it has saved or of what was settled before.
Answer(op, m, c) ==
  {<<m, kind>> : kind \in {k \in Kinds :
     \/ k = "mission" /\ op = "confirm" /\ c.pay = "paid"
     \/ k = "topup" /\ op = "confirm_topup" /\ c.top = "settled"}}

\* findById(): everything that follows is decided on this copy.
Finds(h) ==
  /\ req[h].pc = "find"
  /\ LET m == req[h].m  op == req[h].op  c == disk[m]
     IN  IF Refuses(op, c) THEN Ends(h) /\ told' = told \cup Answer(op, m, c)
         ELSE req' = [req EXCEPT ![h].copy = c, ![h].pc = "call"] /\ UNCHANGED told
  /\ UNCHANGED <<disk, meter, outside, valid, used, doubt, born, counts>>

\* Mutant: the client is answered and save() is not waited for.
SaveReadsAnswered(h) ==
  /\ req[h].pc = "save" /\ req' = [req EXCEPT ![h].file = disk, ![h].pc = "write"]
  /\ told' = told \cup Answer(req[h].op, req[h].m, req[h].copy)
  /\ UNCHANGED <<disk, meter, outside, valid, used, doubt, born, counts>>

\* save() reads the whole file again.
SaveReads(h) ==
  /\ req[h].pc = "save" /\ req' = [req EXCEPT ![h].file = disk, ![h].pc = "write"]
  /\ UNCHANGED <<disk, meter, outside, payments, used, doubt, born, counts>>

\* ensureFile() takes any failure to read for a file without missions.
ReadFails(h) ==
  /\ \/ req[h].pc = "find" /\ Ends(h) /\ UNCHANGED doubt
     \/ /\ req[h].pc = "save" /\ req' = [req EXCEPT ![h].file = Empty, ![h].pc = "write"]
        /\ doubt' = TRUE
  /\ Fault
  /\ UNCHANGED <<disk, meter, outside, payments, used, born, ops>>

\* rename() replaces the file by the one read, with this mission in it.
SaveWrites(h) ==
  /\ req[h].pc = "write" /\ Ends(h)
  /\ disk' = [req[h].file EXCEPT ![req[h].m] = req[h].copy]
  /\ told' = told \cup Answer(req[h].op, req[h].m, req[h].copy)
  /\ doubt' = (doubt \/ Deciding # {h})
  /\ UNCHANGED <<meter, outside, valid, used, born, counts>>

\* The process dies: its meters are gone, and with them the agents in memory.
Restarts ==
  /\ req' = [h \in Handlers |-> Idle] /\ meter' = [m \in Missions |-> NewMeter]
  /\ high' = IF agent THEN high ELSE [m \in Missions |-> 0]
  /\ doubt' = (doubt \/ \E h \in Deciding : req[h].op = "confirm_topup" /\ req[h].copy.top = "settled")
  /\ Fault
  /\ UNCHANGED <<disk, sim, chain, funded, payments, used, born, ops>>

----------------------------------------------------------------------------
(* Payments *)

\* createPaymentIntent() changes nothing but paymentIntentId, and saves its whole copy.
PaymentIntent(h) ==
  /\ At(h, "payment_intent", "call") /\ Saves(h, req[h].copy)
  /\ UNCHANGED <<disk, meter, outside, payments, used, doubt, born, counts>>

\* confirmPayment(): a mission whatever its status becomes paid, or its payment failed.
\* The intent is the request's: nothing ties it to the mission's own paymentIntentId.
Confirms(h) ==
  /\ At(h, "confirm", "call")
  /\ \/ /\ \E n \in born : valid' = valid \cup {<<req[h].m, "mission", n>>}
        /\ Saves(h, [req[h].copy EXCEPT !.pay = "paid", !.status = "paid"])
     \/ /\ UNCHANGED valid
        /\ Saves(h, [req[h].copy EXCEPT !.pay = "failed"])
  /\ UNCHANGED <<disk, meter, outside, told, used, doubt, born, counts>>

TopUpIntent(h) ==
  /\ At(h, "topup_intent", "call") /\ Saves(h, [req[h].copy EXCEPT !.top = "pending"])
  /\ UNCHANGED <<disk, meter, outside, payments, used, doubt, born, counts>>

\* confirmTopUpPayment(): the intent is one of the mission's top-ups.
TopUpConfirms(h) ==
  /\ At(h, "confirm_topup", "call")
  /\ \/ Ends(h) /\ UNCHANGED valid
     \/ /\ valid' = valid \cup {<<req[h].m, "topup", req[h].m>>}
        /\ req' = [req EXCEPT ![h].pc = "fund"]
  /\ UNCHANGED <<disk, meter, outside, told, used, doubt, born, counts>>

\* Then the channel and the eSIM of an activated mission are topped up: each may fail
\* unnoticed, a fund switches an eSIM on unless its refund is asked, and a paused mission
\* is active again either way.
TopsUp(h) ==
  /\ At(h, "confirm_topup", "fund")
  /\ LET m == req[h].m  u == UserOf[m]
     IN  /\ IF req[h].copy.sim
            THEN /\ funded' = [funded EXCEPT ![m] = @ + 1]
                 /\ deposit' \in {deposit, IF agent THEN deposit + Top ELSE deposit}
                 /\ \E on \in {sim[u].on, ~sim[u].refund} : sim' = [sim EXCEPT ![u].on = on]
            ELSE UNCHANGED <<funded, deposit, sim>>
         /\ doubt' = (doubt \/ \E g \in Deciding \ {h} : req[g].m = m)
  /\ Saves(h, [req[h].copy EXCEPT !.top = "settled", !.budget = @ + Top,
                                  !.status = IF @ = "paused" THEN "active" ELSE @])
  /\ UNCHANGED <<disk, meter, high, agent, payments, used, born, counts>>

----------------------------------------------------------------------------
(* The eSIM *)

\* The provider throws and the request ends, nothing saved.
ProviderFails(h) ==
  /\ req[h].op \in {"activate", "pause", "resume"} /\ req[h].pc = "call" /\ Ends(h) /\ Fault
  /\ UNCHANGED <<disk, meter, outside, payments, used, doubt, born, ops>>

\* provisionEsim(userId): the user's eSIM, bought for whichever mission came first.
Activates(h) ==
  /\ At(h, "activate", "call")
  /\ LET u == UserOf[req[h].m]
     IN  sim' = IF sim[u].bought THEN sim ELSE [sim EXCEPT ![u] = [NoSim EXCEPT !.bought = TRUE, !.on = TRUE]]
  /\ Saves(h, [req[h].copy EXCEPT !.sim = TRUE, !.status = "active"])
  /\ UNCHANGED <<disk, meter, high, chain, funded, payments, used, doubt, born, counts>>

\* suspend() and resume() by iccid: the eSIM of every mission of this user. A resume does
\* nothing once the refund is asked.
SetData(h, on) ==
  LET u == UserOf[req[h].m]
  IN  sim' = IF req[h].copy.sim THEN [sim EXCEPT ![u].on = on /\ ~sim[u].refund] ELSE sim

Pauses(h) ==
  /\ At(h, "pause", "call") /\ SetData(h, FALSE)
  /\ Saves(h, [req[h].copy EXCEPT !.status = "paused"])
  /\ UNCHANGED <<disk, meter, high, chain, funded, payments, used, doubt, born, counts>>

\* resumeMission() looks neither at the payment nor at the end of the mission.
Resumes(h) ==
  /\ At(h, "resume", "call") /\ SetData(h, TRUE)
  /\ Saves(h, [req[h].copy EXCEPT !.status = "active"])
  /\ UNCHANGED <<disk, meter, high, chain, funded, payments, used, doubt, born, counts>>

\* finishMission(): closeStart(), after which the agent signs no more, and refundUnused(),
\* which is of the user's eSIM and may fail unnoticed.
Finishes(h) ==
  /\ At(h, "finish", "call") /\ Saves(h, [req[h].copy EXCEPT !.status = "completed"])
  /\ LET u == UserOf[req[h].m]
     IN  sim' \in {sim, IF req[h].copy.sim
                       THEN [sim EXCEPT ![u].refund = TRUE, ![u].on = FALSE] ELSE sim}
  /\ UNCHANGED <<disk, meter, high, chain, funded, payments, used, doubt, born, counts>>

----------------------------------------------------------------------------
(* processDemoTraffic() *)

\* recordTraffic(): a meter that has cut counts nothing.
Recorded(m, b) ==
  IF ~meter[m].on THEN meter[m]
  ELSE [meter[m] EXCEPT !.sum = @ + b, !.on = meter[m].sum + b <= meter[m].paid + Quota]

\* depositsRaw follows the copy's budget; the reading is the meter's whole count.
TrafficRecorded(h) ==
  /\ At(h, "traffic", "call")
  /\ LET m == req[h].m  b == req[h].bytes
     IN  /\ used[m] + b <= MaxBytes /\ used' = [used EXCEPT ![m] = @ + b]
         /\ meter' = [meter EXCEPT ![m] = [Recorded(m, b) EXCEPT !.deposit = req[h].copy.budget]]
         /\ req' = [req EXCEPT ![h].pc = "voucher", ![h].read = Recorded(m, b).sum]
  /\ UNCHANGED <<disk, outside, payments, doubt, born, counts>>

\* What the agent signs against, and what the policy takes for the balance.
Deposit(m) == IF agent THEN deposit ELSE meter[m].deposit

\* The agent: the highest again, a higher one within the deposit, or nothing signed.
VoucherAsked(h) ==
  /\ At(h, "traffic", "voucher")
  /\ LET m == req[h].m
     IN  \/ /\ high[m] <= req[h].read /\ (high[m] < req[h].read => req[h].read <= Deposit(m))
            /\ high' = [n \in Missions |-> IF agent \/ n = m THEN req[h].read ELSE high[n]]
            /\ req' = [req EXCEPT ![h].pc = "policy", ![h].signed = TRUE]
         \/ req' = [req EXCEPT ![h].pc = "policy"] /\ UNCHANGED high
  /\ UNCHANGED <<disk, meter, sim, chain, funded, payments, used, doubt, born, counts>>

\* The copy the request saves after the policy's answer.
Counted(h, suspend) ==
  LET c == [req[h].copy EXCEPT !.bytes = @ + req[h].bytes]
  IN  [c EXCEPT !.status = IF suspend \/ c.bytes >= c.budget THEN "paused" ELSE @]

Suspends(h) == Deposit(req[h].m) < req[h].read + OneMb

\* decidePolicy() says suspend: the eSIM is cut, or the request ends on a provider that throws.
PolicySuspends(h) ==
  /\ At(h, "traffic", "policy") /\ Suspends(h)
  /\ \/ SetData(h, FALSE) /\ Saves(h, Counted(h, TRUE)) /\ UNCHANGED faults
     \/ Ends(h) /\ UNCHANGED sim /\ Fault
  /\ UNCHANGED <<disk, meter, high, chain, funded, payments, used, doubt, born, ops>>

\* Mutant: quota is credited for a reading nobody signed.
PolicyPassesUnsigned(h) ==
  /\ At(h, "traffic", "policy") /\ ~Suspends(h) /\ Saves(h, Counted(h, FALSE))
  /\ LET m == req[h].m
     IN  meter' = IF req[h].read >= meter[m].sum
                  THEN [meter EXCEPT ![m].paid = req[h].read, ![m].on = TRUE] ELSE meter
  /\ UNCHANGED <<disk, outside, payments, used, doubt, born, counts>>

\* noop: a signed reading that is still the whole count is credited, and reopens the meter.
PolicyPasses(h) ==
  /\ At(h, "traffic", "policy") /\ ~Suspends(h) /\ Saves(h, Counted(h, FALSE))
  /\ LET m == req[h].m
     IN  meter' = IF req[h].signed /\ req[h].read >= meter[m].sum
                  THEN [meter EXCEPT ![m].paid = req[h].read, ![m].on = TRUE] ELSE meter
  /\ UNCHANGED <<disk, outside, payments, used, doubt, born, counts>>

Next ==
  \/ Restarts
  \/ \E h \in Handlers :
       \/ \E op \in Operations, m \in Missions, b \in Bursts \cup {0} : Arrives(h, op, m, b)
       \/ Finds(h) \/ SaveReads(h) \/ ReadFails(h) \/ SaveWrites(h)
       \/ PaymentIntent(h) \/ Confirms(h) \/ TopUpIntent(h) \/ TopUpConfirms(h) \/ TopsUp(h)
       \/ ProviderFails(h) \/ Activates(h) \/ Pauses(h) \/ Resumes(h) \/ Finishes(h)
       \/ TrafficRecorded(h) \/ VoucherAsked(h) \/ PolicySuspends(h) \/ PolicyPasses(h)

Spec == Init /\ [][Next]_vars

----------------------------------------------------------------------------
(* Properties *)

PaidFor(m) == Budget + IF <<m, "topup", m>> \in valid THEN Top ELSE 0
Validated(m) == \E n \in Missions : <<m, "mission", n>> \in valid

\* However requests overlap, restart or erase the file: a record on disk or in a handler's
\* hands has a budget with the top-up exactly when the top-up is settled, and CosmoPay has
\* validated a payment for whatever it calls paid or settled and for the eSIM it names, no
\* eSIM having been bought for a user without a mission that is paid ("cuyo pago no ha
\* sido validado"); confirmPayment, confirmTopUpPayment and activateMission decide on
\* copies that other requests may have made stale.
RecordsOf(m) == {disk[m]} \cup {req[h].copy : h \in {g \in Handlers : req[g].m = m}}
BudgetIsBacked ==
  \A m \in Missions : \A c \in RecordsOf(m) :
    /\ c = Absent \/ c.budget = Budget + IF c.top = "settled" THEN Top ELSE 0
    /\ c.pay = "paid" \/ c.sim => Validated(m)
    /\ c.top = "settled" => <<m, "topup", m>> \in valid
PaidBeforeEsim ==
  \A u \in Users :
    /\ sim[u].bought => \E m \in Missions : UserOf[m] = u /\ Validated(m)
    /\ sim[u].on => sim[u].bought /\ ~sim[u].refund
\* The channel and the eSIM get a top-up that was validated, and get it once unless its
\* confirmations overlapped, the process died under one or the file was lost.
FundedOnce ==
  \A m \in Missions :
    /\ funded[m] > 0 => <<m, "topup", m>> \in valid
    /\ ~doubt => funded[m] <= 1
PaymentsBack == BudgetIsBacked /\ PaidBeforeEsim /\ FundedOnce

\* What a client was told is paid or settled, at once or when it asked again, is what
\* missions.json says, across deaths of the process, until a save meets another request
\* or a read of the file fails (save() writes whole files with rename(), and a handler
\* answers after it).
AnsweredIsKept ==
  ~doubt => \A m \in Missions :
              /\ <<m, "mission">> \in told => disk[m].pay = "paid"
              /\ <<m, "topup">> \in told => disk[m].top = "settled"

\* demo-meter.ts: quota is credited only for a signed voucher, which covers no more than
\* the traffic there was and than was paid for, by the mission or, on the channel that
\* missions share, by its deposit; and the meter lets through at most maxUnpaidQuotaBytes
\* beyond it (readings of overlapping requests come out of order).
QuotaIsPaid ==
  \A m \in Missions :
    /\ meter[m].paid <= high[m] /\ meter[m].paid <= used[m]
    /\ IF agent THEN high[m] <= deposit /\ \E n \in Missions : high[m] <= used[n]
       ELSE high[m] <= PaidFor(m) /\ high[m] <= used[m]
    /\ meter[m].on => meter[m].sum <= meter[m].paid + Quota
=============================================================================
