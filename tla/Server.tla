--------------------------------- MODULE Server --------------------------------
(***************************************************************************)
(* The payment server's process: the fail-closed boot of its two instances *)
(* (createFailClosedBoot in config/boot.ts, started by server/main.ts,     *)
(* armed again by server/middleware/require-ready.ts and server/app.ts),   *)
(* the close monitor that has to run beside the channel instance, and      *)
(* stage 1's charge route (server/routes/charge.ts, charge-service.ts,     *)
(* agent/charge-client.ts).  The agent boots its service the same way.     *)
(*                                                                         *)
(* External: mppx, which challenges a request without a credential for the *)
(* amount asked now and settles a credential once, for that amount.        *)
(* Time is whether the retry interval has passed since a build ended.      *)
(***************************************************************************)
EXTENDS Pricing

CONSTANTS
  Charges,     \* GET /paid-resource requests that may be under way
  Deliveries,  \* POST /channel/vouchers requests that may be under way
  MaxBytes,    \* bound: cumulative bytes a client asks to pay for
  MaxFaults,   \* bound: failed payments, deaths of the process
  MaxPaid,     \* bound: what a session has paid when it asks for more
  MaxBuilds    \* bound: builds of an instance that end ready

ASSUME ServerAssumption ==
  /\ Charges \cap Deliveries = {} /\ "main" \notin Charges \cup Deliveries
  /\ MaxBytes \in Nat /\ MaxFaults \in Nat /\ MaxPaid \in Nat /\ MaxBuilds \in Nat \ {0}

VARIABLES
  ready,     \* per boot: the state is ready
  flight,    \* per boot: builds under way; inFlight is set while there is one
  cool,      \* per boot: the retry interval since the last build is not over
  instance,  \* per boot: instances built by this process so far
  monitors,  \* channel instances whose close monitor runs
  req,       \* per request, and for main.ts: where it is
  pay,       \* per charge: bytes asked for, amount of its credential, previous total
  store,     \* the session's cumulative bytes, in memory
  paid,      \* on chain: what the session has paid
  doubt,     \* history: two charges met, a receipt was not read, the process died
  faults     \* failures and deaths so far

boots == <<ready, flight, cool, instance>>
charge == <<pay, store, paid, doubt>>
vars == <<ready, flight, cool, instance, monitors, req, pay, store, paid, doubt, faults>>

Boots == {"charge", "channel"}
\* main.ts waits for the channel instance; nothing waits for its charge build.
Requests == Charges \cup Deliveries \cup {"main"}
BootOf(r) == IF r \in Charges THEN "charge" ELSE "channel"
NoPay == [bytes |-> 0, pays |-> 0, prev |-> 0]
Total == ExpectedAmount(MaxBytes)

TypeOK ==
  /\ ready \in [Boots -> BOOLEAN] /\ flight \in [Boots -> Nat] /\ cool \in [Boots -> BOOLEAN]
  /\ instance \in [Boots -> 0..MaxBuilds]
  /\ monitors \subseteq 1..MaxBuilds
  /\ req \in [Requests -> {"off", "waiting", "granted", "port", "settled"}]
  /\ pay \in [Charges -> [bytes : 0..MaxBytes, pays : 0..Total, prev : 0..MaxBytes]]
  /\ store \in 0..MaxBytes /\ paid \in Nat /\ doubt \in BOOLEAN /\ faults \in 0..MaxFaults
  /\ \A r \in Requests : req[r] = "waiting" => flight[BootOf(r)] > 0

\* listen() first, then both builds: main.ts is already waiting.
Booting ==
  /\ ready' = [b \in Boots |-> FALSE] /\ flight' = [b \in Boots |-> 1]
  /\ cool' = [b \in Boots |-> FALSE] /\ instance' = [b \in Boots |-> 0]
  /\ monitors' = {} /\ store' = 0
  /\ req' = [r \in Requests |-> IF r = "main" THEN "waiting" ELSE "off"]

Init ==
  /\ ready = [b \in Boots |-> FALSE] /\ flight = [b \in Boots |-> 1]
  /\ cool = [b \in Boots |-> FALSE] /\ instance = [b \in Boots |-> 0]
  /\ monitors = {}
  /\ req = [r \in Requests |-> IF r = "main" THEN "waiting" ELSE "off"]
  /\ pay = [c \in Charges |-> NoPay]
  /\ store = 0 /\ paid = 0 /\ doubt = FALSE /\ faults = 0

Fault == faults < MaxFaults /\ faults' = faults + 1
Goes(r, pc) == req' = [req EXCEPT ![r] = pc]

----------------------------------------------------------------------------
(* createFailClosedBoot() *)

\* The build ends: the state is its result, the interval begins, and those who awaited
\* it get that result, not the state of a later moment.
BuildReady(b) ==
  /\ flight[b] > 0 /\ instance[b] < MaxBuilds
  /\ ready' = [ready EXCEPT ![b] = TRUE] /\ instance' = [instance EXCEPT ![b] = @ + 1]
  /\ flight' = [flight EXCEPT ![b] = @ - 1] /\ cool' = [cool EXCEPT ![b] = TRUE]
  /\ req' = [r \in Requests |-> IF req[r] = "waiting" /\ BootOf(r) = b THEN "granted" ELSE req[r]]
  /\ UNCHANGED <<monitors, charge, faults>>

\* Mutant: a build that failed leaves its requests waiting.
BuildUnavailableSilent(b) ==
  /\ flight[b] > 0
  /\ ready' = [ready EXCEPT ![b] = FALSE]
  /\ flight' = [flight EXCEPT ![b] = @ - 1] /\ cool' = [cool EXCEPT ![b] = TRUE]
  /\ UNCHANGED <<instance, monitors, req, charge, faults>>

\* Bad configuration, no RPC, a corrupt log: the waiting requests answer 503.
BuildUnavailable(b) ==
  /\ flight[b] > 0
  /\ ready' = [ready EXCEPT ![b] = FALSE]
  /\ flight' = [flight EXCEPT ![b] = @ - 1] /\ cool' = [cool EXCEPT ![b] = TRUE]
  /\ req' = [r \in Requests |-> IF req[r] = "waiting" /\ BootOf(r) = b THEN "off" ELSE req[r]]
  /\ UNCHANGED <<instance, monitors, charge, faults>>

\* Mutant: every caller starts a build of its own.
AttemptAlone(b) == flight' = [flight EXCEPT ![b] = @ + 1]

\* attempt(): the build under way is everybody's.
Attempt(b) ==
  IF flight[b] > 0 THEN UNCHANGED flight ELSE flight' = [flight EXCEPT ![b] = @ + 1]

\* ensureReady(): at once when ready or too early, else with a build.
EnsureReady(r) ==
  CASE ready[BootOf(r)] -> Goes(r, "granted") /\ UNCHANGED flight
    [] ~ready[BootOf(r)] /\ cool[BootOf(r)] -> Goes(r, "off") /\ UNCHANGED flight
    [] OTHER -> Goes(r, "waiting") /\ Attempt(BootOf(r))

\* Mutant: every call renews the interval, which is never over.
IntervalRenewed(b) == cool[b] /\ UNCHANGED vars

IntervalPasses(b) ==
  /\ cool[b] /\ cool' = [cool EXCEPT ![b] = FALSE]
  /\ UNCHANGED <<ready, flight, instance, monitors, req, charge, faults>>

\* A new process: nothing kept in memory survives.
Restarts ==
  /\ Booting
  /\ pay' = [c \in Charges |-> NoPay]
  /\ doubt' = (doubt \/ store > 0 \/ \E c \in Charges : req[c] \in {"port", "settled"})
  /\ UNCHANGED paid
  /\ Fault

----------------------------------------------------------------------------
(* POST /channel/vouchers, what main.ts waits for, and GET /ready *)

DeliveryArrives(d) ==
  /\ req[d] = "off" /\ EnsureReady(d)
  /\ UNCHANGED <<ready, cool, instance, monitors, charge, faults>>

\* start() is idempotent; the voucher is the delivery's of VoucherFlow.
DeliveryServed(d) ==
  /\ req[d] = "granted" /\ Goes(d, "off")
  /\ monitors' = monitors \cup {instance["channel"]}
  /\ UNCHANGED <<boots, charge, faults>>

MainGoesOn ==
  /\ req["main"] = "granted" /\ Goes("main", "off")
  /\ monitors' = monitors \cup {instance["channel"]}
  /\ UNCHANGED <<boots, charge, faults>>

\* The channel instance is up, and its monitor runs.
ChannelServes == ready["channel"] /\ instance["channel"] \in monitors

\* GET /ready of a stage 2 server says 200: the charge boot is asked first.
AnswersReady == ready["charge"] /\ ChannelServes

----------------------------------------------------------------------------
(* GET /paid-resource *)

\* A client asks for a total, or comes back with a credential for it.
ChargeArrives(c) ==
  /\ req[c] = "off" /\ paid <= MaxPaid /\ EnsureReady(c)
  /\ IF pay[c].pays > 0 THEN UNCHANGED pay
     ELSE \E b \in 1..MaxBytes : pay' = [pay EXCEPT ![c] = [NoPay EXCEPT !.bytes = b]]
  /\ UNCHANGED <<ready, cool, instance, monitors, store, paid, doubt, faults>>

Charging == {c \in Charges : req[c] \in {"port", "settled"}}
Forgets(c) == pay' = [pay EXCEPT ![c] = NoPay]

\* stale_reading: nothing new to bill.
ChargeStale(c) ==
  /\ req[c] = "granted" /\ pay[c].bytes <= store /\ Goes(c, "off") /\ Forgets(c)
  /\ UNCHANGED <<boots, monitors, store, paid, doubt, faults>>

\* The total billed so far is read here, and written when the payment has settled.
ChargeReads(c) ==
  /\ req[c] = "granted" /\ pay[c].bytes > store /\ Goes(c, "port")
  /\ pay' = [pay EXCEPT ![c].prev = store]
  /\ doubt' = (doubt \/ Charging # {})
  /\ UNCHANGED <<boots, monitors, store, paid, faults>>

Due(c) == ChargeDelta(pay[c].bytes, pay[c].prev)

\* 402: the client's library pays the amount it is challenged for, once.
ChargeChallenged(c) ==
  /\ req[c] = "port" /\ Due(c) > 0 /\ pay[c].pays # Due(c) /\ Goes(c, "off")
  /\ pay' = [pay EXCEPT ![c].pays = Due(c)]
  /\ UNCHANGED <<boots, monitors, store, paid, doubt, faults>>

\* A delta that rounds to nothing cannot be paid: the SDK throws.
ChargeForNothing(c) ==
  /\ req[c] = "port" /\ Due(c) = 0 /\ Goes(c, "off") /\ Forgets(c)
  /\ UNCHANGED <<boots, monitors, store, paid, doubt, faults>>

ChargeSettles(c) ==
  /\ req[c] = "port" /\ pay[c].pays = Due(c) /\ Due(c) > 0 /\ Goes(c, "settled")
  /\ paid' = paid + Due(c)
  /\ UNCHANGED <<boots, monitors, pay, store, doubt, faults>>

\* Mutant: the total does not move.
ChargeForgotten(c) ==
  /\ req[c] = "settled" /\ Goes(c, "off") /\ Forgets(c)
  /\ UNCHANGED <<boots, monitors, store, paid, doubt, faults>>

ChargeRecorded(c) ==
  /\ req[c] = "settled" /\ store' = pay[c].bytes /\ Goes(c, "off") /\ Forgets(c)
  /\ UNCHANGED <<boots, monitors, paid, doubt, faults>>

\* "payment settled but its receipt could not be read": a failure like any other.
ReceiptUnread(c) ==
  /\ req[c] = "settled" /\ doubt' = TRUE /\ Goes(c, "off") /\ Forgets(c)
  /\ Fault
  /\ UNCHANGED <<boots, monitors, store, paid>>

\* Mutant: a failure answered with 200 advances the total.
ChargeFailsBilled(c) ==
  /\ req[c] = "port" /\ Goes(c, "off") /\ Forgets(c)
  /\ store' = pay[c].bytes
  /\ Fault
  /\ UNCHANGED <<boots, monitors, paid, doubt>>

ChargeFails(c) ==
  /\ req[c] = "port" /\ Goes(c, "off") /\ Forgets(c)
  /\ Fault
  /\ UNCHANGED <<boots, monitors, store, paid, doubt>>

----------------------------------------------------------------------------
Build(b) == BuildReady(b) \/ BuildUnavailable(b)
Charge(c) ==
  \/ ChargeStale(c) \/ ChargeReads(c) \/ ChargeChallenged(c) \/ ChargeForNothing(c)
  \/ ChargeSettles(c) \/ ChargeRecorded(c)

Next ==
  \/ \E b \in Boots : Build(b) \/ IntervalPasses(b)
  \/ MainGoesOn \/ Restarts
  \/ \E d \in Deliveries : DeliveryArrives(d) \/ DeliveryServed(d)
  \/ \E c \in Charges : ChargeArrives(c) \/ Charge(c) \/ ReceiptUnread(c) \/ ChargeFails(c)

Spec == Init /\ [][Next]_vars

\* Builds end and now and then succeed, the interval passes, and the agent
\* delivers again and is answered.
Fairness ==
  /\ \A b \in Boots : WF_vars(Build(b)) /\ SF_vars(BuildReady(b)) /\ WF_vars(IntervalPasses(b))
  /\ \A d \in Deliveries : WF_vars(DeliveryArrives(d)) /\ WF_vars(DeliveryServed(d))

FairSpec == Spec /\ Fairness

----------------------------------------------------------------------------
(* Properties *)

\* A process never builds a second instance of what it has, which would keep a second
\* mutex and a second index over one voucher log (config/boot.ts:95-103); and the channel
\* instance is not up without its monitor, but for the moment until those who waited for
\* it go on: a dispute is seen though no voucher ever comes.
OneInstance == \A b \in Boots : instance[b] <= 1
Waiters == {r \in Requests : BootOf(r) = "channel" /\ req[r] = "granted"}
ReadyIsMonitored == ready["channel"] /\ Waiters = {} => instance["channel"] \in monitors
OneMonitored == OneInstance /\ ReadyIsMonitored

\* Once its builds can succeed, the server comes back without being restarted (FC-R8). Only
\* a request for what a boot serves arms it again: the agent's next deliveries bring the
\* channel instance back, monitor included; GET /ready, which asks for the charge instance
\* too, says so again only if requests for /paid-resource keep coming as well.
RecoversByItself ==
  /\ []<>ChannelServes
  /\ []<><<\E c \in Charges : ChargeArrives(c)>>_vars => []<>AnswersReady

\* The consumption counted as billed has been paid, through overlapping requests,
\* failed payments, unread receipts and restarts (S1-R5, FT-R6).
BilledIsPaid == paid >= ExpectedAmount(store)

\* Nothing is paid twice, unless two charges met, a receipt was not read or the
\* process died (AC-R4: by delta, never the running total).
Billed == IF \E c \in Charges : req[c] = "settled"
          THEN pay[CHOOSE c \in Charges : req[c] = "settled"].bytes ELSE store
PaidOnce == ~doubt => paid = ExpectedAmount(Billed)
=============================================================================
