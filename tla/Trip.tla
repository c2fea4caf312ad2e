---------------------------------- MODULE Trip ---------------------------------
(***************************************************************************)
(* The trips of one eSIM: the usage loop (jobs/usage-loop.ts over          *)
(* IntegratedMeterService.processCumulative), PolicyEnforcer, the closing  *)
(* walk (services/SessionCloser.ts, driven by server/close-session.ts),    *)
(* the esim.defunded webhook (services/CitrusWebhookHandler.ts over        *)
(* persistence/webhook-event.ts) and the eSIM's row (esim-record.ts).      *)
(*                                                                         *)
(* External: Citrus, whose reported wallet and consumption are `sim`, and  *)
(* the agent with the payment server, which together are the register      *)
(* `high` of VoucherFlow.  Money is in units small enough for TLC.  The    *)
(* row's status is left out: nothing here reads it.                        *)
(***************************************************************************)
EXTENDS Pricing, FiniteSets

CONSTANTS
  Trips,       \* bound: trips on the same eSIM
  Wallet,      \* bound: micro-USD the wallet holds when a trip starts
  Deposit,     \* the channel's deposit, raw
  Cap,         \* capRaw: the unpaid amount the loop puts up with
  MaxFaults,   \* bound: failed calls, lost answers and deaths of a process
  MaxDefunds   \* bound: settlements Citrus sends an event of

ASSUME TripAssumption ==
  /\ Trips \in Nat \ {0} /\ Wallet \in Nat /\ Deposit \in Nat /\ Cap \in Nat
  /\ MaxFaults \in Nat /\ MaxDefunds \in Nat \ {0}

VARIABLES
  sim,      \* Citrus: wallet, charged (of the SIM's life), data on, defund under way
  sent,     \* Citrus: esim.defunded events it (re)delivers: 1..sent
  channel,  \* the trip's channel; "none" while row.channelId is empty
  high,     \* the highest voucher signed and delivered for it
  row,      \* disk: closing.step, defundPending, defund
  wlog,     \* disk: per event, what the webhook log holds
  working,  \* server: events recorded whose processing is under way
  loop,     \* usage loop: where it is, and its voucher's kind
  mem,      \* usage loop: lastEqBytes, lastSignedRaw, suspendedByUnpaid
  cli,      \* close-session: where it is, --wait, its bytes, its voucher's kind
  zero,     \* close-session: walletZeroSince is set
  trip, start, billed, \* history: trips begun, charged then, the final voucher's kind
  faults               \* faults so far

citrus == <<sim, sent>>
hooks == <<sent, wlog, working>>
usage == <<loop, mem>>
closer == <<cli, zero, billed>>
past == <<trip, start>>
history == <<past, faults>>
vars == <<sim, sent, channel, high, row, wlog, working, loop, mem, cli, zero, trip, start, billed, faults>>

Charged == 0..(Wallet * Trips)
Bytes == {EquivalentBytes(c) : c \in Charged}
Amounts == {Bill(c) : c \in Charged}
Kinds == {"none", "signed", "unsigned"}
Steps == {"none", "defund_solicitado", "defund_liquidado", "ultimo_vale_firmado", "canal_cerrado"}

TypeOK ==
  /\ sim \in [wallet : 0..Wallet, charged : Charged, on : BOOLEAN, defund : BOOLEAN]
  /\ sent \in 0..MaxDefunds
  /\ channel \in {"none", "open", "settled"} /\ high \in Amounts
  /\ row \in [step : Steps, pending : BOOLEAN, defund : {"none", "open", "settled"}]
  /\ wlog \in [1..MaxDefunds -> {"none", "recorded", "processed"}]
  /\ working \subseteq 1..MaxDefunds
  /\ loop \in [pc : {"idle", "usage", "voucher", "policy", "apply"}, kind : Kinds]
  /\ mem \in [eq : Bytes, signed : Amounts, susp : BOOLEAN]
  /\ cli \in [pc : {"off", "ready", "defund", "mark", "final", "voucher", "answered", "finalize"},
              wait : BOOLEAN, eq : Bytes, kind : Kinds]
  /\ zero \in BOOLEAN /\ billed \in Kinds
  /\ trip \in 1..Trips /\ start \in Charged /\ faults \in 0..MaxFaults

LoopOff == [pc |-> "idle", kind |-> "none"]
CliOff == [pc |-> "off", wait |-> FALSE, eq |-> 0, kind |-> "none"]

Init ==
  /\ sim = [wallet |-> Wallet, charged |-> 0, on |-> TRUE, defund |-> FALSE] /\ sent = 0
  /\ channel \in {"none", "open"} /\ high = 0
  /\ row = [step |-> "none", pending |-> FALSE, defund |-> "none"]
  /\ wlog = [e \in 1..MaxDefunds |-> "none"] /\ working = {}
  /\ loop = LoopOff /\ mem = [eq |-> 0, signed |-> 0, susp |-> FALSE]
  /\ cli = CliOff /\ zero = FALSE /\ billed = "none"
  /\ trip = 1 /\ start = 0 /\ faults = 0

----------------------------------------------------------------------------
Fault == faults < MaxFaults /\ faults' = faults + 1

(* Citrus *)

\* The trip consumes; what was used before a defund may still be charged under it.
Consume ==
  /\ sim.wallet > 0 /\ (sim.on \/ sim.defund)
  /\ sim' = [sim EXCEPT !.wallet = @ - 1, !.charged = @ + 1]
  /\ UNCHANGED <<channel, high, row, hooks, usage, closer, history>>

\* The defund is over: the rest of the wallet is returned, the event goes out.
\* Bound: after MaxDefunds no further event does.
Settle ==
  /\ sim.defund
  /\ sim' = [sim EXCEPT !.wallet = 0, !.defund = FALSE, !.on = TRUE]
  /\ sent' = IF sent < MaxDefunds THEN sent + 1 ELSE sent
  /\ UNCHANGED <<channel, high, row, wlog, working, usage, closer, history>>

\* suspend() and resume(): no data is enabled while a defund is under way.
SuspendSim == sim' = [sim EXCEPT !.on = FALSE]
ResumeSim == ~sim.defund /\ sim' = [sim EXCEPT !.on = TRUE]

----------------------------------------------------------------------------
(* The webhook: record, then process; an id already recorded is a duplicate. *)

Deliver(e) ==
  /\ e <= sent /\ wlog[e] = "none"
  /\ wlog' = [wlog EXCEPT ![e] = "recorded"] /\ working' = working \cup {e}
  /\ UNCHANGED <<citrus, channel, high, row, usage, closer, history>>

\* onDefunded() and markProcessed(); the event is marked when its update failed too.
Process(e) ==
  /\ e \in working
  /\ row' = [row EXCEPT !.defund = "settled"]
  /\ wlog' = [wlog EXCEPT ![e] = "processed"] /\ working' = working \ {e}
  /\ UNCHANGED <<citrus, channel, high, usage, closer, history>>

ProcessFails(e) ==
  /\ e \in working
  /\ wlog' = [wlog EXCEPT ![e] = "processed"] /\ working' = working \ {e}
  /\ Fault
  /\ UNCHANGED <<citrus, channel, high, row, usage, closer, past>>

\* The log is replayed into the dedup set; main.ts calls no handler.replay().
ServerRestarts ==
  /\ working # {} /\ working' = {}
  /\ Fault
  /\ UNCHANGED <<citrus, channel, high, row, wlog, usage, closer, past>>

----------------------------------------------------------------------------
(* The agent and the payment server *)

\* A voucher for amount a: signed and delivered, or an equal one reused.
Signs(a) == channel = "open" /\ a > 0 /\ a >= high /\ a <= Deposit /\ high' = a
\* Refused, or out of reach; or accepted, and the answer is lost.
Refuses(a) == (UNCHANGED high) \/ Signs(a)

----------------------------------------------------------------------------
(* UsageLoop.runOnce() *)

LoopStarts ==
  /\ loop.pc = "idle" /\ row.step = "none" /\ ~row.pending
  /\ loop' = [LoopOff EXCEPT !.pc = "usage"]
  /\ UNCHANGED <<sim, channel, high, row, hooks, mem, closer, history>>

\* Mutant: readings are added up as if each were new consumption.
SumSeen(x, seen) == x + seen

\* R6: the accumulated bytes never fall.
MaxSeen(x, seen) == IF x > seen THEN x ELSE seen

\* chargedBaselineMicroUsd is written as 0 by provisionEsim() and finalize(), and
\* by nothing else.
Baseline == 0

\* getUsage(): what the provider reports of the trip.
Reported == sim.charged - Baseline

LoopReads ==
  /\ loop.pc = "usage"
  /\ loop' = [loop EXCEPT !.pc = "voucher"]
  /\ mem' = [mem EXCEPT !.eq = MaxSeen(EquivalentBytes(Reported), @)]
  /\ UNCHANGED <<sim, channel, high, row, hooks, closer, history>>

LoopSigned ==
  /\ loop.pc = "voucher" /\ Signs(ExpectedAmount(mem.eq))
  /\ loop' = [pc |-> "policy", kind |-> "signed"]
  /\ UNCHANGED <<sim, channel, row, hooks, mem, closer, history>>

LoopUnsigned ==
  /\ loop.pc = "voucher" /\ Refuses(ExpectedAmount(mem.eq))
  /\ loop' = [pc |-> "policy", kind |-> "unsigned"]
  /\ UNCHANGED <<sim, channel, row, hooks, mem, closer, history>>

\* processCumulative(): the SIM is suspended when the channel is exhausted.
LoopPolicy ==
  /\ loop.pc = "policy"
  /\ IF Exhausted(Deposit, mem.eq) THEN SuspendSim ELSE UNCHANGED sim
  /\ loop' = [loop EXCEPT !.pc = "apply"]
  /\ UNCHANGED <<channel, high, row, hooks, mem, closer, history>>

LastSigned == IF loop.kind = "signed" THEN ExpectedAmount(mem.eq) ELSE mem.signed
UnpaidActive == ExpectedAmount(mem.eq) - LastSigned > Cap /\ loop.kind # "signed"

\* What the cap asks of the SIM: suspend once, resume once vouchers are signed again.
CapEffect ==
  CASE UnpaidActive /\ ~mem.susp -> SuspendSim
    [] ~UnpaidActive /\ mem.susp -> ResumeSim
    [] OTHER -> UNCHANGED sim

LoopApplies ==
  /\ loop.pc = "apply" /\ CapEffect
  /\ mem' = [mem EXCEPT !.signed = LastSigned, !.susp = UnpaidActive]
  /\ loop' = LoopOff
  /\ UNCHANGED <<channel, high, row, hooks, closer, history>>

\* Mutant: the flag is written before the call that may throw, not after it.
LoopFlagsFirst ==
  /\ loop.pc = "apply" /\ (CapEffect \/ UNCHANGED sim)
  /\ mem' = [mem EXCEPT !.signed = LastSigned, !.susp = UnpaidActive]
  /\ loop' = LoopOff
  /\ Fault
  /\ UNCHANGED <<channel, high, row, hooks, closer, past>>

\* suspend() or resume() throws: it was refused, or only its answer was lost.
LoopApplyFails ==
  /\ loop.pc = "apply" /\ (CapEffect \/ UNCHANGED sim)
  /\ mem' = [mem EXCEPT !.signed = LastSigned]
  /\ loop' = LoopOff
  /\ Fault
  /\ UNCHANGED <<channel, high, row, hooks, closer, past>>

\* A reading, a balance or the policy's suspend() throws: the next tick tries again.
LoopFails ==
  /\ loop.pc \notin {"idle", "apply"}
  /\ loop' = LoopOff
  /\ Fault
  /\ UNCHANGED <<sim, channel, high, row, hooks, mem, closer, past>>

LoopRestarts ==
  /\ loop' = LoopOff /\ mem' = [eq |-> 0, signed |-> 0, susp |-> FALSE]
  /\ Fault
  /\ UNCHANGED <<sim, channel, high, row, hooks, closer, past>>

\* PolicyEnforcer.runOnce(): on its own timer, over the session the loop fills in.
EnforcerSuspends ==
  /\ Exhausted(Deposit, mem.eq) /\ SuspendSim
  /\ UNCHANGED <<sent, channel, high, row, wlog, working, usage, closer, history>>

----------------------------------------------------------------------------
(* close-session.ts and SessionCloser *)

\* One step of the walk is done: without --wait the CLI is done too.
StepDone == cli' = IF cli.wait THEN [CliOff EXCEPT !.pc = "ready", !.wait = TRUE] ELSE CliOff
At(step) == cli.pc = "ready" /\ row.step = step

\* beginClose(): a defund issued before is waited for, not repeated.  On a walk
\* under way it answers already_closing and the CLI exits: nothing drives it on.
CliStarts ==
  /\ cli.pc = "off" /\ row.step = "none"
  /\ row' = [row EXCEPT !.step = IF row.pending THEN "defund_liquidado" ELSE "defund_solicitado"]
  /\ \E w \in BOOLEAN : cli' = [CliOff EXCEPT !.pc = "ready", !.wait = w]
  /\ zero' = FALSE
  /\ UNCHANGED <<citrus, channel, high, wlog, working, usage, billed, history>>

\* Past CITRUS_DEFUND_TIMEOUT_MS, or the process dies: the walk stays where it is.
CliEnds ==
  /\ cli.pc # "off" /\ cli' = CliOff /\ zero' = FALSE
  /\ Fault
  /\ UNCHANGED <<citrus, channel, high, row, wlog, working, usage, billed, past>>

\* stepSolicitar(): Citrus pauses the data at once and accepts one defund at a time.
Defund ==
  /\ At("defund_solicitado") /\ row.defund = "none" /\ ~sim.defund
  /\ sim' = [sim EXCEPT !.on = FALSE, !.defund = TRUE]
  /\ cli' = [cli EXCEPT !.pc = "defund"]
  /\ UNCHANGED <<sent, channel, high, row, wlog, working, usage, zero, billed, history>>

\* Refused, a defund is pending; or no answer, before or after it was accepted.
DefundRefused ==
  /\ At("defund_solicitado") /\ row.defund = "none" /\ sim.defund /\ StepDone
  /\ UNCHANGED <<citrus, channel, high, row, wlog, working, usage, zero, billed, history>>

DefundFails ==
  /\ (At("defund_solicitado") /\ row.defund = "none") \/ cli.pc = "defund"
  /\ StepDone /\ Fault
  /\ UNCHANGED <<citrus, channel, high, row, wlog, working, usage, zero, billed, past>>

\* refundUnused() persists the 202; then the marker moves.
DefundAnswered ==
  /\ cli.pc = "defund"
  /\ row' = [row EXCEPT !.pending = TRUE, !.defund = "open"]
  /\ cli' = [cli EXCEPT !.pc = "mark"]
  /\ UNCHANGED <<citrus, channel, high, wlog, working, usage, zero, billed, history>>

\* Mutant: a defund answered before the process died is not passed over.
DefundMarkedOnce ==
  /\ cli.pc = "mark"
  /\ row' = [row EXCEPT !.step = "defund_liquidado"]
  /\ StepDone
  /\ UNCHANGED <<citrus, channel, high, wlog, working, usage, zero, billed, history>>

DefundMarked ==
  /\ cli.pc = "mark" \/ (At("defund_solicitado") /\ row.defund # "none")
  /\ row' = [row EXCEPT !.step = "defund_liquidado"]
  /\ StepDone
  /\ UNCHANGED <<citrus, channel, high, wlog, working, usage, zero, billed, history>>

\* advanceAfterSettlement(): the marker moves, the final voucher follows at once.
Advances ==
  /\ row' = [row EXCEPT !.step = "ultimo_vale_firmado",
                        !.defund = IF @ = "open" THEN "settled" ELSE @]
  /\ cli' = [cli EXCEPT !.pc = "final"]

\* Mutant: a defund record is taken for a settlement.
SettledByRequest ==
  /\ At("defund_liquidado") /\ row.defund # "none" /\ Advances
  /\ UNCHANGED <<citrus, channel, high, wlog, working, usage, zero, billed, history>>

SettledByEvent ==
  /\ At("defund_liquidado") /\ row.defund = "settled" /\ Advances
  /\ UNCHANGED <<citrus, channel, high, wlog, working, usage, zero, billed, history>>

\* Mutant: the poll does not look at the wallet.
SettledByAnyPoll ==
  /\ At("defund_liquidado") /\ row.defund # "settled" /\ Advances
  /\ UNCHANGED <<citrus, channel, high, wlog, working, usage, zero, billed, history>>

\* The fallback: the wallet has read 0 for the whole stable window.
SettledByPoll ==
  /\ At("defund_liquidado") /\ row.defund # "settled" /\ sim.wallet = 0 /\ zero /\ Advances
  /\ UNCHANGED <<citrus, channel, high, wlog, working, usage, zero, billed, history>>

\* Not yet: 0 for too short a time, or a wallet with money in it.
KeepsWaiting ==
  /\ At("defund_liquidado") /\ row.defund # "settled" /\ StepDone
  /\ zero' = (sim.wallet = 0 /\ cli.wait)
  /\ UNCHANGED <<citrus, channel, high, row, wlog, working, usage, billed, history>>

PollFails ==
  /\ At("defund_liquidado") /\ row.defund # "settled" /\ StepDone
  /\ Fault
  /\ UNCHANGED <<citrus, channel, high, row, wlog, working, usage, zero, billed, past>>

\* stepUltimoVale(): the consumption read after the settlement.
FinalReads ==
  /\ cli.pc = "final" \/ At("ultimo_vale_firmado")
  /\ cli' = [cli EXCEPT !.pc = "voucher", !.eq = EquivalentBytes(Reported)]
  /\ UNCHANGED <<citrus, channel, high, row, wlog, working, usage, zero, billed, history>>

FinalVoucher ==
  /\ cli.pc = "voucher"
  /\ \E kind \in {"signed", "unsigned"} :
       /\ IF kind = "signed" THEN Signs(ExpectedAmount(cli.eq)) ELSE Refuses(ExpectedAmount(cli.eq))
       /\ cli' = [cli EXCEPT !.pc = "answered", !.kind = kind]
  /\ UNCHANGED <<citrus, channel, row, wlog, working, usage, zero, billed, history>>

\* The policy is applied; the marker moves whatever the voucher's answer was.
FinalMarked ==
  /\ cli.pc = "answered"
  /\ IF Exhausted(Deposit, cli.eq) THEN SuspendSim ELSE UNCHANGED sim
  /\ row' = [row EXCEPT !.step = "canal_cerrado"] /\ billed' = cli.kind
  /\ StepDone
  /\ UNCHANGED <<sent, channel, high, wlog, working, usage, zero, history>>

\* The reading, the balance or the policy's suspend() throws.
FinalFails ==
  /\ cli.pc \in {"final", "answered"} \/ At("ultimo_vale_firmado")
  /\ StepDone
  /\ Fault
  /\ UNCHANGED <<citrus, channel, high, row, wlog, working, usage, zero, billed, past>>

\* stepCerrar(): without a channel there is nothing to settle.
Closes ==
  /\ At("canal_cerrado")
  /\ channel' = IF channel = "open" THEN "settled" ELSE channel
  /\ cli' = [cli EXCEPT !.pc = "finalize"]
  /\ UNCHANGED <<citrus, high, row, wlog, working, usage, zero, billed, history>>

CloseFails ==
  /\ At("canal_cerrado") /\ channel # "none" /\ StepDone
  /\ Fault
  /\ UNCHANGED <<citrus, channel, high, row, wlog, working, usage, zero, billed, past>>

\* The row is idle again; defund stays in it, for the audit trail.
Finalizes ==
  /\ cli.pc = "finalize"
  /\ row' = [row EXCEPT !.step = "none", !.pending = FALSE]
  /\ cli' = CliOff
  /\ UNCHANGED <<citrus, channel, high, wlog, working, usage, zero, billed, history>>

\* The eSIM is used again, on a new channel: `billed` tells a trip that is over.
NextTrip ==
  /\ trip < Trips /\ row.step = "none" /\ billed # "none" /\ cli.pc = "off"
  /\ ~sim.defund /\ loop.pc = "idle"
  /\ trip' = trip + 1 /\ start' = sim.charged
  /\ sim' = [sim EXCEPT !.wallet = Wallet, !.on = TRUE]
  /\ channel' = "open" /\ high' = 0 /\ billed' = "none"
  /\ UNCHANGED <<sent, row, wlog, working, usage, cli, zero, faults>>

----------------------------------------------------------------------------
Tick == LoopStarts \/ LoopReads \/ LoopSigned \/ LoopUnsigned \/ LoopPolicy \/ LoopApplies
Walk == Defund \/ DefundRefused \/ DefundFails \/ DefundAnswered \/ DefundMarked \/ SettledByEvent
        \/ SettledByPoll \/ KeepsWaiting \/ PollFails \/ FinalReads \/ FinalVoucher \/ FinalMarked
        \/ FinalFails \/ Closes \/ CloseFails \/ Finalizes
Next ==
  \/ Consume \/ Settle
  \/ \E e \in 1..MaxDefunds : Deliver(e) \/ Process(e) \/ ProcessFails(e)
  \/ ServerRestarts
  \/ Tick \/ LoopApplyFails \/ LoopFails \/ LoopRestarts \/ EnforcerSuspends
  \/ CliStarts \/ CliEnds \/ Walk

Spec == Init /\ [][Next]_vars

\* The same, the eSIM being used for one trip after another.
SpecOfTrips == Init /\ [][Next \/ NextTrip]_vars

\* Calls are answered, the loop ticks, a CLI that runs with --wait goes on.
Fairness ==
  /\ WF_vars(Settle)
  /\ WF_vars(Walk) /\ WF_vars(SettledByPoll)
  /\ WF_vars(Tick) /\ SF_vars(LoopSigned)

FairSpec == Spec /\ Fairness

----------------------------------------------------------------------------
(* Properties *)

Over == row.step = "none" /\ billed # "none"

\* What is signed for a trip exceeds its consumption, at the markup, the exchange
\* rate and the price per MiB, by less than one raw unit (usage-math.ts:21-25, money.ts:47).
BillsOwnTrip ==
  (high - 1) * BytesPerMib * (Rate * PricePerMb) < (sim.charged - start) * Markup * Scale * PricePerMib

\* Once the walk is over and its voucher was signed, that voucher pays for all
\* the trip consumed, late charges included (SessionCloser.ts:19-23).
FinalBill == Over /\ billed = "signed" => high = Bill(sim.charged - start)

\* A trip that is over leaves no money in the wallet (citrus-mobile-spec.md R9).
NothingLeftBehind == Over => sim.wallet = 0

\* A SIM that the loop cut off for unpaid data, and knows it did, has its data
\* again once vouchers are signed again (usage-loop.ts:12-17), through refused
\* and lost resume() calls, unless the trip is closing, the channel cannot pay,
\* or the loop died: its flag is in memory only, and then nobody turns it on.
Closing == row.step # "none" \/ row.pending
Payable == channel = "open" /\ ExpectedAmount(mem.eq) <= Deposit
LoopIsNew == mem = [eq |-> 0, signed |-> 0, susp |-> FALSE]
CoveredIsResumed == mem.susp /\ ~sim.on ~> sim.on \/ Closing \/ ~Payable \/ LoopIsNew

\* A walk that close-session --wait drives is over in the end, through refused
\* and lost answers and lost webhooks, unless that process dies or gives up at
\* its deadline (close-session.ts:203-224).
DrivenWalkEnds == cli.pc # "off" /\ cli.wait ~> row.step = "none" \/ cli.pc = "off"
=============================================================================
