-------------------------------- MODULE Funding --------------------------------
(***************************************************************************)
(* Paying Citrus for a user's eSIM: FundingService.ensureFunded()          *)
(* (services/FundingService.ts) and CitrusProvider.provisionEsim() over    *)
(* the rows of persistence/esim-record.ts, with what CitrusClient.request  *)
(* leaves to its callers: reads are retried, provision and fund are sent   *)
(* once, and a call may fail before or after it took effect.               *)
(*                                                                         *)
(* esims holds the user's rows in the order of the file; ensureFunded() is *)
(* called for the first one.  Wallet and funding are in cents.             *)
(***************************************************************************)
EXTENDS Pricing, Sequences, FiniteSets

CONSTANTS
  Calls,       \* ensureFunded() calls that may be under way
  Asks,        \* provisionEsim() calls that may be under way
  Nobody,      \* no call
  Deposits,    \* deposits the channel goes through, by top-ups
  Slack,       \* cents by which a landed fund may show less (6 in the code)
  MaxFaults,   \* bound: lost answers, failed calls, restarts, late funds
  MaxEsims,    \* bound: eSIMs Citrus sells to the user
  MaxTrips     \* bound: times an eSIM is defunded

ASSUME FundingAssumption ==
  /\ Deposits \subseteq Nat /\ Deposits # {} /\ Slack \in Nat \ {0}
  /\ Nobody \notin Calls \cup Asks
  /\ MaxFaults \in Nat /\ MaxEsims \in Nat /\ MaxTrips \in Nat

VARIABLES
  deposit,   \* the channel's deposit, raw
  wallet,    \* Citrus: the first eSIM's wallet
  landed,    \* Citrus: what funds have put into it this trip
  late,      \* Citrus: a fund whose caller gave up and which may still land
  bought,    \* Citrus: eSIMs sold to the user
  esims,     \* disk: the rows of the user
  fund,      \* disk: fundedMicroUsd and pendingFund of the first row
  call,      \* per ensureFunded(): where it is and what it has read
  lock,      \* the mutex of esim:<userRef>: its holder
  ask,       \* per provisionEsim(): where it is
  doubt,     \* history: two calls met, the wallet moved in between, a fund was judged too early
  lost,      \* history: provisions whose answer never became a row
  faults, trips

citrus == <<wallet, landed, late>>
shop == <<bought, esims, lock, ask, lost>>
vars == <<deposit, wallet, landed, late, bought, esims, fund, call, lock, ask, doubt, lost, faults, trips>>

\* One fund is at most what Citrus allows; wallets and totals have no bound of their own.
Amounts == 0..MaxCents
Cents == Nat
\* No intent is one for nothing.
NoIntent == [amt |-> 0, before |-> 0]
Intent == [amt : Amounts, before : Cents]
CallOff == [pc |-> "off", funded |-> 0, pending |-> NoIntent, max |-> 0, seen |-> 0]

TypeOK ==
  /\ deposit \in Deposits
  /\ wallet \in Cents /\ landed \in Cents /\ late \in Amounts
  /\ bought \in 0..MaxEsims /\ lost \in 0..MaxEsims
  /\ esims \in Seq({"live", "pending", "terminated"}) /\ Len(esims) <= MaxEsims
  /\ fund \in [funded : Cents, pending : Intent]
  /\ call \in [Calls -> [pc : {"off", "deposit", "wallet", "landed", "dropped", "gap", "post", "confirm", "refused"},
                         funded : Cents, pending : Intent, max : Amounts, seen : Cents]]
  /\ lock \in Asks \cup {Nobody}
  /\ lock # Nobody => ask[lock] \in {"buying", "bought"}
  /\ ask \in [Asks -> {"off", "queued", "buying", "bought"}]
  /\ doubt \in BOOLEAN /\ faults \in 0..MaxFaults /\ trips \in 0..MaxTrips

Init ==
  /\ deposit \in Deposits
  /\ wallet = 0 /\ landed = 0 /\ late = 0
  /\ bought = 0 /\ esims = <<>> /\ lost = 0
  /\ fund = [funded |-> 0, pending |-> NoIntent]
  /\ call = [c \in Calls |-> CallOff]
  /\ lock = Nobody /\ ask = [a \in Asks |-> "off"]
  /\ doubt = FALSE /\ faults = 0 /\ trips = 0

Fault == faults < MaxFaults /\ faults' = faults + 1
Busy == {c \in Calls : call[c].pc # "off"}
Live == esims # <<>> /\ esims[1] = "live"

----------------------------------------------------------------------------
(* The channel, the trip, Citrus *)

DepositGrows ==
  /\ \E d \in Deposits : d > deposit /\ deposit' = d
  /\ UNCHANGED <<citrus, shop, fund, call, doubt, faults, trips>>

\* Data is used.  While a fund is unresolved the wallet no longer tells whether it landed.
Spend ==
  /\ wallet > 0 /\ wallet' = wallet - 1
  /\ doubt' = (doubt \/ fund.pending # NoIntent \/ Busy # {})
  /\ UNCHANGED <<deposit, landed, late, shop, fund, call, faults, trips>>

\* A fund whose caller timed out takes effect after all.
LandsLate ==
  /\ late > 0 /\ Live
  /\ wallet' = wallet + late /\ landed' = landed + late /\ late' = 0
  /\ doubt' = (doubt \/ Busy # {})
  /\ UNCHANGED <<deposit, shop, fund, call, faults, trips>>

NeverLands ==
  /\ late > 0 /\ late' = 0
  /\ UNCHANGED <<deposit, wallet, landed, shop, fund, call, doubt, faults, trips>>

\* refundUnused() of the closing walk, and finalize(): pendingFund is not touched.
DefundStarts ==
  /\ Live /\ trips < MaxTrips /\ trips' = trips + 1
  /\ esims' = [esims EXCEPT ![1] = "pending"]
  /\ doubt' = (doubt \/ Busy # {})
  /\ UNCHANGED <<deposit, citrus, fund, call, bought, lock, ask, lost, faults>>

DefundEnds ==
  /\ esims # <<>> /\ esims[1] = "pending"
  /\ esims' = [esims EXCEPT ![1] = "live"]
  /\ wallet' = 0 /\ landed' = 0 /\ late' = 0
  /\ fund' = [fund EXCEPT !.funded = 0]
  /\ UNCHANGED <<deposit, call, bought, lock, ask, doubt, lost, faults, trips>>

\* terminate(): an empty wallet, and no defund under way.
Terminate ==
  /\ Live /\ wallet = 0 /\ trips < MaxTrips /\ trips' = trips + 1
  /\ esims' = [esims EXCEPT ![1] = "terminated"]
  /\ doubt' = (doubt \/ Busy # {})
  /\ UNCHANGED <<deposit, citrus, fund, call, bought, lock, ask, lost, faults>>

----------------------------------------------------------------------------
(* ensureFunded() *)

Goes(c, pc) == call' = [call EXCEPT ![c].pc = pc]
Ends(c) == call' = [call EXCEPT ![c] = CallOff]

\* no_row, closing, defund_pending and terminated return at once.
Start(c) ==
  /\ call[c].pc = "off" /\ Live
  /\ call' = [call EXCEPT ![c] = [CallOff EXCEPT !.pc = "deposit", !.funded = fund.funded,
                                                 !.pending = fund.pending]]
  /\ doubt' = (doubt \/ Busy # {})
  /\ UNCHANGED <<deposit, citrus, shop, fund, faults, trips>>

ReadsDeposit(c) ==
  /\ call[c].pc = "deposit"
  /\ call' = [call EXCEPT ![c].pc = "wallet", ![c].max = MaxWalletCents(deposit)]
  /\ UNCHANGED <<deposit, citrus, shop, fund, doubt, faults, trips>>

\* C5: Citrus may show less than the wallet holds.
Shown == {w \in (wallet - Slack)..wallet : w = wallet \/ (w > wallet - Slack /\ w >= 0)}

\* Mutant: the rounding of the wallet is not allowed for.
LandedExactly(pending, w) == w >= pending.before + pending.amt

\* Reconciling an intent of an earlier call with the wallet.
Landed(pending, w) == w >= pending.before + pending.amt - Slack

ReadsWallet(c) ==
  /\ call[c].pc = "wallet"
  /\ \E w \in Shown :
       call' = [call EXCEPT ![c].seen = w,
                            ![c].pc = IF call[c].pending = NoIntent THEN "gap"
                                      ELSE IF Landed(call[c].pending, w) THEN "landed" ELSE "dropped"]
  /\ UNCHANGED <<deposit, citrus, shop, fund, doubt, faults, trips>>

Reconciles(c) ==
  /\ call[c].pc = "landed"
  /\ LET funded == call[c].funded + call[c].pending.amt
     IN  /\ fund' = [funded |-> funded, pending |-> NoIntent]
         /\ call' = [call EXCEPT ![c].pc = "gap", ![c].funded = funded]
  /\ doubt' = (doubt \/ late > 0)
  /\ UNCHANGED <<deposit, citrus, shop, faults, trips>>

DropsIntent(c) ==
  /\ call[c].pc = "dropped"
  /\ fund' = [fund EXCEPT !.pending = NoIntent]
  /\ Goes(c, "gap") /\ doubt' = (doubt \/ late > 0)
  /\ UNCHANGED <<deposit, citrus, shop, faults, trips>>

Gap(c) == call[c].max - call[c].funded

AlreadyFunded(c) ==
  /\ call[c].pc = "gap" /\ Gap(c) <= 0 /\ Ends(c)
  /\ UNCHANGED <<deposit, citrus, shop, fund, doubt, faults, trips>>

\* Mutant: the intent is not written before the call.
PostsFirst(c) ==
  /\ call[c].pc = "gap" /\ Gap(c) > 0 /\ Goes(c, "post")
  /\ UNCHANGED <<deposit, citrus, shop, fund, doubt, faults, trips>>

\* R5: the intent is on disk before POST /fund goes out.
Intends(c) ==
  /\ call[c].pc = "gap" /\ Gap(c) > 0
  /\ fund' = [fund EXCEPT !.pending = [amt |-> Gap(c), before |-> call[c].seen]]
  /\ Goes(c, "post")
  /\ UNCHANGED <<deposit, citrus, shop, doubt, faults, trips>>

\* Citrus: no fund while a defund is pending, nor for a terminated eSIM.
FundLands(c) ==
  /\ call[c].pc = "post" /\ Live
  /\ wallet' = wallet + Gap(c) /\ landed' = landed + Gap(c)
  /\ Goes(c, "confirm")
  /\ UNCHANGED <<deposit, late, shop, fund, doubt, faults, trips>>

FundRefused(c) ==
  /\ call[c].pc = "post" /\ Goes(c, "refused")
  /\ UNCHANGED <<deposit, citrus, shop, fund, doubt, faults, trips>>

\* No answer: it landed, or it may still.  The intent stays.
FundFails(c) ==
  /\ call[c].pc \in {"post", "confirm"} /\ late = 0
  /\ late' = IF call[c].pc = "post" THEN Gap(c) ELSE 0
  /\ Ends(c) /\ Fault
  /\ UNCHANGED <<deposit, wallet, landed, shop, fund, doubt, trips>>

ClearsIntent(c) ==
  /\ call[c].pc = "refused"
  /\ fund' = [fund EXCEPT !.pending = NoIntent]
  /\ Ends(c)
  /\ UNCHANGED <<deposit, citrus, shop, doubt, faults, trips>>

Confirms(c) ==
  /\ call[c].pc = "confirm"
  /\ fund' = [funded |-> call[c].funded + Gap(c), pending |-> NoIntent]
  /\ Ends(c)
  /\ UNCHANGED <<deposit, citrus, shop, doubt, faults, trips>>

\* A reading fails after its retries, or the process dies between two steps.
Fails(c) ==
  /\ call[c].pc \notin {"off", "post", "confirm"} /\ Ends(c) /\ Fault
  /\ UNCHANGED <<deposit, citrus, shop, fund, doubt, trips>>

----------------------------------------------------------------------------
(* provisionEsim() *)

Ask(a) ==
  /\ ask[a] = "off" /\ ask' = [ask EXCEPT ![a] = "queued"]
  /\ UNCHANGED <<deposit, citrus, bought, esims, lock, lost, fund, call, doubt, faults, trips>>

\* getByUserRef() answers the first row of the user, whatever became of its eSIM.
Reuses(a) ==
  /\ ask[a] = "queued" /\ lock = Nobody /\ Live
  /\ ask' = [ask EXCEPT ![a] = "off"]
  /\ UNCHANGED <<deposit, citrus, bought, esims, lock, lost, fund, call, doubt, faults, trips>>

\* Mutant: the lock is not waited for.
BuysUnlocked(a) ==
  /\ ask[a] = "queued" /\ ~Live /\ lock' = a
  /\ ask' = [ask EXCEPT ![a] = "buying"]
  /\ UNCHANGED <<deposit, citrus, bought, esims, lost, fund, call, doubt, faults, trips>>

Buys(a) ==
  /\ ask[a] = "queued" /\ lock = Nobody /\ ~Live /\ lock' = a
  /\ ask' = [ask EXCEPT ![a] = "buying"]
  /\ UNCHANGED <<deposit, citrus, bought, esims, lost, fund, call, doubt, faults, trips>>

Sold(a) ==
  /\ ask[a] = "buying" /\ bought < MaxEsims /\ bought' = bought + 1
  /\ ask' = [ask EXCEPT ![a] = "bought"]
  /\ UNCHANGED <<deposit, citrus, esims, lock, lost, fund, call, doubt, faults, trips>>

Records(a) ==
  /\ ask[a] = "bought" /\ esims' = Append(esims, "live")
  /\ ask' = [ask EXCEPT ![a] = "off"] /\ lock' = Nobody
  /\ UNCHANGED <<deposit, citrus, bought, lost, fund, call, doubt, faults, trips>>

\* Mutant: a failed provisioning keeps the lock.
BuyFailsHolding(a) ==
  /\ ask[a] \in {"buying", "bought"} /\ Fault
  /\ lost' = IF ask[a] = "bought" THEN lost + 1 ELSE lost
  /\ ask' = [ask EXCEPT ![a] = "off"] /\ UNCHANGED lock
  /\ UNCHANGED <<deposit, citrus, bought, esims, fund, call, doubt, trips>>

\* provision is sent once: refused, or sold and the answer or the process lost.
BuyFails(a) ==
  /\ ask[a] \in {"buying", "bought"} /\ Fault
  /\ lost' = IF ask[a] = "bought" THEN lost + 1 ELSE lost
  /\ ask' = [ask EXCEPT ![a] = "off"] /\ lock' = Nobody
  /\ UNCHANGED <<deposit, citrus, bought, esims, fund, call, doubt, trips>>

----------------------------------------------------------------------------
EnsureFunded(c) ==
  \/ Start(c) \/ ReadsDeposit(c) \/ ReadsWallet(c) \/ Reconciles(c) \/ DropsIntent(c)
  \/ AlreadyFunded(c) \/ Intends(c) \/ FundLands(c) \/ FundRefused(c) \/ FundFails(c)
  \/ ClearsIntent(c) \/ Confirms(c) \/ Fails(c)
ProvisionEsim(a) == Ask(a) \/ Reuses(a) \/ Buys(a) \/ Sold(a) \/ Records(a) \/ BuyFails(a)
Next ==
  \/ DepositGrows \/ Spend \/ LandsLate \/ NeverLands
  \/ DefundStarts \/ DefundEnds \/ Terminate
  \/ \E c \in Calls : EnsureFunded(c)
  \/ \E a \in Asks : ProvisionEsim(a)

Spec == Init /\ [][Next]_vars

----------------------------------------------------------------------------
(* Properties *)

\* I2 in every branch: what was paid into the wallet, marked up, is covered by the
\* deposit, unless two calls met, the wallet moved while a fund was unresolved, or
\* an intent was resolved while its fund could still land (FundingService.ts:6-7).
FundedWithinDeposit == ~doubt => landed * RawPerCent * Markup <= deposit * Rate

\* No crash and no lost answer makes the service forget what landed: it is on disk, as
\* funded or as an intent to be reconciled (FundingService.ts:9-14). And what the row says
\* was funded has landed, but for the funds an interrupted call left behind that are too
\* small to be told from the rounding (C5): both readings may be short, so a fund of up
\* to twice the rounding is credited without having landed.
Accounted == landed <= fund.funded + fund.pending.amt
Unreal == 2 * Slack - 1
CreditIsReal == fund.funded <= landed + Unreal * faults
OnRecord == ~doubt => Accounted /\ CreditIsReal

\* Two provisionings at once buy one eSIM (CitrusProvider.ts:9-12): as long as
\* the first stays in service, the user pays for no second one but those whose
\* answer was lost.
BoughtOnce == Live /\ trips = 0 => bought <= 1 + lost
=============================================================================
