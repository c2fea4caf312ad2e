# TLA+ model of payments-mpp

payments-mpp sells mobile data by the byte. A gateway meters consumption and
asks the *agent* for a signed cumulative voucher; the agent delivers every
voucher to the *server*, which keeps the highest one and settles it on a
one-way payment channel (a Soroban contract). Around that core, connectivity
services buy the eSIM's wallet from a provider (Citrus), follow its usage and
close a trip; a product API sells missions on top, and an app shows them. This
directory models the parts whose correctness depends on interleaving, failure
and order. Paths below are relative to the repository's
`src/`.

* [Inventory](#inventory): the system's parts, state, interactions, hazards
* [Modules](#modules): which module models what, and how
* [Runs](#runs): what TLC checks and shows, bounds, fairness, divergences
* [Proofs](#proofs): what TLAPS proves and along which argument
* [Limits](#limits): what is only model-checked, and what is not modelled
* [Plan](#plan): what is done, and what comes next

`tlc -config X.cfg M` checks a run of PROJECT.json; `tlapm M.tla` checks a
proof module.

## Inventory

The processes are the agent (`agent/main.ts serve`), the payment server
(`server/main.ts`), the operator CLIs (`agent/channel.ts`,
`server/channel-admin.ts`, `server/close-session.ts`) and the meter or product
process, and the app in a browser. All are single-threaded: a hazard is an
`await` another handler, timer or process gets in at, an answer that comes late,
or a crash.

| Part | State it keeps | Operations | Talks to |
|---|---|---|---|
| Voucher log (`persistence/voucher-log.ts`) | JSONL file, in-memory maximum per channel | `open`, `append`, `getHighest` | file system |
| Agent voucher service (`agent/routes/vouchers.ts`) | `pendingBatches`, the channel lock | `handle`, `processBatch`, `classify` | its log, cache, signer |
| Channel cache and guardrails (`agent/channel-cache.ts`, `guardrails.ts`) | channel info for `CACHE_TTL` | `getChannelInfo`, `checkGuardrails` | Soroban RPC, channel record |
| Delivering signer (`config/boot.ts`, `agent/signer.ts`) | none | `sign` = prepare, sign, POST | RPC, server |
| Agent channel CLI (`agent/channel.ts`) | `data/channel-{network}.json` | open, top-up, close-start, refund, state | contract |
| Server channel service and store (`server/channel-service.ts`, `channel-store.ts`, `routes/channel.ts`) | its log, its lock | `verifyAndAccept`, `accept`, `closeChannel` | RPC, contract, Horizon |
| Close monitor (`server/close-monitor.ts`) | `triggered`, `attemptInFlight`, last balance | `start`, `stop`, poll, watch, `attemptClose` | state port, `closeChannel` |
| Operator CLIs (`server/channel-admin.ts`, `close-session.ts`) | a second index over the server's log | close; the closing walk | contract, agent, eSIM store |
| eSIM store (`persistence/esim-record.ts`) | one file with every eSIM's row | `get`, `update` (lock per eSIM, read-modify-write of the file) | file system |
| Funding (`services/FundingService.ts`) | `pendingFund`, `fundedMicroUsd` in the row | `ensureFunded` | provider, channel balance |
| Usage loop (`jobs/usage-loop.ts`) | last bytes, last signed, suspended flag | `runOnce` per tick | provider, meter |
| Closing walk (`services/SessionCloser.ts`) | `closing.step`, `defund` in the row; zero-wallet timer | `beginClose`, `runOnce` | provider, meter, `closeChannel` |
| Webhooks (`services/CitrusWebhookHandler.ts`, `persistence/webhook-event.ts`) | event log, dedup map | `handle`, `replay` | eSIM store |
| Meter and policy (`meter/*`, `services/PolicyEnforcer.ts`) | session counters | `processCumulative`, pay-before-connect | agent, provider |
| Stage 1 charge (`server/charge-service.ts`, `routes/charge.ts`, `agent/charge-client.ts`) | billed bytes per session | GET /paid-resource | charge port |
| Fail-closed boot (`config/boot.ts`, `*/app.ts`, `*/main.ts`) | the instance or why there is none | `ensureReady`, start of the monitor | everything above |
| Missions (`product/**`) | `missions.json` | create, pay, activate, pause, resume, top up, finish | Cosmo Pay, provider, `closeChannel` |
| Shared algorithms (`shared/retry.ts`, `money.ts`, `usage-math.ts`, `mutex.ts`, `token-bucket.ts`) | per call, a promise chain, a bucket | | |
| One-way-channel contract, Citrus, Horizon, Cosmo Pay | external | | |
| App (`frontend/src`: `hooks/useMission.ts`, `services/*`, pages, top-up modal) | a mission per component, `localStorage`, polls and handlers under way | load, poll, create, pay, activate, pause, top up, finish | product API; in demo mode `localStorage` alone |
| `scripts/`, reconciliation job, cursor | diagnostics | | |

What makes each part correct, in a sentence:

* **Voucher log**: what was acknowledged is never lost, whatever the process,
  the disk or the power does; a reopened owner never believes in less.
* **Agent service**: every signed answer is backed by a voucher in the log that
  covers it; one voucher is announced as new once; a batch always settles.
* **Agent and server together**: the agent records only what the server can
  collect; what the server holds is at most one `MAX_DELTA_PER_REQUEST_RAW`
  ahead of the agent.
* **Closing**: what was accepted is what is settled; a dispute is answered
  however often the close fails; nothing is accepted that cannot be collected.
* **Trip**: the wallet never gets more than the deposit supports; a trip pays
  for its own consumption and no other's; the walk reaches its end after any
  crash.
* **Webhooks**: an event takes effect, though its delivery is repeated, late or
  cut off by a death.
* **Funding**: what Citrus holds is covered by the deposit and never forgotten.
* **Boot, charges**: one instance of what a process has, with its monitor; what
  counts as billed was paid, once.
* **Missions**: no request, on whatever copy, makes up a payment, an eSIM or a
  quota; what a client was told is on disk.
* **App**: what is paid is paid for the mission it was meant for; what is shown
  is in the end what the server has; stored missions add up.

The behaviours that are hard to test are listed one by one, with their lines,
under `hazards` in PROJECT.json, with the property that covers each.

## Modules

### VoucherRegister, VoucherLog: one append-only log

`VoucherLog` is `persistence/voucher-log.ts`. `file` is its sequence of lines; a
line is the record it came from and whether it parses. `term` is whether the
file ends with a newline, `synced` how many lines are certainly on the medium.
`append()` is three kinds of steps: `Append_` (the call), `WriteSync` (one
`fs.writeSync`, possibly short, to a position inside the record, at the end of
its JSON, or past its newline) and `AppendReturns` (fsync, index, return) or
`AppendThrows`. `open()` is one of `OpenCorrupt`, `OpenQuarantine`,
`OpenNewline`, `OpenClean`, by what the replay finds. `Crash` forgets memory,
`PowerLoss` also an arbitrary suffix of what is not synced. `acked` is a history
variable: vouchers somebody was told of, by an append that returned or by an
equal reading served from the index (`ServeHighest`).

`VoucherRegister` is what callers may assume: per channel, a stored maximum that
may be undone until it is promised and never after.

### VoucherLedger, VoucherFlow: from the reading to the server's log

`VoucherFlow` composes the agent's handler, its cache, the delivering signer and
the server, for one channel. A reading is an amount and whether it is the price
of its bytes (`priced`). The holder of the channel lock is described by `phase`:
`"info"` while `processBatch` awaits the channel info, `"sign"` while it awaits
`signer.sign()`; everything between two awaits is one step (`Classify` and the
action that uses it). Each `signer.sign()` call has an entry of `dlv` that says
how far its voucher got (signing, posted, verified, accepted or refused), and
goes on when its caller has given up on it: `cur` is the one call somebody still
waits for.

| Action | Code |
|---|---|
| `Ask` | `handle` joins or begins the pending batch |
| `TakeBatchHit`, `TakeBatchMiss`, `InfoArrives` | lock acquired; `getHighest`, channel info, `classify`, winner |
| `InfoFails`, `InfoTimesOut`, `LateInfo`, `CacheExpires` | RPC error; `withTimeout`; the abandoned read fills the cache; TTL |
| `SignAndPost`, `Fails`, `SignRejects` | commitment signed and posted; any error on the way; its answer |
| `SignReturns`, `SignAbandoned` | append and answers; timeout, abort or failing append |
| `ServerChecks`, `ServerAccepts` | `verifyAndAccept` to its second await; `ChannelVoucherStore.accept` |
| `TopUp`, `CloseStart` | the funder's CLI, with the record it may fail to write |
| `AgentRestarts`, `ServerRestarts` | crash and reopening of the log |

Each log is used as the register `VoucherLog` implements: `high` and `shigh` are
indexed maxima that survive restarts. This is sound where the first module's
assumptions hold (an append that fails leaves no partial line, see the runs
below). A signature is identified with its amount: ed25519 is deterministic and
the commitment binds channel, amount and network.

`VoucherLedger` is the promise: accepted amounts only grow, within the deposit
and within one `MaxDelta` of what the payer has recorded; the payer records only
what was accepted.

`MCVoucherFlow` gives amounts, the symmetry of requests and of calls (their
names are never compared except for equality) and a view that leaves out the
amounts of settled answers no property reads.

### ChannelSettlement, ChannelClose: the end of a channel

`ChannelClose` puts next to each other what can touch a channel that ends: the
funder (`TopUp`, `CloseStart`, `Refund`), vouchers still being accepted
(`Verify` and `Accept`, the two halves of `verifyAndAccept` around its awaits),
the close monitor, `closeChannel`, and the operator's CLI, a second process whose
index (`cliHigh`) is read once, when it starts.

The contract is `deposit`, `bal`, `dispute` (close_start executed), `ended`,
`paid` and `funder`. A call of `closeChannel` is the record `at[c]` of its caller
`c` (the monitor or the CLI): `pc` is the await it is in, the other fields are
its local variables (`amt`, `expect`, `fb` and `rb` for the balances before,
`fok` and `rok` for the last comparison, `saw` for `sawReading`, `left` for the
rounds left, `ans` whether the amount was chosen under dispute). A poll under way
remembers which polls had read before it (`older`) and whether one that read later
was answered first (`late`).

| Action | Code |
|---|---|
| `PollReads`, `PollAnswers`, `PollFails` | `pollOnce` before and after its await; polls may overlap |
| `WatchEvent`, `AttemptClose`, `RetryClose` | the watch port; `attemptClose` with `triggered` and `attemptInFlight` (`tries > 0`); the next attempt of `withRetry` |
| `TrustlineAnswers`, `StateAnswers`, `StateFails`, `BeforeAnswers` | the awaits of `closeChannel` before the transaction; the highest voucher is taken in `StateAnswers` |
| `Executes`, `CloseThrows`, `CloseReturns` | the transaction on the ledger; `close()` throws (failed, or its answer is lost) or returns |
| `FloatingExecutes` | a submitted transaction whose caller has given up or died |
| `VerifyRound`, `Outcome` | one round of the assertion loop; the outcome, the event and the latch |
| `CliStarts`, `CliCloses`, `CliDies` | `channel-admin close`, `close-session`: opening the log, calling `closeChannel` |
| `ServerRestarts` | crash and reboot: the log survives, the monitor forgets |

`owed`, `settler`, `answered` and `reported` are history variables. `ChannelSettlement` is
the promise: a channel ends once, by a close that collects an accepted amount or by a
refund after a dispute, and a close of the monitor that answers a dispute collects at
least what had been accepted when it began. A close of the CLI promises less: its
index is from when it started.

### Pricing, Retry: pure algorithms

`Pricing` is `shared/money.ts`, `shared/usage-math.ts` and the decision of
`PolicyEnforcer.ts`: every division and rounding as the code has it, over
constants for the code's factors. `Trip`, `Funding` and `Server` are built on it,
so that rounding is checked where it decides. `MCTrip` compares the operators
with what they are documented to compute (least quotient, charges that add up,
aligned prices, a wallet the deposit backs). `Retry` is `withRetry()` with its
backoff and the token bucket; `MCFunding` compares it with its documented limits
over all small schedules. These comparisons are `ASSUME`s, evaluated by every
run of the two modules.

### Trip: one eSIM from its first byte to the end of the walk

`Trip` composes the processes that act on one eSIM: the usage loop, the policy
enforcer, `close-session` with `SessionCloser`, and the server's webhook handler.
Each keeps its place (`loop.pc`, `cli.pc`, `working`) between two awaits; what
they share is Citrus (`sim`), the row on disk (`row`), the webhook log (`wlog`)
and the voucher register (`high`), the interface `VoucherFlow` gives: signed and
delivered, refused, or signed with the answer lost.

| Action | Code |
|---|---|
| `Consume`, `Settle` | Citrus charges the SIM, late charges under a defund included; settles a defund and sends `esim.defunded` |
| `Deliver`, `Process`, `ProcessFails`, `ServerRestarts` | record and answer 202; `onDefunded` and `markProcessed`; its failures, which are marked as processed too; a death in between |
| `LoopStarts` to `LoopApplies`, with `LoopFails`, `LoopApplyFails`, `LoopRestarts` | `runOnce()` at each of its awaits |
| `EnforcerSuspends` | `PolicyEnforcer.runOnce()` on its own timer |
| `CliStarts`, `CliEnds` | `beginClose`, with `--wait` or without (`StepDone`); deadline or death. A walk under way is `already_closing`: nothing takes it up again |
| `Defund`, `DefundAnswered`, `DefundMarked`, `DefundRefused`, `DefundFails` | `stepSolicitar` and the two writes after the 202 |
| `SettledByEvent`, `SettledByPoll`, `KeepsWaiting`, `PollFails` | `stepLiquidado` with the stable window |
| `FinalReads`, `FinalVoucher`, `FinalMarked`, `FinalFails` | `stepUltimoVale` |
| `Closes`, `CloseFails`, `Finalizes` | `stepCerrar`, `finalize` |
| `NextTrip` | the same eSIM on a new channel (only in `SpecOfTrips`) |

### Funding: paying Citrus once

`Funding` has `ensureFunded()` one await at a time for the user's first eSIM, and
`provisionEsim()` under its lock. The file of rows is read and written whole and
synchronously in one process, so one `update()` is one step. A fund that got no
answer is `late`: it may land at any time, or never. The wallet is shown with up
to `Slack` cents missing (C5). `doubt` marks what the code says it does not
handle: two overlapping calls, a wallet that moves or a fund that lands while an
intent is being resolved.

### Server: fail-closed boot, monitor and stage 1

`Server` is one process with two instances (`charge`, `channel`) behind
`createFailClosedBoot`: `BuildReady`, `BuildUnavailable`, the shared build that
requests wait for (`EnsureReady`, `Attempt`; `flight` counts the builds under way, so
that a second one could be seen), the interval that throttles the next one, and
what happens to those who waited. The channel instance is useful only with its
close monitor, started by `main()` and by the first voucher (`MainGoesOn`,
`DeliveryServed`). `AnswersReady` is `GET /ready`, which asks for both instances. On
top, `GET /paid-resource` step by step: reading the total,
the challenge, the settlement, the receipt and the write.

### Mission: requests over one file

`Mission` has the ten operations of `MissionProductService` as `Arrives`, `Finds`
(which decides, on the copy it found, what is refused), one action per operation
for its external call, and the save: `SaveReads` reads the whole file,
`SaveWrites` replaces it. Between any two of them another request may act, the
process may die, or a read may fail. Demo traffic goes on through the meter, the
voucher and the policy. Records are per mission; an eSIM is per user (`UserOf`), as
`provisionEsim(userId)` has it, so pausing, resuming or finishing one mission acts on
the SIM of all of them. A confirmation carries an intent of its own, which nothing
ties to the mission. `TopsUp` is the second half of `confirmTopUpPayment()`: the
channel and the eSIM are topped up, counted in `funded`. `agent` is the choice the
boot makes: an agent in memory per mission, whose deposit is the mission's budget, or
the agent and the one channel the environment names, which all missions share. A
mission has one top-up.

### MissionClient: the app

`MissionClient` follows one tab of the app in API mode: the page's `load` of the
saved mission, its `polls`, the top-up modal with the load of its own `useMission()`
(`Opens` to `ModalFails`), and the handlers under way (`jobs`), each with the
mission of the render that started it. `Mounts` is what is left of a page that is
left: its handlers go on, their answers are shown nowhere, and a load that fails
still forgets the saved id (`AsideFails`, which is also the load of the header's
badge). `Redirects` is the dashboard sending away who has no mission. The server is
the part of `Mission` the pages decide on, one request at a time (`Effect`).

## Runs

The log, flow and close runs check deadlock: nothing there may stop. The
others say `CHECK_DEADLOCK FALSE`: a trip that is over, a wallet that is spent and
requests, clicks or faults that have reached their bound end a behaviour.

| Run | Question | Result |
|---|---|---|
| `log_power` | Is anything acknowledged lost or forgotten when the process or the power fails anywhere? Does the file implement the register? | nothing; it does |
| `log_errors` | With I/O errors anywhere as well, is a synced readable line ever changed by a repair? | never |
| `flow_safety` | Signed answers backed by the log, the log by the server, the server by the deposit; one answer per voucher is new; exposure within one delta; the ledger refined | holds |
| `flow_live` | Is every request answered although RPC, signer or server hang? | yes |
| `close_dispute` | The monitor and two polls that may overlap: does it close only with a cause, and is a dispute always answered? | yes, but for polls answered out of order |
| `close_race` | Monitor and CLI closing at once: does the channel end once, for what was owed, is the latch earned, is the event emitted once? | yes; for what was owed if the monitor's close gets in |
| `trip_walk` | One trip with every failure and death: is it billed its own consumption; does a walk that ends leave an exact final voucher and an empty wallet; does a walk somebody drives end; does a SIM the loop knows it cut off get its data back? | yes; a walk whose CLI is gone stays where it is, and a loop that died or lost the answer leaves the SIM off |
| `fund_paid` | Refused, lost and late funds, deaths, two provisionings: is what Citrus holds backed and on record, what is on record real, and one eSIM bought? | yes |
| `server_boot` | Requests arming the instances, failed builds, restarts, overlapping charges: one instance each, monitored; billed is paid, once; does the channel instance come back, and `/ready`? | yes; `/ready` only with requests for `/paid-resource` |
| `mission_api` | Two overlapping requests on two missions of one user, with either agent, unreadable files, deaths: are budgets, eSIMs, top-ups and quotas backed, and answers kept? | yes; answers and single top-ups unless requests met |
| `client_app` | Lost and late answers, pages left and entered again: is a payment confirmed on its own mission, a top-up made on the mission shown, and does the page come to show what the server has? | yes, but for crossed answers |
| `trip_second` | The same eSIM on a second trip: is it billed its own consumption (`SessionCloser.ts:24-27`)? | no |

Where the code and what is said about it part:

* `trip_second`: `finalize()` resets the charged baseline to 0 and nothing else
  writes it, while Citrus reports the consumption of the SIM's life: the second
  trip of an eSIM is billed for the first as well, although the comment says the
  fields are reset "so the NEXT trip starts clean".

Seen while modelling, without a run of their own:

* Log: `append()` that throws after a partial write leaves its bytes in the file;
  the next record is glued to them, acknowledged, and cut off at the next start
  (`persistence/voucher-log.ts:274`; `CleanErrors` excludes it).
* Flow: a call abandoned after its voucher was posted leaves the agent's log
  behind the server's; a reading in between is signed below what was already
  signed (VE-R11), refused as stale and answered `internal_error` until a higher
  one comes. A top-up of a channel without a local record begins one with only the
  amount added (`agent/channel.ts:237`).
* Close: an unreadable funder balance counts as verified, so the close of a funder
  that has just lost its trustline is reported `closed` (CL-R10). Two polls
  answered in the wrong order make a top-up look like a drop and close a channel
  in use: that is the exception `AttemptHasCause` makes (`late`). `close-session` opens the
  log before the final voucher is asked for, and closes with that index.
* Walk: the state is on disk so that a crash resumes it (`SessionCloser.ts:6-9`), but
  nothing resumes it: run again, with `--wait` or without, the CLI answers
  `already_closing` and exits (`close-session.ts:194-199`), and no other process calls
  `SessionCloser.runOnce()`. A walk whose CLI died, ran into its deadline or was
  started without `--wait` stays where it is, its eSIM in `closing`; `DrivenWalkEnds`
  speaks of the others. The row's `defund.settledAt` survives `finalize()`, so the next
  walk skips its refund. R9's cross-check before the final voucher is missing. A
  non-retryable refusal of a voucher does not suspend the SIM by itself (R8).
* Loop: `suspendedByUnpaid` is in memory and set after `suspend()` has answered. A
  restart of the loop, or a suspend that took effect and whose answer was lost, leaves
  the SIM off with nobody to turn it on, vouchers signed or not (`LoopIsNew` and the
  antecedent of `CoveredIsResumed` name the two). An `enable()` whose answer is lost
  leaves the SIM on with the flag up.
* Boot: each instance is armed again only by a request for what it serves. After a failed
  build of the charge instance, `GET /ready` of a stage 2 server says 503 until somebody
  asks for `/paid-resource`, however many vouchers it takes (`health.ts:52-54`).
* Webhooks: `replay()` has no caller; an event recorded before a death is not
  processed by the next process, and a redelivery is a duplicate. The walk then
  ends by the poll.
* Provisioning: `getByUserRef()` answers the user's *first* row; when that eSIM is
  terminated or its defund pending, every call buys another one although a later
  one is in service (R4; `fund_paid` has these behaviours, `BoughtOnce` speaks of
  the others).
* Funding: two overlapping calls both fund the gap, money spent or landing while
  an intent is resolved makes it look lost, and an intent of less than
  twice the rounding is credited though it never landed (both readings
  may be short: `CreditIsReal`). `Retry-After` is not honoured, and
  retries take no tokens; the bucket sleeps a thousand times too long
  (`shared/token-bucket.ts:65`). `channelId` is written by nothing but this service.
* Store: `readMap()` takes any unreadable or corrupt file for an empty one, and
  the next update erases every row (`persistence/esim-record.ts:154-170`);
  `ensureFile()` of the missions does the same (`ReadFails`).
* Charge: overlapping charges, an unread receipt or a restart bill the same bytes
  again (`doubt` in `PaidOnce`).
* Missions: the app names the same user in every mission (`ApiMissionService.ts:61`)
  and the provider knows one eSIM per user, so pausing, resuming or finishing a mission
  does so to the others' data, which the others' records do not say. With
  `CHANNEL_CONTRACT` set all missions sign on one channel: the readings of one are
  refused as stale behind a higher one of another. `confirmPayment()` takes the intent
  from the request, so one payment can make several missions paid
  (`Confirms`; `PaymentsBack` asks for a validated payment, not for one each).
  `resumeMission` looks neither at the payment nor at the end; a top-up makes a paused
  mission active without resuming its eSIM; saves of whole files lose each other's
  updates. Two confirmations of one top-up that overlap, or one repeated after a death
  between the funding and the save, top up channel and eSIM twice (`doubt` in
  `FundedOnce`). A throwing `suspend()` loses the burst's bytes.
* App: polling ("when mission is active", `hooks/useMission.ts:87`) goes by the
  mission's id, so an answer to a poll for the mission before replaces the one just
  created, and the payment that waits is confirmed on the earlier one (`crossed`).
  So does a late poll after a load that failed late has taken the mission off the
  page: that needs three missions and two failures, more than the run has, and came
  out of the proof of `PaysItsMission`.
  Whatever makes `getMission()` fail, on the page, in the header or in the modal, the
  saved id is removed as "not found on server", whatever it is by then (`LoadFails`,
  `AsideFails`, `ModalFails`): the next page shows no mission, though one is paid. The
  wizard's button stays during creation, and two clicks create two missions. The modal
  tops up the mission that is saved, not the one its page shows: a page left while it
  was creating a mission saves that one's id behind the next page's back, and a top-up
  paid on what is shown goes to the new mission (`late`; five clicks).
* Demo mode of the app: the top-up modal tops up a copy of its own, and the page's
  next action saves the mission as it was before it; a mission consumed to zero is
  paused in both its statuses, and `topUp()` re-activates only if `esimStatus` is
  not `paused` (`DemoMissionService.ts:141-142`): never.

The models also have these behaviours, without a run that singles them out:

* A process crash after the last `writeSync` and before `fsync`, then a power
  loss: `open()` has indexed the whole line without syncing it, an equal reading
  was acknowledged from the index, and the line is gone (`log_power` with
  `Faults = {"crash", "power"}` violates `AckedSurvive`; hence `OneFault`).
* `channel_closing` from the server is thrown as a plain error by the delivering
  signer (`config/boot.ts:414`) and answered as retryable `internal_error`, as
  long as the agent's cache predates `close_start` (`SignRejects`; CL-R8).
* `closeChannel` takes the highest voucher before its awaits; one verified before
  `close_start` may be accepted after that and is not settled. `Settlement` says
  what does hold: all that had been accepted when the dispute began is collected.
* A poll during the verification of our own close sees the balance drop before
  the latch is set and alarms "with no close of ours on record".
* A call of `closeChannel` that never returns keeps `attemptInFlight` set for
  ever; the code has no timeout around it.

### Bounds

| Bound | Value | Why it is enough |
|---|---|---|
| `MaxLines` (length at which `append()` is no longer called) | 3, 4 in `log_errors` | A repair concerns the last line and its predecessor; a third line shows that earlier ones are left alone, a fourth that a glued line becomes a middle one |
| Amounts of the log | 1..3 | every order of three appends on one channel, and two channels |
| `Amounts` of the flow | 0..2, or {0, 1}, with `MaxDelta` 1 (2 in the violated runs) | lower, equal, next, and beyond one delta; zero is the odd first reading |
| `Req`, `Dlv` | 2 and 2; 2 and 1 for liveness | a coalesced pair, a batch behind a batch, an abandoned call racing its successor |
| `MaxDeposit` | 2; 1 for liveness | readings within, at and above the deposit, before and after a top-up |
| `late` | one answer | the last late answer to arrive is the one the cache keeps |
| `Amounts`, `MaxDeposit` of the close | {1} or {1, 2}; 2 | a voucher accepted before and one after the highest is taken; a rest to refund; a top-up |
| `Burst`, `Attempts` | 1 or 2 | a last attempt and one that is not; a round of verification that decides and one that does not |
| `Poll` | 0 (`close_race`: the watch port alone) or 2 | polls in order, and the shortest overlap |
| `reported` | counts to 2 | one event more than allowed |
| `Slot` | reuses a slot when all calls are out | that abandoned call is one that never comes back; the other schedule is present with the free slot |
| `Wallet`, `Deposit`, `Cap` of a trip | 2, 2 (4 in `trip_second`), 1 | consumption within and beyond what the channel pays, unpaid amounts within and beyond the cap; markup 3/2 so that bytes and amounts round |
| `BytesPerMib`, `PricePerMib` of a trip | 3, 2 | a byte is less than a raw unit and a MiB more than one: bills round, and an error of one unit shows |
| `MaxFaults` | 1 to 3 | a lost answer and a death after it; in `fund_paid` a lost fund, its lost reconciliation and a third |
| `MaxDefunds`, `MaxTrips`, `MaxEsims` | 2, 1, 2 | a settlement and one of a repeated defund; one defund or end of an eSIM; one more eSIM than is needed |
| `Calls`, `Asks` of `Funding` | 1 and 2 | two overlapping fundings set `doubt` at once, so a second call adds nothing to the properties; two provisionings contend for the lock |
| `Deposits`, `Slack` | {4, 10}, 2 | gaps above and below the rounding, and below twice the rounding; a top-up in between |
| `Charges`, `Deliveries`, `MaxBytes`, `MaxPaid`, `MaxBuilds` | 2, 1, 3, 1, 2 | two charges that overlap on totals that price differently and alike; one build too many |
| `Handlers`, `MaxOps`, `Bursts`, `MaxBytes` of `Mission` | 2, 6, {2}, 4 | every pair of operations overlaps; six are create, intent, confirm, activate and two bursts or a top-up |
| `Quota`, `ChannelDeposit`, `Users` of `Mission` | 1, 3, one | a burst is more than the quota, so the meter cuts; the shared channel pays for one burst and not for two; both missions on one eSIM |
| `MaxFaults` of `Mission` | 1 with the agents in memory, 0 with the shared one | what a fault does to files, payments and eSIMs does not depend on the agent; its restarts with a shared agent are in the proof |
| `Jobs`, `Polls`, `MaxOps` of the app | 2, 2, 4 | two handlers, or a handler and its successor; a poll behind a poll; from a browser with an earlier mission: to the wizard, create, confirm, and one click more. What `late` exempts takes a fifth click (TLC finds it with `MaxOps = 5`, without `Converges`): below that the run shows the property without the exemption, the proof shows it with |

A restart is one step, from the crash to the reopened log: nothing else can act
on the process meanwhile, and the other side's steps commute with it. The
channel is found and is ours (`to`, `token`), and readings pass schema
validation: the other branches are refusals before any state is touched. The
flow has no close, so its `Collectable` speaks of a channel that has not been
closed; what becomes of accepted vouchers afterwards is `ChannelClose`.

In `ChannelClose` the USDC accounts move only through the channel, both balances
of a round are read in one step, and every answer but a poll's describes the
contract as it is when it arrives (a poll keeps what it read: its lateness is
what the monitor's hazards are about). As the code says of it
(`server/close-monitor.ts`, `pollOnce`), a `close` without `close_start` leaves
`closeEffectiveAtLedger` unset.

### Fairness

`flow_live` assumes three things: the lock is handed on to a queued batch (the
promise chain of `shared/mutex.ts` runs in every turn of the event loop), and
each of the two `withTimeout` timers fires while its call is out. Nothing is
assumed of RPC, signer, server or contract.

`close_dispute` assumes that the poll interval and the retry backoff fire, that
polls made again and again are answered at last, that a transaction of the
monitor's is executed at last, and that every await of `closeChannel` ends:
strong fairness, because an RPC error or a crash may come first any number of
times. The last of these is about the ports of `closeChannel`, which itself has no
timeout: without it `DisputeAnswered` fails (see above). The trustline does not
vanish in this run: CL-R9 blocks the close as long as it is gone.

`trip_walk`: what awaits an answer is answered or fails (`WF` of `Walk` and
`Tick`; failures are bounded by `MaxFaults`), Citrus settles a defund, and the stable
window passes (`SettledByPoll`). A walk goes on only while a CLI that waits drives it:
nothing is assumed to start one (`CliStarts`). `CoveredIsResumed` also takes an agent
that signs now and then (`SF` of `LoopSigned`): without it nothing is covered.

`server_boot`: builds end and now and then succeed (`SF` of `BuildReady`), the
retry interval passes, and the agent delivers again, as it does with every
reading. Nothing is assumed of the charge route: that requests for it keep coming is
a premise of the second half of `RecoversByItself`.

`client_app`: the interval of a page that stays fires, and fetches that do not
fail are answered. Nothing is assumed of the user; `MaxOps` is where he stops.

## Proofs

`VoucherLogProofs`, for every set of channels and amounts, every set of faults
and failure points:

* `TypeCorrect`: `TypeOK` is invariant. It is not inductive alone: that a line
  exists where a write in progress says so is carried along.
* `AckedDurable`, `ReopenKnows`: no acknowledged voucher is lost, and a reopened
  index knows it, assuming `CleanErrors` (an append that fails leaves no partial
  line) and `OneFault` (crashes or power losses, not both). Without the first a
  record is glued to the rest of another (see above); the second is needed because `open()` does not sync
  what it indexes. The inductive invariant `DurInv` says that only an unterminated
  last line may fail to parse, and that everything acknowledged or indexed lies in
  the *safe* part of the file: all of its terminated lines if power is never lost,
  the synced ones if it may be.
* `SyncedIsFinal`: no step rewrites, moves or cuts a readable line that was fsynced,
  with no assumption on errors or faults. A quarantine cuts off only a last line that
  does not parse, and a write continues only an unterminated line, which is not among
  the synced ones (`Shape`).
* `ImplementsRegister`: under the assumptions of `AckedDurable`, the file implements
  `VoucherRegister`. Every step is one of losing what was not promised, storing a
  higher amount, and promising what is stored. The register's maximum is the highest amount of a set of
  lines; that each finite set of them has one (`HighestIs`) is shown by the
  well-foundedness of `<` on the naturals, with no induction over the sequence.

`VoucherFlowProofs`, for any requests, calls, amounts, `MaxDelta` and deposit:

* `TypeCorrect`, `SignedAreBacked`, `RecordedIsCollectable`, `ExposureIsBounded`,
  `FreshAnswersDiffer` follow from one inductive invariant `Inv`. Its parts are
  why the code is right: `Locked` (the voucher read before the await is still the
  highest when the lock's holder resumes, and what is being signed exceeds it and
  covers the batch), `Queued` (a request waits in one place), `Carried` (every
  voucher under way, abandoned ones too, is within one delta of the agent's
  record; a verified one is within the deposit, an accepted one on the server)
  and `Backed` (a record never exceeds the deposit).
* `ImplementsLedger`: under `Inv` every step is a step of `VoucherLedger` on
  `(deposit, shigh, high)` or leaves the three alone.
* `RequestsAreHeld`, `AnswersAreFinal`: a request is open exactly while it waits for the
  lock or is in the batch of its holder (`Held`), so no path of `processBatch()` loses one
  and a late signature answers none twice. This is the safety half of
  `EveryRequestSettles`; that the holder gets on is the half only TLC checks.

`ChannelCloseProofs`, for any amounts, deposit, bursts and faults:

* `TypeCorrect`, `LatchIsEarned`, `ClosedOnce` hold whoever closes. `TypeOK` needs
  `Money` (what was paid in is in the contract or with its owner, and nothing is
  paid while the channel is open) and `Calls` (a call of the monitor has an attempt
  to spend, one that verifies has a round left). `OneSettler` is why the event is
  unique: at most one call knows of a close that succeeded, and it has not
  reported it yet.
* `ClosesWithCause`, with any number of polls under way: while the channel is open its
  balance only grows, so of two readings the one of the earlier poll is the lower
  (`Causes`: a poll under way that is not `late` has read at least `lastBal`, and its
  `older` ones no more than itself). A drop then means that the channel has ended or
  that the answer is late.
* `ImplementsSettlement`, whoever closes and however polls overlap: an amount the monitor
  chose under dispute is the highest the server had by then, and covers what was
  owed when the dispute began (`Dues`), also while its transaction floats after the
  caller has died. What any closer collects had been accepted (`Taken`).
* `MoneyIsAccounted` holds whoever closes: the deposit is what the contract holds, paid to
  the server and gave back, together (`Accounted`). What a close collects was accepted by
  the server when its transaction was sent (`Taken`), so it is still (`Collected`).

`FundingProofs`, for any calls, provisionings, deposits, prices and rounding:

* `WalletIsBacked`: the wallet `maxWalletCents()` buys, marked up, never exceeds the
  deposit, and stays within the provider's cap; `WalletIsLargest`: below the cap, one cent
  more is not covered.
* `OneSleepIsEnough`: after one sleep of the token bucket the tokens are there, unless
  another call took them. The sleep is over a thousand times longer than that needs:
  `take()` divides by a rate per millisecond and multiplies by 1000 once more.
* `FundingTypes`, `FundingBoughtOnce` rest on `Shop`: who is buying holds the lock, and
  every eSIM sold is a row, lost, or in the hands of the buyer. Before any defund the
  first row ends the buying, so at most one is a row. It holds whatever overlaps.
* `FundingWithinDeposit`, `FundingOnRecord` rest on `Books`, which holds until two calls
  met or the wallet moved under an unresolved fund (`doubt`): what is funded and what
  is intended is covered by the deposit together; an intent on disk has landed
  (`HasLanded`) or it has not, and then it may land once more (`NotLanded`); and each
  place of a call knows which (`Progress`). The wallet's shown value lies up to `Slack`
  below the true one both when the intent is written and when it is resolved. That is
  why an intent below twice `Slack` can be taken for landed, and why the row may be
  ahead by that much for each interrupted call, and never behind.

`TripProofs`, for any prices, wallet, deposit, events and faults of one trip:

* `BillWithinPrice`: what is signed for a charge (cents to bytes, rounded down; bytes to
  raw units, rounded up) is less than one raw unit above it, and grows with it;
  `AlignedBill`: with the prices `arePricesAligned()` accepts, that is the price per MB,
  up to one raw unit and one for each MiB. `AlignedIsRounded`: these are the floor and
  the ceiling of the exact conversion, no others. `PolicyLeavesAMegabyte`: the policy
  lets a trip go on exactly while the deposit covers one MB more. The lemmas say what the two roundings do
  (`DivFloors`; `CeilDivIsLeast`, the smallest `q` the comment of `ceilDiv()` promises)
  and that a higher total never costs less (`ExpectedAmountGrows`).
* `TripTypes`, `TripBillsItsOwn` rest on `Grounded`: whatever is remembered as bytes, or
  signed, is the conversion of what Citrus had charged at some moment of this trip, so
  `BillWithinPrice` bounds it, however old the reading is.
* `TripFinalBill`, `TripLeavesNothing` rest on `SettledIsEmpty` (a settlement that
  was announced or observed leaves the wallet empty, and an event under way is one that
  was sent) and `FinalIsExact` (from the walk's last reading on nothing more is
  charged). They are about `Spec`: on a second trip `BillsOwnTrip` is false
  (`trip_second`).
* `TripWalkForward`: the marker on disk goes from stage to stage in the order of the
  code, and each stage is left with its work done. `Walking` relates where the CLI is to
  the marker, which only the CLI moves. That a
  driven walk ends (`DrivenWalkEnds`) is for TLC.

`ServerProofs`, for any requests, totals, prices and faults:

* `ServerTypes`, `ServerOneMonitored`: one build of an instance is under way at most, and
  only where it is not ready, somebody waits for every build of the channel instance, and who was let
  through has an instance (`Built`). So a second instance is never built, and the
  first who go on start its monitor.
* `ServerBilledIsPaid`, `ServerPaidOnce`: the total a charge bills from has been
  paid for, and so has its own once it has settled (`Bills`); while nothing was in
  doubt it has the total to itself (`Alone`), so deltas add up to it exactly.

`MissionProofs`, for any missions, users, handlers, budgets, quota and bursts, and with
either agent:

* `MissionTypes`, `MissionPaymentsBack`, `MissionQuotaIsPaid` follow from `Safe`. The
  handlers decide on copies, so what has to be invariant is said of *every* record
  there is: on disk, in a handler's copy, and in the whole file it read before its
  `save()` (`Real`: its eSIM was bought for its user, its bytes were used, its payments
  are validated, its budget has the top-up exactly when that is settled). All of it only
  ever becomes more true (`StepGrows`), so a stale copy may lose news but never
  claims what is not so. `Fine` adds what a handler's next step relies on: it was not
  refused, and a reading it carries is covered by what was signed and used; `Covers`,
  that what is signed is covered by the deposit it was signed against; `OneChannel`,
  that with the shared agent all missions have the one highest amount; `Funds`, that
  only a validated top-up was sent anywhere.
* That a top-up is sent once, and `MissionAnsweredIsKept`: until a save meets another
  request, each copy past its `findById()` and each file read by a `save()` knows all
  the client was told (`Kept`, `Knows`), and a top-up that was sent is settled on disk or in
  the hands of the one handler that sent it (`Once`).

`MissionClientProofs`, for any missions, handlers, polls, clicks and faults of the app:

* `ClientTypes`, `ClientPaysItsMission`: until an answer crossed (it takes the mission
  off the page, puts another one on it, or the wizard was confirmed twice) the page's
  intent is the one of the mission it shows, and so is that of a payment under way; one
  handler at most creates, and while it does there is no intent (`Steady`). Every answer
  still under way names a mission (`Aimed`), and what is on screen belongs to its page
  (`Placed`). For the top-ups, until a page that
  was left creates a mission: the saved id is the mission shown or none (`Aligned`, with
  the same of what polls, the modal and handlers carry), which is why the modal,
  which reads the id by itself, means the same one.

The assumptions are the named `ASSUME`s of the modules: amounts, `MaxDelta` and
`MaxDeposit` are naturals, `Nobody` is nobody.

## Limits

Only model-checked: liveness (`EveryRequestSettles`, `DisputeAnswered`,
`CoveredIsResumed`, `DrivenWalkEnds`, `RecoversByItself`, `Converges`), which the prover
does not reach; of the first and the fourth the safety half is proved
(`RequestsAreHeld`, `TripWalkForward`). Every other property of a passing run is a
theorem. The comparisons of `Pricing` and `Retry` that the runs of `Trip` and
`Funding` make are evaluated over small arguments; proved for all are the roundings,
the bounds, the aligned prices, the wallet and the bucket's sleep. What
`withRetry()` computes is a recursive function over schedules and stays with TLC.

Not modelled: the parts listed as `not_modelled` in PROJECT.json (messages, HTTP
and Stellar helpers, diagnostics, scripts), and of the parts listed as `partly`
what their notes say: webhooks that only log, HTTP details of Citrus, the demo
mode and the layout of the app. Nor: several channels at once in the flow (both
routes refuse every other), several eSIMs of one user beyond their rows, a second
process that *writes* one log (the CLI of `ChannelClose` only reads it), unrelated
USDC movements during a close, several tabs of the app, a product process with an
agent in memory but a channel of its own, or the other way round. The production processes
construct neither `UsageLoop` nor `FundingService` nor `PolicyEnforcer`
(`docs/citrus-mobile-spec.md`, T9): `Trip` and `Funding` check them as their
tests and their spec use them.

## Plan

In this order, each with its runs, then its proofs:

1. `VoucherLog`, `VoucherFlow`, `ChannelClose`, each with its abstract
   specification, runs and proofs: done.
2. `Trip` with the webhook, `Funding`, `Pricing` with their proofs, `Retry`: done.
3. `Server` (boot, monitor, charge), `Mission` and `MissionClient` with their proofs: done.
4. The demo mode of the app; several tabs.

Theorems worth proving next: what of `Trip` survives on later trips under
`SpecOfTrips`, where `BillsOwnTrip` does not.
