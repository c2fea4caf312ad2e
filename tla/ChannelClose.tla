------------------------------ MODULE ChannelClose ------------------------------
(***************************************************************************)
(* The end of a channel: server/close-monitor.ts (polls, watch events,     *)
(* bursts of attempts, the latch), closeChannel() of                       *)
(* server/channel-service.ts step by step, next to the vouchers its        *)
(* verifyAndAccept() still takes, and the operator's CLIs                  *)
(* (server/channel-admin.ts, server/close-session.ts), a second process    *)
(* with an index of its own over the same log.                             *)
(*                                                                         *)
(* The one-way-channel contract, Soroban RPC and Horizon are external: one *)
(* close settles a channel, a second one fails; close_start alone makes    *)
(* closeEffectiveAtLedger readable (close-monitor.ts, pollOnce).  An RPC   *)
(* answer describes the contract when it arrives, except in a poll.        *)
(***************************************************************************)
EXTENDS Integers, FiniteSets

CONSTANTS
  Amounts,     \* cumulative amounts of the vouchers the agent may deliver
  MaxDeposit,  \* bound: the channel is never topped up above this
  HasRecord,   \* data/channel-{network}.json knows the deposit
  Closer,      \* who may call closeChannel(): subset of {"monitor", "cli"}
  Poll,        \* polls of the monitor that may be under way at once
  Burst,       \* closeRetry.maxAttempts
  Attempts,    \* CLOSE_ASSERT_ATTEMPTS
  Faults       \* subset of {"rpc", "crash", "trustline"}

ASSUME CloseAssumption ==
  /\ Amounts \subseteq Nat \ {0} /\ MaxDeposit \in Nat \ {0} /\ HasRecord \in BOOLEAN
  /\ Closer \subseteq {"monitor", "cli"}
  /\ Burst \in Nat \ {0} /\ Attempts \in Nat \ {0}
  /\ Faults \subseteq {"rpc", "crash", "trustline"}

VARIABLES
  deposit, bal,      \* contract: what was paid in, what it still holds
  dispute, ended,    \* contract: close_start executed; "open", "closed", "refunded"
  paid, funder,      \* USDC the recipient and the funder have got from it
  trust,             \* the funder holds a USDC trustline
  shigh, inhand,     \* server: highest voucher; vouchers verified, not yet accepted
  triggered,         \* monitor: a close of ours has succeeded
  tries,             \* monitor: attempts left of the burst; 0: none in flight
  lastBal, polls,    \* monitor: lastKnownBalanceRaw; what each poll has read
  cliOpen, cliHigh,  \* CLI: running; its index, read when it started
  at,                \* where each closeChannel() call is
  floating,          \* close transactions broadcast whose caller has given up
  owed,              \* history: shigh when close_start executed
  settler,           \* history: whose transaction closed the channel
  answered,          \* history: and whether its amount was chosen under dispute
  reported           \* history: channel.closed events, verified or not (2: many)

contract == <<deposit, bal, dispute, ended, paid, funder, trust>>
monitor == <<triggered, tries, lastBal, polls>>
cli == <<cliOpen, cliHigh>>
history == <<owed, settler, answered, reported>>
vars == <<contract, shigh, inhand, monitor, cli, at, floating, history>>

None == -1
AtLeast0(n) == IF n < 0 THEN 0 ELSE n
Level == Amounts \cup {None}
Reading == (0..MaxDeposit) \cup {None}
\* A poll under way: its reading, the polls that had read before it and are
\* still under way, and whether one that read after it has been answered.
PollState == [bal : Reading, closing : BOOLEAN, older : SUBSET Poll, late : BOOLEAN]
NoReading == [bal |-> None, closing |-> FALSE, older |-> {}, late |-> FALSE]
Nobody == "nobody"

Calling == {"trustline", "state", "before"}
Idle == [pc |-> "idle", amt |-> None, expect |-> 0, fb |-> None, rb |-> None,
         fok |-> FALSE, rok |-> FALSE, saw |-> FALSE, left |-> 0, ans |-> FALSE]

TypeOK ==
  /\ deposit \in 1..MaxDeposit /\ bal \in 0..MaxDeposit
  /\ dispute \in BOOLEAN /\ ended \in {"open", "closed", "refunded"}
  /\ paid \in 0..MaxDeposit /\ funder \in 0..MaxDeposit /\ trust \in BOOLEAN
  /\ shigh \in Level /\ inhand \subseteq Amounts
  /\ triggered \in BOOLEAN /\ tries \in 0..Burst /\ lastBal \in Reading
  /\ polls \in [Poll -> PollState]
  /\ cliOpen \in BOOLEAN /\ cliHigh \in Level
  /\ at \in [Closer -> [pc : {"idle", "sent", "ok", "failed", "verify"} \cup Calling,
                        amt : Level, expect : Int, fb : Reading, rb : Reading,
                        fok : BOOLEAN, rok : BOOLEAN, saw : BOOLEAN, left : 0..Attempts,
                        ans : BOOLEAN]]
  /\ floating \subseteq [by : Closer, amt : Amounts, ans : BOOLEAN]
  /\ owed \in Level /\ settler \in Closer \cup {Nobody} /\ answered \in BOOLEAN
  /\ reported \in [{"closed", "unverified"} -> 0..2]

Init ==
  /\ deposit \in 1..MaxDeposit /\ bal = deposit
  /\ dispute = FALSE /\ ended = "open" /\ paid = 0 /\ funder = 0 /\ trust = TRUE
  /\ shigh = None /\ inhand = {}
  /\ triggered = FALSE /\ tries = 0 /\ lastBal = None
  /\ polls = [p \in Poll |-> NoReading]
  /\ cliOpen = FALSE /\ cliHigh = None
  /\ at = [c \in Closer |-> Idle] /\ floating = {}
  /\ owed = None /\ settler = Nobody /\ answered = FALSE
  /\ reported = [k \in {"closed", "unverified"} |-> 0]

----------------------------------------------------------------------------
(* The funder, and the contract *)

TopUp ==
  /\ ended = "open"
  /\ \E amt \in 1..(MaxDeposit - deposit) : deposit' = deposit + amt /\ bal' = bal + amt
  /\ UNCHANGED <<dispute, ended, paid, funder, trust, shigh, inhand, monitor, cli, at, floating, history>>

CloseStart ==
  /\ ended = "open" /\ ~dispute
  /\ dispute' = TRUE /\ owed' = shigh
  /\ UNCHANGED <<deposit, bal, ended, paid, funder, trust, shigh, inhand, monitor, cli, at, floating, settler, answered, reported>>

\* refund, once the waiting period has passed.
Refund ==
  /\ ended = "open" /\ dispute /\ trust
  /\ ended' = "refunded" /\ funder' = funder + bal /\ bal' = 0
  /\ UNCHANGED <<deposit, dispute, paid, trust, shigh, inhand, monitor, cli, at, floating, history>>

TrustlineChanges ==
  /\ "trustline" \in Faults /\ trust' = ~trust
  /\ UNCHANGED <<deposit, bal, dispute, ended, paid, funder, shigh, inhand, monitor, cli, at, floating, history>>

\* close(amount, signature) executes: the recipient gets the amount, and
\* try_transfer sends the rest to the funder, or silently does not.
Settles(by, amt, ans) ==
  /\ ended = "open" /\ amt <= bal
  /\ ended' = "closed" /\ paid' = paid + amt /\ settler' = by /\ answered' = ans
  /\ IF trust THEN bal' = 0 /\ funder' = funder + (bal - amt)
              ELSE bal' = bal - amt /\ UNCHANGED funder
  /\ UNCHANGED <<deposit, dispute, trust, owed, reported>>

----------------------------------------------------------------------------
(* The server: verifyAndAccept() and its log *)

DepositSeen == IF HasRecord THEN deposit ELSE bal

\* The checks against the contract and the signature, before the last await.
Verify(a) ==
  /\ ~dispute /\ a <= DepositSeen
  /\ inhand' = inhand \cup {a}
  /\ UNCHANGED <<contract, shigh, monitor, cli, at, floating, history>>

\* Mutant: the highest voucher is not looked up again after the await.
AcceptLast(a) ==
  /\ a \in inhand /\ inhand' = inhand \ {a}
  /\ shigh' = a
  /\ UNCHANGED <<contract, monitor, cli, at, floating, history>>

\* ChannelVoucherStore.accept().
Accept(a) ==
  /\ a \in inhand /\ inhand' = inhand \ {a}
  /\ shigh' = IF a > AtLeast0(shigh) THEN a ELSE shigh
  /\ UNCHANGED <<contract, monitor, cli, at, floating, history>>

----------------------------------------------------------------------------
(* The close monitor *)

Begins(c) == at' = [at EXCEPT ![c] = [Idle EXCEPT !.pc = "trustline"]]

\* Mutant: a burst in flight does not keep another from starting.
AttemptCloseAnew ==
  IF triggered
  THEN UNCHANGED <<tries, at>>
  ELSE tries' = tries + Burst /\ Begins("monitor")

\* attemptClose(): one burst at a time, none once a close has succeeded.
AttemptClose ==
  IF triggered \/ tries > 0
  THEN UNCHANGED <<tries, at>>
  ELSE tries' = Burst /\ Begins("monitor")

\* pollOnce() sends its read; setInterval does not wait for an earlier one.
PollReads(p) ==
  /\ "monitor" \in Closer /\ polls[p] = NoReading
  /\ polls' = [polls EXCEPT ![p] = [bal |-> bal, closing |-> dispute, late |-> FALSE,
                                    older |-> {q \in Poll : polls[q] # NoReading}]]
  /\ UNCHANGED <<contract, shigh, inhand, triggered, tries, lastBal, cli, at, floating, history>>

\* Mutant: any change of the balance counts as a drop.
Changed(p) == lastBal # None /\ polls[p].bal # lastBal /\ ~triggered

\* A balance below that of the previous poll, with no close of ours on record.
Drop(p) == lastBal # None /\ polls[p].bal < lastBal /\ ~triggered

\* Poll p is over; an answer overtakes the polls that had read before it.
Over(p, heard) ==
  [q \in Poll |-> IF q = p THEN NoReading
                  ELSE [polls[q] EXCEPT !.older = @ \ {p},
                                        !.late = @ \/ (heard /\ q \in polls[p].older)]]

\* The answer arrives.
PollAnswers(p) ==
  /\ polls[p] # NoReading
  /\ polls' = Over(p, TRUE)
  /\ lastBal' = polls[p].bal
  /\ IF Drop(p) \/ polls[p].closing THEN AttemptClose ELSE UNCHANGED <<tries, at>>
  /\ UNCHANGED <<contract, shigh, inhand, triggered, cli, floating, history>>

PollFails(p) ==
  /\ "rpc" \in Faults /\ polls[p] # NoReading
  /\ polls' = Over(p, FALSE)
  /\ UNCHANGED <<contract, shigh, inhand, triggered, tries, lastBal, cli, at, floating, history>>

\* watchChannel() reports the event of a close_start or of a close.
WatchEvent ==
  /\ "monitor" \in Closer /\ (dispute \/ ended = "closed")
  /\ AttemptClose
  /\ UNCHANGED <<contract, shigh, inhand, triggered, lastBal, polls, cli, floating, history>>

\* withRetry() after its backoff.
RetryClose ==
  /\ tries > 0 /\ at["monitor"].pc = "idle"
  /\ Begins("monitor")
  /\ UNCHANGED <<contract, shigh, inhand, monitor, cli, floating, history>>

----------------------------------------------------------------------------
(* The operator's CLI: its own process, its own index *)

CliStarts ==
  /\ "cli" \in Closer /\ ~cliOpen
  /\ cliOpen' = TRUE /\ cliHigh' = shigh
  /\ UNCHANGED <<contract, shigh, inhand, monitor, at, floating, history>>

\* closeChannel(), whatever the CLI does first (close-session asks the agent
\* for the final voucher, which the running server accepts).
CliCloses ==
  /\ cliOpen /\ at["cli"].pc = "idle"
  /\ Begins("cli")
  /\ UNCHANGED <<contract, shigh, inhand, monitor, cli, floating, history>>

----------------------------------------------------------------------------
(* closeChannel(), by any caller *)

\* store.getHighest(): the index of the caller's process.
Highest(c) == IF c = "cli" THEN cliHigh ELSE shigh

\* The CLI exits, or close-session --wait tries a failed close again.
CliEnds(kind) ==
  \/ cliOpen' = FALSE /\ cliHigh' = None
  \/ kind \notin {"closed", "closed_unverified", "nothing_to_close"} /\ UNCHANGED cli

\* Mutant: the latch is set before the outcome is known.
OutcomeIgnored(c, kind) ==
  /\ at' = [at EXCEPT ![c] = Idle]
  /\ IF c = "cli"
     THEN CliEnds(kind) /\ UNCHANGED <<triggered, tries>>
     ELSE triggered' = TRUE /\ tries' = 0 /\ UNCHANGED cli

\* The call of c comes back with an outcome; only "closed" latches the monitor,
\* everything else costs one attempt of the burst.
Outcome(c, kind) ==
  /\ at' = [at EXCEPT ![c] = Idle]
  /\ IF c = "cli"
     THEN CliEnds(kind) /\ UNCHANGED <<triggered, tries>>
     ELSE /\ triggered' = (triggered \/ kind = "closed")
          /\ tries' = IF kind = "closed" THEN 0 ELSE tries - 1
          /\ UNCHANGED cli

\* channel.closed is emitted. Bound: the history counts up to two.
Reports(k) == reported' = [reported EXCEPT ![k] = IF @ < 2 THEN @ + 1 ELSE @]

\* Nothing but the call of c moves.
Rest == UNCHANGED <<contract, shigh, inhand, lastBal, polls, owed, settler, answered>>
Goes(c, rec) == at' = [at EXCEPT ![c] = rec] /\ UNCHANGED <<triggered, tries, cli>>

\* Horizon: "no" blocks, "unknown" (Horizon is down) does not.
TrustlineAnswers(c) ==
  /\ at[c].pc = "trustline"
  /\ \/ ~trust /\ Outcome(c, "blocked")
     \/ (trust \/ "rpc" \in Faults) /\ Goes(c, [at[c] EXCEPT !.pc = "state"])
  /\ Rest /\ UNCHANGED <<floating, reported>>

\* The contract's state, then the highest voucher in the same turn.  The monitor's
\* call answers a dispute if the dispute is there when it picks its amount.
StateAnswers(c) ==
  /\ at[c].pc = "state"
  /\ \/ Highest(c) = None /\ Outcome(c, "nothing_to_close")
     \/ /\ Highest(c) # None
        /\ Goes(c, [at[c] EXCEPT !.pc = "before", !.amt = Highest(c), !.expect = bal - Highest(c),
                         !.ans = (c = "monitor" /\ dispute)])
  /\ Rest /\ UNCHANGED <<floating, reported>>

StateFails(c) ==
  /\ "rpc" \in Faults /\ at[c].pc = "state" /\ Outcome(c, "failed")
  /\ Rest /\ UNCHANGED <<floating, reported>>

\* readUsdcBalanceSafe(): a failed read is undefined; that of an account
\* without trustline fails.
FunderReads == (IF trust THEN {funder} ELSE {}) \cup (IF trust /\ "rpc" \notin Faults THEN {} ELSE {None})
RecipientReads == {paid} \cup (IF "rpc" \in Faults THEN {None} ELSE {})

\* Both balances before, then close() is broadcast.
BeforeAnswers(c) ==
  /\ at[c].pc = "before"
  /\ \E f \in FunderReads, r \in RecipientReads :
       Goes(c, [at[c] EXCEPT !.pc = "sent", !.fb = f, !.rb = r])
  /\ Rest /\ UNCHANGED <<floating, reported>>

\* The transaction of c's call reaches the ledger and settles, or fails.
Executes(c) ==
  /\ at[c].pc = "sent"
  /\ \/ Settles(c, at[c].amt, at[c].ans) /\ at' = [at EXCEPT ![c].pc = "ok"]
     \/ /\ ~(ended = "open" /\ at[c].amt <= bal)
        /\ at' = [at EXCEPT ![c].pc = "failed"] /\ UNCHANGED <<contract, history>>
  /\ UNCHANGED <<shigh, inhand, monitor, cli, floating>>

\* A transaction nobody waits for any more does.
FloatingExecutes(t) ==
  /\ t \in floating /\ floating' = floating \ {t}
  /\ \/ Settles(t.by, t.amt, t.ans)
     \/ ~(ended = "open" /\ t.amt <= bal) /\ UNCHANGED <<contract, history>>
  /\ UNCHANGED <<shigh, inhand, monitor, cli, at>>

Broadcast(c) == [by |-> c, amt |-> at[c].amt, ans |-> at[c].ans]

\* close() throws: the transaction failed, or its result is lost and it may
\* still be on its way.
CloseThrows(c) ==
  /\ \/ at[c].pc = "failed" /\ UNCHANGED floating
     \/ "rpc" \in Faults /\ at[c].pc = "ok" /\ UNCHANGED floating
     \/ /\ "rpc" \in Faults /\ at[c].pc = "sent"
        /\ floating' \in {floating, floating \cup {Broadcast(c)}}
  /\ Outcome(c, "close_error")
  /\ Rest /\ UNCHANGED reported

\* Mutant: a close that failed because the channel is closed counts as done.
CloseReturnsAnyway(c) ==
  /\ at[c].pc \in {"ok", "failed"}
  /\ IF at[c].fb = None /\ at[c].rb = None
     THEN Outcome(c, "closed_unverified") /\ Reports("unverified")
     ELSE /\ Goes(c, [at[c] EXCEPT !.pc = "verify", !.left = Attempts,
                       !.fok = (at[c].fb = None \/ at[c].expect <= 0),
                       !.rok = (at[c].rb = None \/ at[c].amt <= 0)])
          /\ UNCHANGED reported
  /\ Rest /\ UNCHANGED floating

\* close() returns its hash; without any balance to compare, unverified.
CloseReturns(c) ==
  /\ at[c].pc = "ok"
  /\ IF at[c].fb = None /\ at[c].rb = None
     THEN Outcome(c, "closed_unverified") /\ Reports("unverified")
     ELSE /\ Goes(c, [at[c] EXCEPT !.pc = "verify", !.left = Attempts,
                       !.fok = (at[c].fb = None \/ at[c].expect <= 0),
                       !.rok = (at[c].rb = None \/ at[c].amt <= 0)])
          /\ UNCHANGED reported
  /\ Rest /\ UNCHANGED floating

\* One round of the assertion loop: both balances again, each compared with
\* the last reading it has; the last round decides.
Compare(c, f, r) ==
  [at[c] EXCEPT !.fok = IF at[c].fb # None /\ f # None THEN f - at[c].fb >= at[c].expect ELSE @,
                !.rok = IF at[c].rb # None /\ r # None THEN r - at[c].rb >= at[c].amt ELSE @,
                !.saw = @ \/ (at[c].fb # None /\ f # None) \/ (at[c].rb # None /\ r # None),
                !.left = @ - 1]

VerifyRound(c) ==
  /\ at[c].pc = "verify"
  /\ \E f \in FunderReads, r \in RecipientReads :
       LET now == Compare(c, f, r)
       IN  \/ now.fok /\ now.rok /\ Outcome(c, "closed") /\ Reports("closed")
           \/ ~(now.fok /\ now.rok) /\ now.left > 0 /\ Goes(c, now) /\ UNCHANGED reported
           \/ /\ ~(now.fok /\ now.rok) /\ now.left = 0
              /\ IF now.saw THEN Outcome(c, "refund_not_received") /\ UNCHANGED reported
                            ELSE Outcome(c, "closed_unverified") /\ Reports("unverified")
  /\ Rest /\ UNCHANGED floating

----------------------------------------------------------------------------
(* Crashes *)

\* What a process that dies had broadcast may still arrive.
Abandons(c) ==
  /\ at' = [at EXCEPT ![c] = Idle]
  /\ \/ UNCHANGED floating
     \/ at[c].pc = "sent" /\ floating' = floating \cup {Broadcast(c)}

\* The server dies and comes back: its log with it, and a monitor that knows
\* nothing.
ServerRestarts ==
  /\ "crash" \in Faults /\ "monitor" \in Closer
  /\ shigh' \in {shigh} \cup {a \in inhand : a > AtLeast0(shigh)} /\ inhand' = {}
  /\ triggered' = FALSE /\ tries' = 0 /\ lastBal' = None
  /\ polls' = [p \in Poll |-> NoReading]
  /\ Abandons("monitor")
  /\ UNCHANGED <<contract, cli, history>>

CliDies ==
  /\ "crash" \in Faults /\ cliOpen
  /\ cliOpen' = FALSE /\ cliHigh' = None /\ Abandons("cli")
  /\ UNCHANGED <<contract, shigh, inhand, monitor, history>>

CloseStep(c) ==
  \/ TrustlineAnswers(c) \/ StateAnswers(c) \/ StateFails(c) \/ BeforeAnswers(c)
  \/ Executes(c) \/ CloseThrows(c) \/ CloseReturns(c) \/ VerifyRound(c)

Next ==
  \/ TopUp \/ CloseStart \/ Refund \/ TrustlineChanges
  \/ \E a \in Amounts : Verify(a) \/ Accept(a)
  \/ \E p \in Poll : PollReads(p) \/ PollAnswers(p) \/ PollFails(p)
  \/ WatchEvent \/ RetryClose \/ CliStarts \/ CliCloses
  \/ \E c \in Closer : CloseStep(c)
  \/ \E t \in floating : FloatingExecutes(t)
  \/ ServerRestarts \/ CliDies

Spec == Init /\ [][Next]_vars

\* The interval and the backoff timers fire, polls are answered at last, no call
\* of closeChannel() hangs, one made again and again is answered at last, and a
\* transaction that was broadcast is executed.
FairSpec ==
  /\ Spec
  /\ WF_vars(RetryClose)
  /\ \A p \in Poll : WF_vars(PollReads(p)) /\ SF_vars(PollAnswers(p))
  /\ SF_vars(TrustlineAnswers("monitor")) /\ SF_vars(StateAnswers("monitor"))
  /\ SF_vars(BeforeAnswers("monitor"))
  /\ SF_vars(Executes("monitor"))
  /\ WF_vars(CloseThrows("monitor")) /\ WF_vars(CloseReturns("monitor"))

----------------------------------------------------------------------------
(* Properties *)

\* CL-R11 under dispute: the channel ends once, whoever closes, at an amount the
\* server had accepted; and a close of the monitor that answers a dispute collects
\* at least what had been accepted when it began, whatever was lost, retried,
\* overtaken or restarted in between.
S == INSTANCE ChannelSettlement WITH accepted <- shigh
Settlement == S!Spec

\* However many closers race, time out and retry, channel.closed is emitted at
\* most once.
OneClosedEvent == reported["closed"] + reported["unverified"] <= 1

\* Review finding 3: the monitor stops answering only when its own transaction
\* has settled the channel.
LatchedIsSettled == triggered => ended = "closed" /\ settler = "monitor"

\* The monitor leaves a channel in use alone: a burst of attempts begins with a
\* dispute or an ended channel behind it, or from the answer of a poll that a later
\* one has overtaken, whose balance may be from before a top-up (setInterval does
\* not wait for an earlier poll, and pollOnce() takes the answer as the newest).
AttemptHasCause ==
  [][tries' > tries => \/ dispute \/ ended # "open"
                       \/ \E p \in Poll : polls[p].late /\ polls'[p] = NoReading]_vars

\* A dispute is never abandoned: if there is something to collect, the channel
\* is closed, unless the funder's refund comes first.
DisputeAnswered == (dispute /\ shigh # None) ~> (ended # "open")
=============================================================================
