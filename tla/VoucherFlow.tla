------------------------------ MODULE VoucherFlow ------------------------------
(***************************************************************************)
(* POST /vouchers from the gateway's reading to the server's log:          *)
(* agent/routes/vouchers.ts (the coalescing batch, the channel lock,       *)
(* classify, processBatch) with its channel cache and guardrails, the      *)
(* delivering signer of config/boot.ts, and server/channel-service.ts      *)
(* (verifyAndAccept) over server/channel-store.ts.                         *)
(*                                                                         *)
(* One channel: both routes refuse every other than CHANNEL_CONTRACT.      *)
(* Each voucher log is the register VoucherLog implements: high and shigh  *)
(* are the indexed maxima, and survive a restart.  A signature stands for  *)
(* the amount it commits to (ed25519 is deterministic), so equal amounts   *)
(* carry equal signatures.                                                 *)
(***************************************************************************)
EXTENDS Integers, FiniteSets

CONSTANTS
  Req,         \* requests the gateway may have open at once
  Dlv,         \* signer.sign() calls that may be under way, abandoned ones too
  Amounts,     \* cumulative amounts a reading can ask for
  MaxDelta,    \* MAX_DELTA_PER_REQUEST_RAW
  MaxDeposit,  \* bound: the channel is never topped up above this
  Nobody       \* no request, no call

ASSUME FlowAssumption ==
  /\ Amounts \subseteq Nat /\ MaxDelta \in Nat /\ MaxDeposit \in Nat
  /\ Nobody \notin Req \cup Dlv

VARIABLES
  deposit, closing,  \* the contract: what was paid in, close_start executed
  record,            \* data/channel-{network}.json: its depositRaw, or None
  high,              \* agent: the highest voucher of its log
  cache,             \* agent: the channel info it trusts for CACHE_TTL
  late,              \* agent: an RPC answer that missed its timeout
  waiting,           \* agent: pendingBatches[channel]
  phase,             \* agent: what the holder of the channel lock awaits
  batch, previous,   \* agent: its batch, and the highest voucher it read
  winner, cur,       \* agent: the reading being signed, its signer.sign()
  dlv,               \* per signer.sign(): how far its voucher got
  shigh,             \* server: the highest voucher of its log
  asked, answer      \* gateway: each request and its M2

agent == <<high, cache, late, waiting, phase, batch, previous, winner, cur>>
vars == <<deposit, closing, record, agent, dlv, shigh, asked, answer>>

None == -1
Level == Amounts \cup {None}
Info == [dep : (1..MaxDeposit) \cup {None}, closing : BOOLEAN]
NoInfo == [dep |-> None, closing |-> FALSE]
\* deposited() where the wasm has it, else the CLI's record, else the balance.
DepositSeen == IF record # None THEN record ELSE deposit
ChainInfo == [dep |-> DepositSeen, closing |-> closing]

Refused == {"stale", "exhausted", "closing", "failed"}
Underway == {"signing", "posted", "verified"}
Stage == {"idle", "accepted"} \cup Underway \cup Refused
Unsigned == {"stale_reading", "channel_exhausted", "amount_rejected", "channel_closing",
             "upstream_unavailable", "signer_unavailable", "internal_error"}
Kind == {"idle", "pending", "signed", "dropped"} \cup Unsigned

TypeOK ==
  /\ deposit \in 1..MaxDeposit /\ closing \in BOOLEAN
  /\ record \in 1..MaxDeposit \cup {None}
  /\ high \in Level /\ shigh \in Level /\ previous \in Level
  /\ cache \in Info /\ late \in Info
  /\ waiting \subseteq Req /\ batch \subseteq Req
  /\ phase \in {"free", "info", "sign"}
  /\ winner \in Req \cup {Nobody} /\ cur \in Dlv \cup {Nobody}
  /\ dlv \in [Dlv -> [stage : Stage, amt : Level]]
  /\ asked \in [Req -> [amt : Level, priced : BOOLEAN]]
  /\ answer \in [Req -> [kind : Kind, amt : Level, reused : BOOLEAN]]

Idle == [stage |-> "idle", amt |-> None]
AtLeast0(n) == IF n < 0 THEN 0 ELSE n
Reply(k) == [kind |-> k, amt |-> None, reused |-> FALSE]
Signed(a, again) == [kind |-> "signed", amt |-> a, reused |-> again]

Init ==
  /\ deposit \in 1..MaxDeposit /\ closing = FALSE
  /\ record \in {None, deposit}
  /\ high = None /\ shigh = None /\ previous = None
  /\ cache = NoInfo /\ late = NoInfo
  /\ waiting = {} /\ batch = {} /\ phase = "free"
  /\ winner = Nobody /\ cur = Nobody
  /\ dlv = [d \in Dlv |-> Idle]
  /\ asked = [r \in Req |-> [amt |-> None, priced |-> FALSE]]
  /\ answer = [r \in Req |-> Reply("idle")]

----------------------------------------------------------------------------
(* The gateway *)

\* Mutant: the batch stays in pendingBatches while it is being signed.
AskJoins(r) ==
  /\ answer[r].kind # "pending"
  /\ \E a \in Amounts, p \in BOOLEAN : asked' = [asked EXCEPT ![r] = [amt |-> a, priced |-> p]]
  /\ answer' = [answer EXCEPT ![r] = Reply("pending")]
  /\ IF phase = "sign" THEN batch' = batch \cup {r} /\ UNCHANGED waiting
                        ELSE waiting' = waiting \cup {r} /\ UNCHANGED batch
  /\ UNCHANGED <<deposit, closing, record, high, cache, late, phase, previous, winner, cur, dlv, shigh>>

\* handle(): the reading joins the batch queued behind the channel lock.
\* priced: cumulativeAmount is what the agent computes for cumulativeBytes.
Ask(r) ==
  /\ answer[r].kind # "pending"
  /\ \E a \in Amounts, p \in BOOLEAN : asked' = [asked EXCEPT ![r] = [amt |-> a, priced |-> p]]
  /\ answer' = [answer EXCEPT ![r] = Reply("pending")]
  /\ waiting' = waiting \cup {r}
  /\ UNCHANGED <<deposit, closing, record, high, cache, late, phase, batch, previous, winner, cur, dlv, shigh>>

----------------------------------------------------------------------------
(* The agent: processBatch() under the channel lock *)

\* Mutant: MAX_DELTA_PER_REQUEST_RAW is not compared.
VerdictAnyDelta(q, prev, dep) ==
  CASE q.amt = prev -> "equal"
    [] q.amt < prev -> "stale_reading"
    [] q.amt > prev /\ q.amt > dep -> "channel_exhausted"
    [] q.amt > prev /\ q.amt <= dep /\ ~q.priced -> "amount_rejected"
    [] OTHER -> "candidate"

\* classify(), one reading against the voucher read before the await.
Verdict(q, prev, dep) ==
  CASE q.amt = prev -> "equal"
    [] q.amt < prev -> "stale_reading"
    [] q.amt > prev /\ q.amt > dep -> "channel_exhausted"
    [] q.amt > prev /\ q.amt <= dep
         /\ (~q.priced \/ q.amt - AtLeast0(prev) > MaxDelta) -> "amount_rejected"
    [] OTHER -> "candidate"

Candidates(b, prev, dep) == {r \in b : Verdict(asked[r], prev, dep) = "candidate"}

\* Mutant: an equal reading is answered like the other unsigned ones.
ReplyToUnsigned(r, prev, dep) == Reply(Verdict(asked[r], prev, dep))

\* M2 of a reading that is not a candidate; an equal one gets the stored voucher.
ReplyTo(r, prev, dep) ==
  LET v == Verdict(asked[r], prev, dep)
  IN  IF v = "equal" THEN Signed(prev, TRUE) ELSE Reply(v)

\* Every request of b gets its M2.
Answer(b, m2) == answer' = [r \in Req |-> IF r \in b THEN m2[r] ELSE answer[r]]
AnswerAll(b, k) == Answer(b, [r \in b |-> Reply(k)])

\* The lock is handed on; what the batch knew is gone.
Release == /\ phase' = "free" /\ batch' = {} /\ previous' = None
           /\ winner' = Nobody /\ cur' = Nobody

\* A slot for one more signer.sign(). Bound: when all are taken, the abandoned
\* call in the slot is one that never comes back.
Slot(d) == dlv[d] = Idle \/ \A e \in Dlv : dlv[e] # Idle

\* The reduce() over the candidates: no other asks for more than w.
Wins(w, cands) == \A r \in cands : asked[r].amt <= asked[w].amt

\* What processBatch() does with batch b once the channel info is there, up to
\* its next await.
Classify(b, prev, info) ==
  LET cands == Candidates(b, prev, info.dep)
  IN  \/ /\ info.closing
         /\ AnswerAll(b, "channel_closing")
         /\ Release /\ UNCHANGED dlv
      \/ /\ ~info.closing /\ cands = {}
         /\ Answer(b, [r \in b |-> ReplyTo(r, prev, info.dep)])
         /\ Release /\ UNCHANGED dlv
      \/ /\ ~info.closing
         /\ Answer(b \ cands, [r \in b |-> ReplyTo(r, prev, info.dep)])
         /\ \E w \in cands, d \in Dlv :
              /\ Wins(w, cands) /\ Slot(d)
              /\ winner' = w /\ cur' = d
              /\ dlv' = [dlv EXCEPT ![d] = [stage |-> "signing", amt |-> asked[w].amt]]
         /\ phase' = "sign" /\ batch' = cands /\ previous' = prev

\* The lock is acquired and the cached channel info is still trusted.
TakeBatchHit ==
  /\ phase = "free" /\ waiting # {} /\ cache # NoInfo
  /\ waiting' = {}
  /\ Classify(waiting, high, cache)
  /\ UNCHANGED <<deposit, closing, record, high, cache, late, shigh, asked>>

\* The lock is acquired and the contract has to be asked.
TakeBatchMiss ==
  /\ phase = "free" /\ waiting # {} /\ cache = NoInfo
  /\ waiting' = {} /\ batch' = waiting /\ previous' = high /\ phase' = "info"
  /\ UNCHANGED <<deposit, closing, record, high, cache, late, winner, cur, dlv, shigh, asked, answer>>

InfoArrives ==
  /\ phase = "info"
  /\ cache' = ChainInfo
  /\ Classify(batch, previous, ChainInfo)
  /\ UNCHANGED <<deposit, closing, record, high, late, waiting, shigh, asked>>

InfoFails ==
  /\ phase = "info"
  /\ AnswerAll(batch, "upstream_unavailable")
  /\ Release
  /\ UNCHANGED <<deposit, closing, record, high, cache, late, waiting, dlv, shigh, asked>>

\* withTimeout() gives up on an RPC that has read the contract by now and will
\* answer later. Bound: one such answer is remembered.
InfoTimesOut ==
  /\ phase = "info"
  /\ AnswerAll(batch, "upstream_unavailable")
  /\ Release
  /\ late' \in {late, ChainInfo}
  /\ UNCHANGED <<deposit, closing, record, high, cache, waiting, dlv, shigh, asked>>

LateInfo ==
  /\ late # NoInfo /\ cache' = late /\ late' = NoInfo
  /\ UNCHANGED <<deposit, closing, record, high, waiting, phase, batch, previous, winner, cur, dlv, shigh, asked, answer>>

CacheExpires ==
  /\ cache # NoInfo /\ cache' = NoInfo
  /\ UNCHANGED <<deposit, closing, record, high, late, waiting, phase, batch, previous, winner, cur, dlv, shigh, asked, answer>>

----------------------------------------------------------------------------
(* The delivering signer, abandoned calls included *)

\* Call d ends; an abandoned one has nobody to tell.
Ends(d, stage) ==
  dlv' = [dlv EXCEPT ![d] = IF d = cur THEN [@ EXCEPT !.stage = stage] ELSE Idle]

\* prepare_commitment is simulated and signed; the POST leaves.
SignAndPost(d) ==
  /\ dlv[d].stage = "signing"
  /\ dlv' = [dlv EXCEPT ![d].stage = "posted"]
  /\ UNCHANGED <<deposit, closing, record, agent, shigh, asked, answer>>

\* signer.sign() rejects: an RPC, a connection, or a server that did not accept.
Fails(d) ==
  /\ dlv[d].stage \in Underway /\ Ends(d, "failed")
  /\ UNCHANGED <<deposit, closing, record, agent, shigh, asked, answer>>

SignRejects ==
  /\ phase = "sign" /\ dlv[cur].stage \in Refused
  /\ AnswerAll(batch, "internal_error")
  /\ Release /\ dlv' = [dlv EXCEPT ![cur] = Idle]
  /\ UNCHANGED <<deposit, closing, record, high, cache, late, waiting, shigh, asked>>

\* Mutant: HTTP 200 is taken for "accepted", and the server answers 200 to
\* every schema-valid delivery.
SignReturnsOn200 ==
  /\ phase = "sign" /\ dlv[cur].stage \in {"accepted", "stale", "exhausted", "closing"}
  /\ high' = dlv[cur].amt
  /\ Answer(batch, [r \in batch |-> Signed(dlv[cur].amt, r # winner)])
  /\ Release /\ dlv' = [dlv EXCEPT ![cur] = Idle]
  /\ UNCHANGED <<deposit, closing, record, cache, late, waiting, shigh, asked>>

\* Mutant: "reused" is decided by comparing amounts, not candidates.
SignReturnsByAmount ==
  /\ phase = "sign" /\ dlv[cur].stage = "accepted"
  /\ high' = dlv[cur].amt
  /\ Answer(batch, [r \in batch |-> Signed(dlv[cur].amt, asked[r].amt # asked[winner].amt)])
  /\ Release /\ dlv' = [dlv EXCEPT ![cur] = Idle]
  /\ UNCHANGED <<deposit, closing, record, cache, late, waiting, shigh, asked>>

\* The voucher is on the server: append it, then answer the whole batch.
SignReturns ==
  /\ phase = "sign" /\ dlv[cur].stage = "accepted"
  /\ high' = dlv[cur].amt
  /\ Answer(batch, [r \in batch |-> Signed(dlv[cur].amt, r # winner)])
  /\ Release /\ dlv' = [dlv EXCEPT ![cur] = Idle]
  /\ UNCHANGED <<deposit, closing, record, cache, late, waiting, shigh, asked>>

\* Mutant: the timers are armed once the server has begun to answer.
SignAbandonedLate ==
  /\ phase = "sign" /\ dlv[cur].stage \notin Underway
  /\ \E k \in {"signer_unavailable", "internal_error"} : AnswerAll(batch, k)
  /\ Release /\ dlv' = [dlv EXCEPT ![cur] = Idle]
  /\ UNCHANGED <<deposit, closing, record, high, cache, late, waiting, shigh, asked>>

\* A timer fires (withTimeout: signer_unavailable, the POST's abort:
\* internal_error) or append() throws; the call itself goes on, abandoned.
SignAbandoned ==
  /\ phase = "sign"
  /\ \E k \in {"signer_unavailable", "internal_error"} : AnswerAll(batch, k)
  /\ Release /\ dlv' = [dlv EXCEPT ![cur] = IF @.stage \in Underway THEN @ ELSE Idle]
  /\ UNCHANGED <<deposit, closing, record, high, cache, late, waiting, shigh, asked>>

----------------------------------------------------------------------------
(* The server *)

\* verifyAndAccept() up to its second await: a fresh look at the contract.
ServerChecks(d) ==
  /\ dlv[d].stage = "posted"
  /\ \/ closing /\ Ends(d, "closing")
     \/ ~closing /\ dlv[d].amt > DepositSeen /\ Ends(d, "exhausted")
     \/ /\ ~closing /\ dlv[d].amt <= DepositSeen
        /\ dlv' = [dlv EXCEPT ![d].stage = "verified"]
  /\ UNCHANGED <<deposit, closing, record, agent, shigh, asked, answer>>

\* Mutant: accept() compares with what it last read, not under its lock: the
\* later of two deliveries wins.
ServerAcceptsLast(d) ==
  /\ dlv[d].stage = "verified"
  /\ shigh' = dlv[d].amt /\ Ends(d, "accepted")
  /\ UNCHANGED <<deposit, closing, record, agent, asked, answer>>

\* ChannelVoucherStore.accept().
ServerAccepts(d) ==
  /\ dlv[d].stage = "verified"
  /\ \/ /\ dlv[d].amt > AtLeast0(shigh)
        /\ shigh' = dlv[d].amt /\ Ends(d, "accepted")
     \/ /\ dlv[d].amt = shigh
        /\ UNCHANGED shigh /\ Ends(d, "accepted")
     \/ /\ dlv[d].amt <= AtLeast0(shigh) /\ dlv[d].amt # shigh
        /\ UNCHANGED shigh /\ Ends(d, "stale")
  /\ UNCHANGED <<deposit, closing, record, agent, asked, answer>>

----------------------------------------------------------------------------
(* The contract and the faults *)

\* agent/channel.ts top-up: the transaction, then the record, unless the CLI
\* dies in between. Without a record of this channel one is begun.
TopUp ==
  /\ deposit' \in (deposit + 1)..MaxDeposit
  /\ record' \in {record, AtLeast0(record) + (deposit' - deposit)}
  /\ UNCHANGED <<closing, agent, dlv, shigh, asked, answer>>

\* The funder's unilateral exit.
CloseStart ==
  /\ ~closing /\ closing' = TRUE
  /\ UNCHANGED <<deposit, record, agent, dlv, shigh, asked, answer>>

\* The agent dies and reopens its log: an append() under way may have reached
\* the file. What it had posted is in the server's hands.
AgentRestarts ==
  /\ \/ UNCHANGED high
     \/ phase = "sign" /\ dlv[cur].stage = "accepted" /\ high' = dlv[cur].amt
  /\ cache' = NoInfo /\ late' = NoInfo
  /\ waiting' = {}
  /\ Release
  /\ dlv' = [d \in Dlv |-> IF dlv[d].stage \in {"posted", "verified"} THEN dlv[d] ELSE Idle]
  /\ AnswerAll({r \in Req : answer[r].kind = "pending"}, "dropped")
  /\ UNCHANGED <<deposit, closing, record, shigh, asked>>

\* The server dies and reopens its log, where one accept() under way may be.
ServerRestarts ==
  /\ \/ UNCHANGED shigh
     \/ \E d \in Dlv : /\ dlv[d].stage = "verified" /\ dlv[d].amt > AtLeast0(shigh)
                       /\ shigh' = dlv[d].amt
  /\ dlv' = [d \in Dlv |-> IF dlv[d].stage # "verified" THEN dlv[d]
                            ELSE IF d = cur THEN [dlv[d] EXCEPT !.stage = "failed"] ELSE Idle]
  /\ UNCHANGED <<deposit, closing, record, agent, asked, answer>>

TakeBatch == TakeBatchHit \/ TakeBatchMiss

Next ==
  \/ \E r \in Req : Ask(r)
  \/ TakeBatch \/ InfoArrives \/ InfoFails \/ InfoTimesOut \/ LateInfo \/ CacheExpires
  \/ \E d \in Dlv : SignAndPost(d) \/ Fails(d) \/ ServerChecks(d) \/ ServerAccepts(d)
  \/ SignRejects \/ SignReturns \/ SignAbandoned
  \/ TopUp \/ CloseStart \/ AgentRestarts \/ ServerRestarts

Spec == Init /\ [][Next]_vars

\* The lock is handed on and the two timers fire; nothing else is promised.
FairSpec == Spec /\ WF_vars(TakeBatch) /\ WF_vars(InfoTimesOut) /\ WF_vars(SignAbandoned)

----------------------------------------------------------------------------
(* Properties *)

\* VE-R9..VE-R12, VP-R3: every "signed" answer carries a voucher that covers the
\* reading it answers and is in the agent's log, coalesced answers included.
SignedIsBacked ==
  \A r \in Req : answer[r].kind = "signed" =>
    asked[r].amt <= answer[r].amt /\ answer[r].amt <= high

\* What the agent has on record the server can collect: its own log is at least
\* as high, and the deposit covers it, however stale the agent's cache was.
Collectable == high <= shigh /\ shigh <= deposit

\* AC-R2 across failures: timeouts, lost responses and restarts never leave the
\* server holding more than one MAX_DELTA above what the agent knows it owes.
ExposureBounded == shigh <= AtLeast0(high) + MaxDelta

\* Coalescing: of all the answers that carry one voucher, at most one says it
\* is new (reused: false), so no reading is counted as a new voucher twice.
OneFreshAnswer ==
  \A r, s \in Req :
    /\ answer[r].kind = "signed" /\ ~answer[r].reused
    /\ answer[s].kind = "signed" /\ ~answer[s].reused
    /\ answer[r].amt = answer[s].amt
    => r = s

\* The pipeline implements the abstract ledger.
L == INSTANCE VoucherLedger WITH accepted <- shigh, recorded <- high
Ledger == L!Spec

\* Every request is settled: no RPC, signer or server that hangs can hold the
\* channel lock, or a gateway request, forever.
EveryRequestSettles == \A r \in Req : (answer[r].kind = "pending") ~> (answer[r].kind # "pending")
=============================================================================
