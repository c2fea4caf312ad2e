--------------------------- MODULE VoucherFlowProofs ---------------------------
(***************************************************************************)
(* Proofs about VoucherFlow for any number of requests and calls, any      *)
(* amounts and any deposit: the inductive invariant Inv, the safety        *)
(* properties it implies, and the refinement of VoucherLedger.             *)
(***************************************************************************)
EXTENDS VoucherFlow, TLAPS

\* While the lock is held: the voucher read before the await is still the
\* highest, and what is being signed exceeds it and covers the whole batch.
Locked ==
  /\ phase = "info" => previous = high /\ cur = Nobody
  /\ phase = "free" => cur = Nobody
  /\ phase = "sign" =>
       /\ cur \in Dlv /\ winner \in batch
       /\ dlv[cur].stage # "idle" /\ dlv[cur].amt > high
       /\ \A r \in batch : asked[r].amt <= dlv[cur].amt

\* A request waits in one place, and has asked for an amount.
Queued ==
  /\ waiting \cap batch = {}
  /\ \A r \in waiting \cup batch : answer[r].kind = "pending" /\ asked[r].amt \in Amounts

\* Every voucher under way is within one MaxDelta of the agent's record, the
\* server has checked it once it is verified, and keeps it once accepted.
Carried ==
  \A d \in Dlv : dlv[d].stage # "idle" =>
    /\ dlv[d].amt \in Amounts /\ dlv[d].amt <= AtLeast0(high) + MaxDelta
    /\ dlv[d].stage = "verified" => dlv[d].amt <= deposit
    /\ dlv[d].stage = "accepted" => dlv[d].amt <= shigh

Backed == record <= deposit /\ Collectable /\ ExposureBounded

Inv == TypeOK /\ Locked /\ Queued /\ Carried /\ Backed /\ SignedIsBacked /\ OneFreshAnswer

----------------------------------------------------------------------------
\* A level is an integer, at least None.
LEMMA LevelInt == \A a \in Level : a \in Int /\ a >= -1
BY FlowAssumption DEF Level, None

\* A record of at least another, both read as amounts already covered, covers
\* at least as much.
LEMMA AtLeast0Monotone ==
  \A m, n \in Int : m <= n => AtLeast0(m) <= AtLeast0(n)
BY DEF AtLeast0

\* The initial states satisfy the invariant.
LEMMA InitInv == Init => Inv
<1> SUFFICES ASSUME Init PROVE Inv
  OBVIOUS
<1>1. TypeOK
  BY DEF Init, TypeOK, Level, Info, NoInfo, Reply, Idle, Stage, Kind
<1>2. Locked /\ Queued /\ Carried
  BY DEF Init, Locked, Queued, Carried, Idle
<1>3. Backed /\ SignedIsBacked /\ OneFreshAnswer
  BY FlowAssumption DEF Init, Backed, Collectable, ExposureBounded, SignedIsBacked,
     OneFreshAnswer, AtLeast0, None, Reply
<1> QED
  BY <1>1, <1>2, <1>3 DEF Inv

\* A new reading joins the queue: it disturbs nobody who is already in it.
LEMMA AskInv == ASSUME Inv, NEW r \in Req, Ask(r) PROVE Inv'
<1> USE DEF Inv, Ask
<1> PICK a \in Amounts, p \in BOOLEAN : asked' = [asked EXCEPT ![r] = [amt |-> a, priced |-> p]]
  OBVIOUS
<1>1. r \notin waiting \cup batch
  BY DEF Queued
<1>2. TypeOK'
  BY DEF TypeOK, Reply, Level, Kind
<1>3. Locked'
  BY <1>1 DEF Locked, TypeOK
<1>4. Queued'
  BY <1>1 DEF Queued, TypeOK, Reply
<1>5. Carried' /\ Backed'
  BY DEF Carried, Backed, Collectable, ExposureBounded, AtLeast0
<1>6. SignedIsBacked' /\ OneFreshAnswer'
  BY DEF SignedIsBacked, OneFreshAnswer, TypeOK, Reply
<1> QED
  BY <1>2, <1>3, <1>4, <1>5, <1>6

\* Typing of the answers a batch can get.
LEMMA VerdictType ==
  ASSUME NEW q, NEW prev, NEW dep
  PROVE  Verdict(q, prev, dep) \in
           {"equal", "stale_reading", "channel_exhausted", "amount_rejected", "candidate"}
BY DEF Verdict

\* A candidate exceeds the previous voucher by at most MaxDelta; only a reading
\* of the very same amount is "equal".
LEMMA VerdictMeans ==
  ASSUME NEW q \in [amt : Level, priced : BOOLEAN], NEW prev \in Level, NEW dep \in Int
  PROVE  /\ Verdict(q, prev, dep) = "candidate" =>
              q.amt > prev /\ q.amt <= AtLeast0(prev) + MaxDelta
         /\ Verdict(q, prev, dep) = "equal" => q.amt = prev
<1>1. q.amt \in Int /\ prev \in Int /\ MaxDelta \in Int /\ AtLeast0(prev) \in Int
  BY LevelInt, FlowAssumption DEF AtLeast0
<1> QED
  BY <1>1 DEF Verdict

\* What processBatch() does between two awaits keeps the invariant, whichever
\* way the batch and the channel info were come by.
LEMMA ClassifyInv ==
  ASSUME Inv, NEW b \in SUBSET Req, NEW info \in Info,
         \A r \in b : answer[r].kind = "pending" /\ asked[r].amt \in Amounts,
         phase # "sign", Classify(b, high, info),
         waiting' \subseteq waiting, waiting' \cap b = {}, cache' \in Info,
         UNCHANGED <<deposit, closing, record, high, late, shigh, asked>>
  PROVE  Inv'
<1> DEFINE cands == Candidates(b, high, info.dep)
<1> USE DEF Inv
<1>a. /\ high \in Level /\ info.dep \in Int /\ cands \subseteq b
      /\ \A r \in Req : asked[r] \in [amt : Level, priced : BOOLEAN]
  BY FlowAssumption DEF TypeOK, Info, Candidates, None
<1>b. ASSUME NEW r \in b, r \notin cands
      PROVE  /\ ReplyTo(r, high, info.dep) \in [kind : Kind, amt : Level, reused : BOOLEAN]
             /\ ReplyTo(r, high, info.dep).kind = "signed" =>
                  /\ ReplyTo(r, high, info.dep).reused
                  /\ ReplyTo(r, high, info.dep).amt = high
                  /\ asked[r].amt = high
  <2>1. Verdict(asked[r], high, info.dep) # "candidate"
    BY <1>b DEF Candidates
  <2>2. Verdict(asked[r], high, info.dep) = "equal" => asked[r].amt = high
    BY <1>a, <1>b, VerdictMeans
  <2>3. CASE Verdict(asked[r], high, info.dep) = "equal"
    BY <2>2, <2>3, <1>a DEF ReplyTo, Signed, Kind
  <2>4. CASE Verdict(asked[r], high, info.dep) # "equal"
    <3>1. Verdict(asked[r], high, info.dep) \in
            {"stale_reading", "channel_exhausted", "amount_rejected"}
      BY <2>1, <2>4, VerdictType
    <3>2. ReplyTo(r, high, info.dep) = Reply(Verdict(asked[r], high, info.dep))
      BY <2>4 DEF ReplyTo
    <3> QED
      BY <3>1, <3>2 DEF Reply, Kind, Unsigned, Level
  <2> QED
    BY <2>3, <2>4
<1>1. CASE /\ AnswerAll(b, "channel_closing") /\ Release /\ UNCHANGED dlv
  <2> USE <1>1 DEF AnswerAll, Answer, Release
  <2>1. TypeOK'
    BY DEF TypeOK, Reply, Kind, Unsigned, Level
  <2>2. Locked' /\ Queued'
    BY DEF Locked, Queued, TypeOK, Reply
  <2>3. Carried' /\ Backed'
    BY DEF Carried, Backed, Collectable, ExposureBounded, AtLeast0
  <2>4. SignedIsBacked' /\ OneFreshAnswer'
    BY DEF SignedIsBacked, OneFreshAnswer, TypeOK, Reply
  <2> QED
    BY <2>1, <2>2, <2>3, <2>4
<1>2. CASE /\ cands = {}
           /\ Answer(b, [r \in b |-> ReplyTo(r, high, info.dep)])
           /\ Release /\ UNCHANGED dlv
  <2> USE <1>2 DEF Answer, Release
  <2>0. \A r \in b : r \notin cands
    OBVIOUS
  <2> HIDE DEF cands
  <2>1. TypeOK'
    BY <1>b, <2>0 DEF TypeOK, Level
  <2>2. Locked' /\ Queued'
    BY DEF Locked, Queued, TypeOK
  <2>3. Carried' /\ Backed'
    BY DEF Carried, Backed, Collectable, ExposureBounded, AtLeast0
  <2>4. SignedIsBacked'
    BY <1>a, <1>b, <2>0, LevelInt DEF SignedIsBacked, TypeOK
  <2>5. OneFreshAnswer'
    BY <1>b, <2>0 DEF OneFreshAnswer, TypeOK
  <2> QED
    BY <2>1, <2>2, <2>3, <2>4, <2>5
<1>3. ASSUME NEW w \in cands, NEW d \in Dlv,
             Answer(b \ cands, [r \in b |-> ReplyTo(r, high, info.dep)]),
             Wins(w, cands), winner' = w, cur' = d,
             dlv' = [dlv EXCEPT ![d] = [stage |-> "signing", amt |-> asked[w].amt]],
             phase' = "sign", batch' = cands, previous' = high
      PROVE  Inv'
  <2> USE <1>3 DEF Answer
  <2>a. asked[w].amt > high /\ asked[w].amt <= AtLeast0(high) + MaxDelta /\ asked[w].amt \in Amounts
    BY <1>a, VerdictMeans DEF Candidates
  <2>b. \A r \in cands : asked[r].amt <= asked[w].amt
    BY DEF Wins
  <2> HIDE DEF cands
  <2>1. TypeOK'
    BY <1>a, <1>b, <2>a DEF TypeOK, Level, Stage, Underway
  <2>2. Locked'
    BY <1>a, <2>a, <2>b DEF Locked, TypeOK
  <2>3. Queued'
    BY <1>a DEF Queued, TypeOK
  <2>4. Carried'
    BY <2>a DEF Carried, TypeOK, AtLeast0
  <2>5. Backed'
    BY DEF Backed, Collectable, ExposureBounded, AtLeast0
  <2>6. SignedIsBacked'
    BY <1>a, <1>b, LevelInt DEF SignedIsBacked, TypeOK
  <2>7. OneFreshAnswer'
    BY <1>b DEF OneFreshAnswer, TypeOK
  <2> QED
    BY <2>1, <2>2, <2>3, <2>4, <2>5, <2>6, <2>7
<1> QED
  BY <1>1, <1>2, <1>3 DEF Classify

\* The lock is acquired.
LEMMA TakeInv == ASSUME Inv, TakeBatch PROVE Inv'
<1>1. CASE TakeBatchHit
  <2>1. \A r \in waiting : answer[r].kind = "pending" /\ asked[r].amt \in Amounts
    BY DEF Inv, Queued
  <2> QED
    BY <1>1, <2>1, ClassifyInv DEF TakeBatchHit, Inv, TypeOK
<1>2. CASE TakeBatchMiss
  <2> USE <1>2 DEF TakeBatchMiss, Inv
  <2>1. TypeOK'
    BY DEF TypeOK
  <2>2. Locked' /\ Queued'
    BY DEF Locked, Queued
  <2>3. Carried' /\ Backed' /\ SignedIsBacked' /\ OneFreshAnswer'
    BY DEF Carried, Backed, Collectable, ExposureBounded, SignedIsBacked, OneFreshAnswer, AtLeast0
  <2> QED
    BY <2>1, <2>2, <2>3
<1> QED
  BY <1>1, <1>2 DEF TakeBatch

\* The channel info arrives for the batch that waits for it.
LEMMA InfoInv == ASSUME Inv, InfoArrives PROVE Inv'
<1>1. ChainInfo \in Info
  BY DEF Inv, TypeOK, ChainInfo, DepositSeen, Info
<1>2. /\ \A r \in batch : answer[r].kind = "pending" /\ asked[r].amt \in Amounts
      /\ waiting \cap batch = {} /\ previous = high /\ batch \in SUBSET Req
  BY DEF Inv, Queued, Locked, TypeOK, InfoArrives
<1> QED
  BY <1>1, <1>2, ClassifyInv DEF InfoArrives

\* The batch, or every open request, is sent away without a voucher, and calls
\* may end or be forgotten.
LEMMA RefuseInv ==
  ASSUME Inv, NEW b \in SUBSET Req, NEW k \in Unsigned \cup {"dropped"},
         AnswerAll(b, k), Release,
         waiting' \subseteq waiting, waiting' \cap b = {},
         cache' \in Info, late' \in Info,
         dlv' \in [Dlv -> [stage : Stage, amt : Level]],
         \A d \in Dlv : dlv'[d] = dlv[d] \/ dlv'[d] = Idle,
         \/ high' = high
         \/ phase = "sign" /\ dlv[cur].stage = "accepted" /\ high' = dlv[cur].amt,
         UNCHANGED <<deposit, closing, record, shigh, asked>>
  PROVE  Inv'
<1> USE DEF Inv, AnswerAll, Answer, Release
<1>1. high' \in Level /\ high' >= high /\ high' <= shigh
  <2>1. CASE high' = high
    BY <2>1, LevelInt DEF TypeOK, Backed, Collectable
  <2>2. CASE phase = "sign" /\ dlv[cur].stage = "accepted" /\ high' = dlv[cur].amt
    <3>1. cur \in Dlv /\ dlv[cur].amt > high
      BY <2>2 DEF Locked
    <3>2. dlv[cur].amt \in Amounts /\ dlv[cur].amt <= shigh
      BY <2>2, <3>1 DEF Carried
    <3> QED
      BY <2>2, <3>1, <3>2, LevelInt DEF Level, TypeOK
  <2> QED
    BY <2>1, <2>2
<1>2. TypeOK'
  BY <1>1 DEF TypeOK, Reply, Kind, Level
<1>3. Locked' /\ Queued'
  BY DEF Locked, Queued, TypeOK
<1>4. high \in Int /\ high' \in Int /\ MaxDelta \in Int /\ shigh \in Int /\ AtLeast0(high') >= AtLeast0(high)
  <2>1. high \in Level /\ shigh \in Level
    BY DEF TypeOK
  <2>2. high \in Int /\ high' \in Int /\ MaxDelta \in Int /\ shigh \in Int
    BY <1>1, <2>1, LevelInt, FlowAssumption
  <2>3. AtLeast0(high) <= AtLeast0(high')
    BY <1>1, <2>2, AtLeast0Monotone
  <2>4. AtLeast0(high) \in Int /\ AtLeast0(high') \in Int
    BY <2>2 DEF AtLeast0
  <2> QED
    BY <2>2, <2>3, <2>4
<1>5. Carried'
  <2> SUFFICES ASSUME NEW d \in Dlv, dlv'[d].stage # "idle"
               PROVE  /\ dlv'[d].amt \in Amounts /\ dlv'[d].amt <= AtLeast0(high') + MaxDelta
                      /\ dlv'[d].stage = "verified" => dlv'[d].amt <= deposit
                      /\ dlv'[d].stage = "accepted" => dlv'[d].amt <= shigh
    BY DEF Carried
  <2>1. dlv'[d] = dlv[d]
    BY DEF Idle
  <2>2. /\ dlv[d].amt \in Amounts /\ dlv[d].amt <= AtLeast0(high) + MaxDelta
        /\ dlv[d].stage = "verified" => dlv[d].amt <= deposit
        /\ dlv[d].stage = "accepted" => dlv[d].amt <= shigh
    BY <2>1 DEF Carried
  <2>3. dlv[d].amt \in Int /\ AtLeast0(high) \in Int /\ AtLeast0(high') \in Int
    BY <2>2, <1>4, LevelInt DEF AtLeast0, Level
  <2> QED
    BY <2>1, <2>2, <2>3, <1>4
<1>6. Backed'
  <2>1. AtLeast0(high) \in Int /\ AtLeast0(high') \in Int
    BY <1>4 DEF AtLeast0
  <2> QED
    BY <1>1, <1>4, <2>1 DEF Backed, Collectable, ExposureBounded
<1>7. SignedIsBacked'
  <2> SUFFICES ASSUME NEW r \in Req, answer'[r].kind = "signed"
               PROVE  asked'[r].amt <= answer'[r].amt /\ answer'[r].amt <= high'
    BY DEF SignedIsBacked
  <2>1. answer'[r] = answer[r] /\ asked'[r] = asked[r]
    BY DEF Reply, Unsigned
  <2>2. asked[r].amt <= answer[r].amt /\ answer[r].amt <= high
    BY <2>1 DEF SignedIsBacked
  <2>3. answer[r].amt \in Level
    BY DEF TypeOK
  <2>4. answer[r].amt \in Int
    BY <2>3, LevelInt
  <2> QED
    BY <1>1, <1>4, <2>1, <2>2, <2>4
<1>8. OneFreshAnswer'
  BY DEF OneFreshAnswer, TypeOK, Reply, Unsigned
<1> QED
  BY <1>2, <1>3, <1>5, <1>6, <1>7, <1>8

\* The batch is sent away unsigned, whatever the reason: no log moves.
LEMMA SendAwayInv ==
  ASSUME Inv, InfoFails \/ InfoTimesOut \/ SignRejects \/ SignAbandoned \/ AgentRestarts
  PROVE  Inv'
<1> USE DEF Inv, TypeOK
<1>a. NoInfo \in Info /\ Idle \in [stage : Stage, amt : Level]
  BY DEF NoInfo, Info, Idle, Stage, Level
<1>b. phase = "sign" => cur \in Dlv
  BY DEF Locked
<1>1. CASE InfoFails
  BY <1>1, RefuseInv DEF InfoFails, Unsigned, Queued
<1>2. CASE InfoTimesOut
  <2>1. ChainInfo \in Info
    BY DEF ChainInfo, DepositSeen, Info
  <2> QED
    BY <1>2, <2>1, RefuseInv DEF InfoTimesOut, Unsigned, Queued
<1>3. CASE SignRejects
  <2>1. /\ dlv' \in [Dlv -> [stage : Stage, amt : Level]]
        /\ \A d \in Dlv : dlv'[d] = dlv[d] \/ dlv'[d] = Idle
    BY <1>3, <1>a DEF SignRejects
  <2> QED
    BY <1>3, <2>1, RefuseInv DEF SignRejects, Unsigned, Queued
<1>4. CASE SignAbandoned
  <2>1. /\ dlv' \in [Dlv -> [stage : Stage, amt : Level]]
        /\ \A d \in Dlv : dlv'[d] = dlv[d] \/ dlv'[d] = Idle
    BY <1>4, <1>a DEF SignAbandoned
  <2> QED
    BY <1>4, <2>1, RefuseInv DEF SignAbandoned, Unsigned, Queued
<1>5. CASE AgentRestarts
  <2>1. /\ dlv' \in [Dlv -> [stage : Stage, amt : Level]]
        /\ \A d \in Dlv : dlv'[d] = dlv[d] \/ dlv'[d] = Idle
    BY <1>5, <1>a DEF AgentRestarts
  <2>2. \/ high' = high
        \/ phase = "sign" /\ dlv[cur].stage = "accepted" /\ high' = dlv[cur].amt
    BY <1>5 DEF AgentRestarts
  <2> QED
    BY <1>5, <1>a, <2>1, <2>2, RefuseInv DEF AgentRestarts
<1> QED
  BY <1>1, <1>2, <1>3, <1>4, <1>5

\* An RPC answer, late or expired, concerns the cache alone.
LEMMA CacheInv == ASSUME Inv, LateInfo \/ CacheExpires PROVE Inv'
<1> USE DEF Inv, LateInfo, CacheExpires
<1>1. TypeOK'
  <2>1. NoInfo \in Info
    BY DEF NoInfo, Info
  <2> QED
    BY <2>1 DEF TypeOK
<1>2. Locked' /\ Queued' /\ Carried' /\ Backed' /\ SignedIsBacked' /\ OneFreshAnswer'
  BY DEF Locked, Queued, Carried, Backed, Collectable, ExposureBounded, SignedIsBacked,
     OneFreshAnswer, AtLeast0
<1> QED
  BY <1>1, <1>2

\* One call moves on, and with it the server's record: up to a voucher whose
\* deposit was checked, and no further than the agent may owe.
LEMMA CallInv ==
  ASSUME Inv, NEW d \in Dlv, NEW stage \in Stage \ {"idle"}, dlv[d].stage \in Underway,
         \/ dlv' = [dlv EXCEPT ![d].stage = stage]
         \/ Ends(d, stage),
         stage = "verified" => dlv[d].amt <= deposit,
         stage = "accepted" => dlv[d].amt <= shigh',
         \/ shigh' = shigh
         \/ dlv[d].stage = "verified" /\ dlv[d].amt > shigh /\ shigh' = dlv[d].amt,
         UNCHANGED <<deposit, closing, record, agent, asked, answer>>
  PROVE  Inv'
<1> USE DEF Inv, agent, Ends
<1>1. dlv[d].amt \in Amounts /\ dlv[d].amt <= AtLeast0(high) + MaxDelta
      /\ (dlv[d].stage = "verified" => dlv[d].amt <= deposit)
  BY DEF Carried, Underway
<1>2. /\ high \in Int /\ shigh \in Int /\ dlv[d].amt \in Int /\ deposit \in Int
      /\ AtLeast0(high) + MaxDelta \in Int
  <2>1. high \in Level /\ shigh \in Level /\ dlv[d].amt \in Level /\ deposit \in Int
    BY <1>1 DEF TypeOK, Level
  <2> QED
    BY <2>1, LevelInt, FlowAssumption DEF AtLeast0
<1>3. shigh' \in Level /\ shigh' \in Int /\ shigh' >= shigh
  BY <1>1, <1>2 DEF TypeOK, Level
<1>4. dlv'[d] = [dlv[d] EXCEPT !.stage = stage] \/ (d # cur /\ dlv'[d] = Idle)
  BY DEF TypeOK
<1>5. \A e \in Dlv : e # d => dlv'[e] = dlv[e]
  BY DEF TypeOK
<1>6. TypeOK'
  BY <1>3 DEF TypeOK, Idle, Level, Stage
<1>7. Locked'
  BY <1>4, <1>5 DEF Locked, TypeOK
<1>8. Queued'
  BY DEF Queued
<1>9. Carried'
  <2> SUFFICES ASSUME NEW e \in Dlv, dlv'[e].stage # "idle"
               PROVE  /\ dlv'[e].amt \in Amounts /\ dlv'[e].amt <= AtLeast0(high) + MaxDelta
                      /\ dlv'[e].stage = "verified" => dlv'[e].amt <= deposit
                      /\ dlv'[e].stage = "accepted" => dlv'[e].amt <= shigh'
    BY DEF Carried, AtLeast0
  <2>1. CASE e = d
    <3>1. dlv'[e].amt = dlv[d].amt /\ dlv'[e].stage = stage
      BY <2>1, <1>4 DEF Idle, TypeOK
    <3> QED
      BY <3>1, <1>1
  <2>2. CASE e # d
    <3>1. dlv'[e] = dlv[e]
      BY <2>2, <1>5
    <3>2. /\ dlv[e].amt \in Amounts /\ dlv[e].amt <= AtLeast0(high) + MaxDelta
          /\ dlv[e].stage = "verified" => dlv[e].amt <= deposit
          /\ dlv[e].stage = "accepted" => dlv[e].amt <= shigh
      BY <3>1 DEF Carried
    <3>3. dlv[e].amt \in Int
      BY <3>2, LevelInt DEF Level
    <3> QED
      BY <3>1, <3>2, <3>3, <1>2, <1>3
  <2> QED
    BY <2>1, <2>2
<1>10. Backed'
  BY <1>1, <1>2, <1>3 DEF Backed, Collectable, ExposureBounded, AtLeast0
<1>11. SignedIsBacked' /\ OneFreshAnswer'
  BY DEF SignedIsBacked, OneFreshAnswer
<1> QED
  BY <1>6, <1>7, <1>8, <1>9, <1>10, <1>11

\* The steps of the delivering signer and of the server keep the invariant.
LEMMA CallsInv ==
  ASSUME Inv, NEW d \in Dlv, SignAndPost(d) \/ Fails(d) \/ ServerChecks(d) \/ ServerAccepts(d)
  PROVE  Inv'
<1>a. DepositSeen <= deposit
  BY DEF Inv, TypeOK, Backed, DepositSeen
<1>b. "posted" \in Stage \ {"idle"} /\ "verified" \in Stage \ {"idle"}
  BY DEF Stage, Underway
<1>1. CASE SignAndPost(d)
  <2>1. dlv[d].stage \in Underway /\ shigh' = shigh
    BY <1>1 DEF SignAndPost, Underway
  <2> QED
    BY <1>1, <1>b, <2>1, CallInv DEF SignAndPost
<1>2. CASE Fails(d)
  BY <1>2, CallInv DEF Fails, Stage, Refused
<1>3. CASE ServerChecks(d)
  <2> USE <1>3 DEF ServerChecks
  <2>1. dlv[d].amt \in Int /\ deposit \in Int /\ DepositSeen \in Int
    <3>1. dlv[d].amt \in Level
      BY DEF Inv, TypeOK
    <3> QED
      BY <3>1, LevelInt DEF Inv, TypeOK, DepositSeen, None
  <2>2. CASE closing /\ Ends(d, "closing")
    BY <2>2, CallInv DEF Stage, Underway, Refused
  <2>3. CASE Ends(d, "exhausted")
    BY <2>3, CallInv DEF Stage, Underway, Refused
  <2>4. CASE dlv[d].amt <= DepositSeen /\ dlv' = [dlv EXCEPT ![d].stage = "verified"]
    <3>1. dlv[d].amt <= deposit
      BY <2>4, <2>1, <1>a
    <3>2. dlv[d].stage \in Underway /\ shigh' = shigh
      BY DEF Underway
    <3> QED
      BY <2>4, <3>1, <3>2, <1>b, CallInv
  <2> QED
    BY <2>2, <2>3, <2>4
<1>4. CASE ServerAccepts(d)
  <2> USE <1>4 DEF ServerAccepts
  <2>1. dlv[d].amt \in Int /\ shigh \in Int
    <3>1. dlv[d].amt \in Level /\ shigh \in Level
      BY DEF Inv, TypeOK
    <3> QED
      BY <3>1, LevelInt
  <2>2. CASE dlv[d].amt > AtLeast0(shigh) /\ shigh' = dlv[d].amt /\ Ends(d, "accepted")
    <3>1. dlv[d].amt > shigh
      BY <2>1, <2>2 DEF AtLeast0
    <3> QED
      BY <2>1, <2>2, <3>1, CallInv DEF Stage, Underway
  <2>3. CASE dlv[d].amt = shigh /\ UNCHANGED shigh /\ Ends(d, "accepted")
    BY <2>1, <2>3, CallInv DEF Stage, Underway
  <2>4. CASE UNCHANGED shigh /\ Ends(d, "stale")
    BY <2>4, CallInv DEF Stage, Underway, Refused
  <2> QED
    BY <2>2, <2>3, <2>4
<1> QED
  BY <1>1, <1>2, <1>3, <1>4

\* The accepted voucher of the call in hand lies above the agent's record.
LEMMA AcceptedMeans ==
  ASSUME Inv, phase = "sign", dlv[cur].stage = "accepted"
  PROVE  /\ cur \in Dlv /\ dlv[cur].amt \in Amounts
         /\ dlv[cur].amt \in Int /\ high \in Int /\ shigh \in Int
         /\ dlv[cur].amt > high /\ dlv[cur].amt <= shigh
<1>1. cur \in Dlv /\ dlv[cur].amt > high
  BY DEF Inv, Locked
<1>2. dlv[cur].amt \in Amounts /\ dlv[cur].amt <= shigh
  BY <1>1 DEF Inv, Carried
<1>3. high \in Level /\ shigh \in Level /\ dlv[cur].amt \in Level
  BY <1>2 DEF Inv, TypeOK, Level
<1> QED
  BY <1>1, <1>2, <1>3, LevelInt

\* The voucher is on both sides: it covers the batch, and only the winner's
\* answer is new.
LEMMA ReturnInv == ASSUME Inv, SignReturns PROVE Inv'
<1> USE DEF Inv, SignReturns, Release, Answer
<1>1. /\ cur \in Dlv /\ dlv[cur].amt \in Amounts
      /\ dlv[cur].amt \in Int /\ high \in Int /\ shigh \in Int
      /\ dlv[cur].amt > high /\ dlv[cur].amt <= shigh
  BY AcceptedMeans
<1>2. TypeOK'
  BY <1>1 DEF TypeOK, Level, Signed, Kind, Idle, Stage
<1>3. Locked' /\ Queued'
  BY DEF Locked, Queued, TypeOK
<1>4. AtLeast0(high) \in Int /\ AtLeast0(high') \in Int /\ AtLeast0(high') >= AtLeast0(high)
      /\ MaxDelta \in Int
  BY <1>1, FlowAssumption DEF AtLeast0
<1>5. Carried'
  <2> SUFFICES ASSUME NEW d \in Dlv, dlv'[d].stage # "idle"
               PROVE  /\ dlv'[d].amt \in Amounts /\ dlv'[d].amt <= AtLeast0(high') + MaxDelta
                      /\ dlv'[d].stage = "verified" => dlv'[d].amt <= deposit
                      /\ dlv'[d].stage = "accepted" => dlv'[d].amt <= shigh
    BY DEF Carried
  <2>1. dlv'[d] = dlv[d]
    BY DEF Idle, TypeOK
  <2>2. /\ dlv[d].amt \in Amounts /\ dlv[d].amt <= AtLeast0(high) + MaxDelta
        /\ dlv[d].stage = "verified" => dlv[d].amt <= deposit
        /\ dlv[d].stage = "accepted" => dlv[d].amt <= shigh
    BY <2>1 DEF Carried
  <2>3. dlv[d].amt \in Int
    BY <2>2, LevelInt DEF Level
  <2> QED
    BY <2>1, <2>2, <2>3, <1>4
<1>6. Backed'
  BY <1>1, <1>4 DEF Backed, Collectable, ExposureBounded
<1>7. \A r \in Req : answer'[r] = IF r \in batch THEN Signed(dlv[cur].amt, r # winner) ELSE answer[r]
  BY DEF TypeOK
<1>8. \A r \in Req : /\ answer[r].amt \in Int
                     /\ answer[r].kind = "signed" => answer[r].amt <= high /\ asked[r].amt <= answer[r].amt
  <2> TAKE r \in Req
  <2>1. answer[r].amt \in Level
    BY DEF TypeOK
  <2> QED
    BY <2>1, LevelInt DEF SignedIsBacked
<1>9. SignedIsBacked'
  <2> SUFFICES ASSUME NEW r \in Req, answer'[r].kind = "signed"
               PROVE  asked[r].amt <= answer'[r].amt /\ answer'[r].amt <= dlv[cur].amt
    BY DEF SignedIsBacked
  <2>1. CASE r \in batch
    BY <2>1, <1>1, <1>7 DEF Signed, Locked
  <2>2. CASE r \notin batch
    BY <2>2, <1>1, <1>7, <1>8
  <2> QED
    BY <2>1, <2>2
<1>10. OneFreshAnswer'
  <2> SUFFICES ASSUME NEW r \in Req, NEW q \in Req,
                      answer'[r].kind = "signed", ~answer'[r].reused,
                      answer'[q].kind = "signed", ~answer'[q].reused,
                      answer'[r].amt = answer'[q].amt
               PROVE  r = q
    BY DEF OneFreshAnswer
  <2>1. CASE r \in batch /\ q \in batch
    BY <2>1, <1>7 DEF Signed
  <2>2. CASE r \in batch /\ q \notin batch
    BY <2>2, <1>1, <1>7, <1>8 DEF Signed
  <2>3. CASE r \notin batch /\ q \in batch
    BY <2>3, <1>1, <1>7, <1>8 DEF Signed
  <2>4. CASE r \notin batch /\ q \notin batch
    BY <2>4, <1>7 DEF OneFreshAnswer
  <2> QED
    BY <2>1, <2>2, <2>3, <2>4
<1> QED
  BY <1>2, <1>3, <1>5, <1>6, <1>9, <1>10

\* The contract only grows the deposit, and the record never passes it.
LEMMA ChainInv == ASSUME Inv, TopUp \/ CloseStart PROVE Inv'
<1> USE DEF Inv, agent
<1>0. deposit \in Int /\ deposit' \in Int /\ deposit' >= deposit /\ shigh \in Int /\ high \in Int
  <2>1. shigh \in Level /\ high \in Level
    BY DEF TypeOK
  <2> QED
    BY <2>1, LevelInt, FlowAssumption DEF TypeOK, TopUp, CloseStart
<1>1. TypeOK' /\ record' <= deposit'
  <2>1. CASE TopUp
    <3>1. CASE record' = record
      BY <2>1, <3>1, <1>0, FlowAssumption DEF TopUp, TypeOK, Backed, None
    <3>2. CASE record' = AtLeast0(record) + (deposit' - deposit)
      <4>1. deposit' \in 1..MaxDeposit
        BY <2>1, FlowAssumption DEF TopUp, TypeOK
      <4>2. record \in Int /\ record <= deposit /\ AtLeast0(record) \in Nat
            /\ AtLeast0(record) <= deposit
        BY <1>0, FlowAssumption DEF TypeOK, Backed, None, AtLeast0
      <4>3. deposit' >= deposit + 1 /\ deposit' <= MaxDeposit /\ deposit' \in Int
        BY <2>1, <1>0, <4>1, FlowAssumption DEF TopUp
      <4>4. record' \in 1..MaxDeposit /\ record' <= deposit'
        BY <3>2, <4>2, <4>3, <1>0, FlowAssumption
      <4> QED
        BY <2>1, <4>1, <4>4 DEF TopUp, TypeOK
    <3> QED
      BY <2>1, <3>1, <3>2 DEF TopUp
  <2>2. CASE CloseStart
    BY <2>2 DEF CloseStart, TypeOK, Backed
  <2> QED
    BY <2>1, <2>2
<1>2. Locked' /\ Queued' /\ SignedIsBacked' /\ OneFreshAnswer'
  BY DEF TopUp, CloseStart, Locked, Queued, SignedIsBacked, OneFreshAnswer
<1>3. Carried'
  <2> SUFFICES ASSUME NEW d \in Dlv, dlv[d].stage # "idle"
               PROVE  dlv[d].stage = "verified" => dlv[d].amt <= deposit'
    BY DEF Carried, TopUp, CloseStart, AtLeast0
  <2>1. dlv[d].amt \in Amounts /\ (dlv[d].stage = "verified" => dlv[d].amt <= deposit)
    BY DEF Carried
  <2>2. dlv[d].amt \in Int
    BY <2>1, LevelInt DEF Level
  <2> QED
    BY <2>1, <2>2, <1>0
<1>4. Backed'
  BY <1>0, <1>1 DEF Backed, Collectable, ExposureBounded, TopUp, CloseStart, AtLeast0
<1> QED
  BY <1>1, <1>2, <1>3, <1>4

\* A verified voucher of which the restarted server finds the line.
LEMMA ServerInv == ASSUME Inv, ServerRestarts PROVE Inv'
<1> USE DEF Inv, ServerRestarts, agent
<1>1. \A d \in Dlv : \/ dlv'[d] = dlv[d] /\ dlv[d].stage # "verified"
                     \/ d = cur /\ dlv'[d] = [dlv[d] EXCEPT !.stage = "failed"]
                     \/ d # cur /\ dlv'[d] = Idle
  OBVIOUS
<1>2. shigh \in Int /\ high \in Int /\ deposit \in Int /\ AtLeast0(high) + MaxDelta \in Int
  <2>1. shigh \in Level /\ high \in Level
    BY DEF TypeOK
  <2> QED
    BY <2>1, LevelInt, FlowAssumption DEF TypeOK, AtLeast0
<1>3. shigh' \in Level /\ shigh' \in Int /\ shigh' >= shigh /\ shigh' <= deposit
      /\ shigh' <= AtLeast0(high) + MaxDelta
  <2>1. CASE shigh' = shigh
    BY <2>1, <1>2 DEF TypeOK, Backed, Collectable, ExposureBounded
  <2>2. ASSUME NEW d \in Dlv, dlv[d].stage = "verified", dlv[d].amt > AtLeast0(shigh),
               shigh' = dlv[d].amt
        PROVE  shigh' \in Level /\ shigh' \in Int /\ shigh' >= shigh /\ shigh' <= deposit
               /\ shigh' <= AtLeast0(high) + MaxDelta
    <3>1. dlv[d].amt \in Amounts /\ dlv[d].amt <= deposit /\ dlv[d].amt <= AtLeast0(high) + MaxDelta
      BY <2>2 DEF Carried
    <3>2. dlv[d].amt \in Level /\ dlv[d].amt \in Int
      BY <3>1, LevelInt DEF Level
    <3> QED
      BY <2>2, <3>1, <3>2, <1>2 DEF AtLeast0
  <2> QED
    BY <2>1, <2>2
<1>4. TypeOK'
  <2>1. dlv' \in [Dlv -> [stage : Stage, amt : Level]]
    BY <1>1 DEF TypeOK, Idle, Stage, Level, Refused
  <2> QED
    BY <2>1, <1>3 DEF TypeOK
<1>5. Locked' /\ Queued' /\ SignedIsBacked' /\ OneFreshAnswer'
  BY <1>1 DEF Locked, Queued, SignedIsBacked, OneFreshAnswer, TypeOK
<1>6. Carried'
  <2> SUFFICES ASSUME NEW d \in Dlv, dlv'[d].stage # "idle"
               PROVE  /\ dlv'[d].amt \in Amounts /\ dlv'[d].amt <= AtLeast0(high) + MaxDelta
                      /\ dlv'[d].stage # "verified"
                      /\ dlv'[d].stage = "accepted" => dlv'[d].amt <= shigh'
    BY DEF Carried, AtLeast0
  <2>1. /\ dlv[d].stage # "idle" /\ dlv'[d].amt = dlv[d].amt
        /\ \/ dlv'[d].stage = dlv[d].stage /\ dlv[d].stage # "verified"
           \/ dlv'[d].stage = "failed"
    BY <1>1 DEF Idle, TypeOK
  <2>2. /\ dlv[d].amt \in Amounts /\ dlv[d].amt <= AtLeast0(high) + MaxDelta
        /\ dlv[d].stage = "accepted" => dlv[d].amt <= shigh
    BY <2>1 DEF Carried
  <2>3. dlv[d].amt \in Int
    BY <2>2, LevelInt DEF Level
  <2> QED
    BY <2>1, <2>2, <2>3, <1>2, <1>3
<1>7. Backed'
  BY <1>2, <1>3 DEF Backed, Collectable, ExposureBounded, AtLeast0
<1> QED
  BY <1>4, <1>5, <1>6, <1>7

\* The invariant is inductive.
LEMMA StepInv == Inv /\ [Next]_vars => Inv'
<1> SUFFICES ASSUME Inv, [Next]_vars PROVE Inv'
  OBVIOUS
<1>1. CASE \E r \in Req : Ask(r)
  BY <1>1, AskInv
<1>2. CASE TakeBatch \/ InfoArrives
  BY <1>2, TakeInv, InfoInv
<1>3. CASE InfoFails \/ InfoTimesOut \/ SignRejects \/ SignAbandoned \/ AgentRestarts
  BY <1>3, SendAwayInv
<1>4. CASE LateInfo \/ CacheExpires
  BY <1>4, CacheInv
<1>5. CASE \E d \in Dlv : SignAndPost(d) \/ Fails(d) \/ ServerChecks(d) \/ ServerAccepts(d)
  BY <1>5, CallsInv
<1>6. CASE SignReturns
  BY <1>6, ReturnInv
<1>7. CASE TopUp \/ CloseStart
  BY <1>7, ChainInv
<1>8. CASE ServerRestarts
  BY <1>8, ServerInv
<1>9. CASE UNCHANGED vars
  <2> USE <1>9 DEF vars, agent, Inv
  <2>1. TypeOK' /\ Locked' /\ Queued'
    BY DEF TypeOK, Locked, Queued
  <2>2. Carried' /\ Backed' /\ SignedIsBacked' /\ OneFreshAnswer'
    BY DEF Carried, Backed, Collectable, ExposureBounded, SignedIsBacked, OneFreshAnswer, AtLeast0
  <2> QED
    BY <2>1, <2>2
<1> QED
  BY <1>1, <1>2, <1>3, <1>4, <1>5, <1>6, <1>7, <1>8, <1>9 DEF Next

\* Inv holds in every reachable state.
LEMMA Invariance == Spec => []Inv
<1> QED
  BY InitInv, StepInv, PTL DEF Spec

\* For any number of requests and signer calls, any amounts, any MAX_DELTA and
\* any deposit: the variables keep their types.
THEOREM TypeCorrect == Spec => []TypeOK
<1> QED
  BY Invariance, PTL DEF Inv

\* Every "signed" answer of processBatch() covers its reading and is in the log.
THEOREM SignedAreBacked == Spec => []SignedIsBacked
<1> QED
  BY Invariance, PTL DEF Inv

\* What the agent has on record the server has, and the deposit covers it.
THEOREM RecordedIsCollectable == Spec => []Collectable
<1> QED
  BY Invariance, PTL DEF Inv, Backed

\* Lost responses, timeouts and restarts leave the server at most one MaxDelta
\* above the agent's record.
THEOREM ExposureIsBounded == Spec => []ExposureBounded
<1> QED
  BY Invariance, PTL DEF Inv, Backed

\* No voucher is announced as new twice.
THEOREM FreshAnswersDiffer == Spec => []OneFreshAnswer
<1> QED
  BY Invariance, PTL DEF Inv

----------------------------------------------------------------------------
\* Every step of the pipeline is a step of the ledger, or leaves it alone.
LEMMA LedgerStep == Inv /\ [Next]_vars => [L!Next]_(L!vars)
<1> SUFFICES ASSUME Inv, [Next]_vars PROVE L!Next \/ UNCHANGED <<deposit, shigh, high>>
  BY DEF L!vars
<1>0. shigh \in Int /\ high \in Int /\ deposit \in Int /\ MaxDelta \in Int
  <2>1. shigh \in Level /\ high \in Level
    BY DEF Inv, TypeOK
  <2> QED
    BY <2>1, LevelInt, FlowAssumption DEF Inv, TypeOK
<1>1. ASSUME NEW d \in Dlv, dlv[d].stage = "verified", dlv[d].amt > AtLeast0(shigh),
             shigh' = dlv[d].amt, UNCHANGED <<deposit, high>>
      PROVE  L!Next
  <2>1. dlv[d].amt \in Amounts /\ dlv[d].amt <= deposit /\ dlv[d].amt <= AtLeast0(high) + MaxDelta
    BY <1>1 DEF Inv, Carried
  <2>2. dlv[d].amt \in Int
    BY <2>1, LevelInt DEF Level
  <2> QED
    BY <1>0, <1>1, <2>1, <2>2 DEF L!Next, L!Accept, L!AtLeast0, AtLeast0
<1>2. ASSUME phase = "sign", dlv[cur].stage = "accepted", high' = dlv[cur].amt,
             UNCHANGED <<deposit, shigh>>
      PROVE  L!Next
  BY <1>2, AcceptedMeans DEF L!Next, L!Learn
<1>3. CASE \E d \in Dlv : ServerAccepts(d)
  BY <1>1, <1>3 DEF ServerAccepts, agent
<1>4. CASE ServerRestarts
  BY <1>1, <1>4 DEF ServerRestarts, agent
<1>5. CASE SignReturns
  BY <1>2, <1>5 DEF SignReturns
<1>6. CASE AgentRestarts
  BY <1>2, <1>6 DEF AgentRestarts
<1>7. CASE TopUp
  BY <1>7 DEF TopUp, agent, L!Next, L!TopUp
<1>8. CASE \/ \E r \in Req : Ask(r)
           \/ TakeBatch \/ InfoArrives \/ InfoFails \/ InfoTimesOut \/ LateInfo \/ CacheExpires
           \/ \E d \in Dlv : SignAndPost(d) \/ Fails(d) \/ ServerChecks(d)
           \/ SignRejects \/ SignAbandoned \/ CloseStart \/ UNCHANGED vars
  BY <1>8 DEF Ask, TakeBatch, TakeBatchHit, TakeBatchMiss, InfoArrives, InfoFails, InfoTimesOut,
     LateInfo, CacheExpires, SignAndPost, Fails, ServerChecks, SignRejects, SignAbandoned,
     CloseStart, vars, agent
<1> QED
  BY <1>3, <1>4, <1>5, <1>6, <1>7, <1>8 DEF Next

\* The whole pipeline, with its timeouts, restarts and stale reads, implements
\* the ledger: growing vouchers within the deposit and within one MaxDelta of
\* what the payer has on record.
THEOREM ImplementsLedger == Spec => Ledger
<1>1. Init => L!Init
  BY DEF Init, L!Init, L!None, None
<1> QED
  BY <1>1, Invariance, LedgerStep, PTL DEF Spec, Ledger, L!Spec

----------------------------------------------------------------------------
(* No request is forgotten, and none is answered twice *)

\* A request is open exactly while it waits for the lock or is in the holder's hands, and
\* the lock is free exactly when nothing is: what EveryRequestSettles rests on.
Held ==
  /\ \A r \in Req : answer[r].kind = "pending" <=> r \in waiting \cup batch
  /\ phase = "free" <=> batch = {}

\* An answer stays what it is until its gateway asks again (the promise of a batch is
\* resolved once): only open requests are answered, and only a new reading reopens one.
AnswerKept(r) ==
  \/ answer'[r] = answer[r]
  \/ answer[r].kind = "pending"
  \/ answer'[r] = Reply("pending") /\ asked'[r].amt \in Amounts
AnsweredOnce == [][\A r \in Req : AnswerKept(r)]_vars

\* Answering a part of the open requests closes that part and no other.
LEMMA AnswerCloses ==
  ASSUME Inv, Held, NEW b \in SUBSET (waiting \cup batch), NEW m2,
         \A r \in b : m2[r].kind # "pending", Answer(b, m2)
  PROVE  /\ \A r \in Req : answer'[r].kind = "pending" <=> r \in (waiting \cup batch) \ b
         /\ \A r \in Req : AnswerKept(r)
<1>1. b \subseteq Req
  BY DEF Inv, TypeOK
<1>2. \A r \in Req : answer'[r] = IF r \in b THEN m2[r] ELSE answer[r]
  BY DEF Answer
<1> QED
  BY <1>1, <1>2 DEF Held, AnswerKept

\* The same answer for all: none of the refusals is "pending".
LEMMA AllAnswered ==
  ASSUME Inv, Held, NEW b \in SUBSET (waiting \cup batch), NEW k, k # "pending", AnswerAll(b, k)
  PROVE  /\ \A r \in Req : answer'[r].kind = "pending" <=> r \in (waiting \cup batch) \ b
         /\ \A r \in Req : AnswerKept(r)
<1> DEFINE m2 == [r \in b |-> Reply(k)]
<1>1. \A r \in b : m2[r].kind # "pending"
  BY DEF Reply
<1>2. Answer(b, m2)
  BY DEF AnswerAll
<1> HIDE DEF m2
<1> QED
  BY <1>1, <1>2, AnswerCloses

\* processBatch() between two awaits, the batch b being all that the lock's holder has.
LEMMA ClassifyHeld ==
  ASSUME Inv, Held, NEW b \in SUBSET (waiting \cup batch), NEW prev, NEW info, Classify(b, prev, info),
         b # {}, waiting' = (waiting \cup batch) \ b
  PROVE  Held' /\ \A r \in Req : AnswerKept(r)
<1> DEFINE cands == Candidates(b, prev, info.dep)
           m2 == [r \in b |-> ReplyTo(r, prev, info.dep)]
<1>1. cands \subseteq b
  BY DEF Candidates
<1>2. \A r \in b \ cands : m2[r].kind # "pending"
  <2> SUFFICES ASSUME NEW r \in b \ cands
               PROVE  ReplyTo(r, prev, info.dep).kind # "pending"
    OBVIOUS
  <2>1. Verdict(asked[r], prev, info.dep) # "pending"
    BY VerdictType
  <2> QED
    BY <2>1 DEF ReplyTo, Signed, Reply
<1>3. CASE AnswerAll(b, "channel_closing") /\ Release
  <2>1. /\ \A r \in Req : answer'[r].kind = "pending" <=> r \in (waiting \cup batch) \ b
        /\ \A r \in Req : AnswerKept(r)
    BY <1>3, AllAnswered
  <2> QED
    BY <1>3, <2>1 DEF Held, Release
<1>4. CASE cands = {} /\ Answer(b, m2) /\ Release
  <2>1. \A r \in b : m2[r].kind # "pending"
    BY <1>2, <1>4
  <2> HIDE DEF m2, cands
  <2>2. /\ \A r \in Req : answer'[r].kind = "pending" <=> r \in (waiting \cup batch) \ b
        /\ \A r \in Req : AnswerKept(r)
    BY <1>4, <2>1, AnswerCloses
  <2> QED
    BY <1>4, <2>2 DEF Held, Release
<1>5. CASE Answer(b \ cands, m2) /\ cands # {} /\ phase' = "sign" /\ batch' = cands
  <2> HIDE DEF m2, cands
  <2>1. /\ \A r \in Req : answer'[r].kind = "pending" <=> r \in (waiting \cup batch) \ (b \ cands)
        /\ \A r \in Req : AnswerKept(r)
    BY <1>2, <1>5, AnswerCloses
  <2>2. (waiting \cup batch) \ (b \ cands) = waiting' \cup batch'
    BY <1>1, <1>5
  <2> QED
    BY <1>5, <2>1, <2>2 DEF Held
<1> QED
  BY <1>3, <1>4, <1>5 DEF Classify

\* The lock's holder gives up, for whatever reason, and answers its batch.
LEMMA GivesUpHeld ==
  ASSUME Inv, Held, NEW k, k # "pending", AnswerAll(batch, k), Release, waiting' = waiting
  PROVE  Held' /\ \A r \in Req : AnswerKept(r)
<1>1. /\ \A r \in Req : answer'[r].kind = "pending" <=> r \in (waiting \cup batch) \ batch
      /\ \A r \in Req : AnswerKept(r)
  BY AllAnswered
<1>2. (waiting \cup batch) \ batch = waiting' \cup batch' /\ phase' = "free" /\ batch' = {}
  BY DEF Inv, Queued, Release
<1> QED
  BY <1>1, <1>2 DEF Held

\* No step loses an open request or touches a closed one.
LEMMA HeldStep == Inv /\ Held /\ [Next]_vars => Held' /\ \A r \in Req : AnswerKept(r)
<1> SUFFICES ASSUME Inv, Held, [Next]_vars
             PROVE  Held' /\ \A r \in Req : AnswerKept(r)
  OBVIOUS
<1>1. CASE UNCHANGED <<waiting, phase, batch, answer>>
  BY <1>1 DEF Held, AnswerKept
<1>2. ASSUME NEW r \in Req, Ask(r)
      PROVE  Held' /\ \A s \in Req : AnswerKept(s)
  <2>1. /\ answer' = [answer EXCEPT ![r] = Reply("pending")] /\ waiting' = waiting \cup {r}
        /\ UNCHANGED <<phase, batch>> /\ asked'[r].amt \in Amounts
    BY <1>2 DEF Ask, Inv, TypeOK
  <2>2. /\ \A s \in Req : s # r => answer'[s] = answer[s]
        /\ answer'[r] = Reply("pending") /\ answer'[r].kind = "pending"
    BY <2>1 DEF Inv, TypeOK, Reply
  <2> QED
    BY <2>1, <2>2 DEF Held, AnswerKept
<1>3. CASE TakeBatchHit
  <2>1. batch = {} /\ waiting # {} /\ waiting' = {} /\ Classify(waiting, high, cache)
    BY <1>3 DEF TakeBatchHit, Held
  <2> QED
    BY <2>1, ClassifyHeld
<1>4. CASE TakeBatchMiss
  <2>1. /\ batch = {} /\ waiting # {} /\ waiting' = {} /\ batch' = waiting /\ phase' = "info"
        /\ answer' = answer
    BY <1>4 DEF TakeBatchMiss, Held
  <2> QED
    BY <2>1 DEF Held, AnswerKept
<1>5. CASE InfoArrives
  <2>1. batch # {} /\ waiting' = (waiting \cup batch) \ batch /\ Classify(batch, previous, ChainInfo)
    BY <1>5 DEF InfoArrives, Held, Inv, Queued
  <2> QED
    BY <2>1, ClassifyHeld
<1>6. CASE InfoFails \/ InfoTimesOut \/ SignRejects \/ SignAbandoned
  <2>1. /\ Release /\ waiting' = waiting
        /\ \E k \in {"upstream_unavailable", "internal_error", "signer_unavailable"} : AnswerAll(batch, k)
    BY <1>6 DEF InfoFails, InfoTimesOut, SignRejects, SignAbandoned
  <2> QED
    BY <2>1, GivesUpHeld
<1>7. CASE SignReturns
  <2> DEFINE m2 == [r \in batch |-> Signed(dlv[cur].amt, r # winner)]
  <2>1. \A r \in batch : m2[r].kind # "pending"
    BY DEF Signed
  <2>2. Answer(batch, m2) /\ waiting' = waiting /\ phase' = "free" /\ batch' = {}
    BY <1>7 DEF SignReturns, Release
  <2> HIDE DEF m2
  <2>3. /\ \A r \in Req : answer'[r].kind = "pending" <=> r \in (waiting \cup batch) \ batch
        /\ \A r \in Req : AnswerKept(r)
    BY <2>1, <2>2, AnswerCloses
  <2>4. (waiting \cup batch) \ batch = waiting' \cup batch'
    BY <2>2 DEF Inv, Queued
  <2> QED
    BY <2>2, <2>3, <2>4 DEF Held
<1>8. CASE AgentRestarts
  <2> DEFINE open == {r \in Req : answer[r].kind = "pending"}
  <2>1. AnswerAll(open, "dropped") /\ waiting' = {} /\ phase' = "free" /\ batch' = {}
    BY <1>8 DEF AgentRestarts, Release
  <2>2. open = waiting \cup batch
    BY DEF Held, Inv, TypeOK
  <2> HIDE DEF open
  <2>3. /\ \A r \in Req : answer'[r].kind = "pending" <=> r \in (waiting \cup batch) \ open
        /\ \A r \in Req : AnswerKept(r)
    BY <2>1, <2>2, AllAnswered
  <2> QED
    BY <2>1, <2>2, <2>3 DEF Held
<1>9. LateInfo \/ CacheExpires \/ TopUp \/ CloseStart \/ ServerRestarts \/ UNCHANGED vars
      \/ (\E d \in Dlv : SignAndPost(d) \/ Fails(d) \/ ServerChecks(d) \/ ServerAccepts(d))
      => UNCHANGED <<waiting, phase, batch, answer>>
  BY DEF LateInfo, CacheExpires, TopUp, CloseStart, ServerRestarts, SignAndPost, Fails, ServerChecks,
         ServerAccepts, agent, vars
<1> QED
  BY <1>1, <1>2, <1>3, <1>4, <1>5, <1>6, <1>7, <1>8, <1>9 DEF Next, TakeBatch

LEMMA InitHeld == Init => Held
BY DEF Init, Held, Reply

\* Through coalescing, timeouts, a failed signer and restarts, an open request is in the
\* hands of exactly one batch, so no path of processBatch() leaves a gateway without answer.
THEOREM RequestsAreHeld == Spec => []Held
BY InitHeld, HeldStep, Invariance, PTL DEF Spec

\* And none is answered twice: an abandoned signature that comes back late changes no answer.
THEOREM AnswersAreFinal == Spec => AnsweredOnce
<1>1. Inv /\ Held /\ [Next]_vars => [\A r \in Req : AnswerKept(r)]_vars
  BY HeldStep
<1> QED
  BY <1>1, InitHeld, HeldStep, Invariance, PTL DEF Spec, AnsweredOnce
=============================================================================
