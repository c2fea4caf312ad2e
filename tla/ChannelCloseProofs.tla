--------------------------- MODULE ChannelCloseProofs ---------------------------
(***************************************************************************)
(* Proofs about ChannelClose for any amounts, deposits, bursts and faults, *)
(* whoever closes and however the monitor's polls overlap.                 *)
(***************************************************************************)
EXTENDS ChannelClose, TLAPS

Call == [pc : {"idle", "sent", "ok", "failed", "verify"} \cup Calling,
         amt : Level, expect : Int, fb : Reading, rb : Reading,
         fok : BOOLEAN, rok : BOOLEAN, saw : BOOLEAN, left : 0..Attempts, ans : BOOLEAN]
Transaction == [by : Closer, amt : Amounts, ans : BOOLEAN]
Events == reported["closed"] + reported["unverified"]

\* Nothing is made or lost: what was paid in is still there or with its owner.
Money ==
  /\ deposit = bal + paid + funder
  /\ ended = "open" => paid = 0 /\ funder = 0

\* Only the processes that run do anything.
Owners ==
  /\ cliOpen => "cli" \in Closer
  /\ tries > 0 => "monitor" \in Closer
  /\ \A p \in Poll : polls[p] # NoReading => "monitor" \in Closer

\* A call of the monitor has an attempt of the burst to spend, a call past the
\* contract's state an amount, and one that verifies a round.
CallOK(c, rec) ==
  /\ rec.pc \in {"before", "sent", "ok", "failed", "verify"} => rec.amt \in Amounts
  /\ rec.pc = "verify" => rec.left > 0
Calls ==
  /\ \A c \in Closer : CallOK(c, at[c])
  /\ "monitor" \in Closer /\ at["monitor"].pc # "idle" => tries > 0

\* One call at most knows of a close that succeeded: the settler's, which has
\* not reported it yet.
Known(c, rec) == rec.pc \in {"ok", "verify"} => ended = "closed" /\ settler = c /\ Events = 0
OneSettler ==
  /\ LatchedIsSettled
  /\ \A c \in Closer : Known(c, at[c])
  /\ Events <= 1 /\ (Events > 0 => ended = "closed")

Inv == TypeOK /\ Money /\ Owners /\ Calls /\ OneSettler

----------------------------------------------------------------------------
\* Amounts, bounds and attempts are what the assumptions say.
LEMMA Constants ==
  /\ \A a \in Amounts : a \in Nat /\ a > 0 /\ a \in Level
  /\ \A a \in Level : a \in Int /\ a >= -1
  /\ \A a \in Level : a # None => a \in Amounts
  /\ MaxDeposit \in Nat /\ MaxDeposit > 0
  /\ Burst \in Nat /\ Burst > 0 /\ Attempts \in Nat /\ Attempts > 0
  /\ None \in Level /\ None \in Reading
  /\ \A n \in Reading : n \in Int /\ n >= -1
  /\ \A n \in 0..MaxDeposit : n \in Reading
<1>1. /\ MaxDeposit \in Nat /\ MaxDeposit > 0
      /\ Burst \in Nat /\ Burst > 0 /\ Attempts \in Nat /\ Attempts > 0
  BY CloseAssumption
<1>2. \A a \in Amounts : a \in Nat /\ a > 0 /\ a \in Level
  BY CloseAssumption DEF Level
<1>3. /\ None \in Level /\ None \in Reading /\ None = -1
      /\ \A a \in Level : a # None => a \in Amounts
  BY DEF Level, Reading, None
<1>4. \A a \in Level : a \in Int /\ a >= -1
  <2> SUFFICES ASSUME NEW a \in Level PROVE a \in Int /\ a >= -1
    OBVIOUS
  <2>1. CASE a \in Amounts
    BY <1>2, <2>1
  <2>2. CASE a = None
    BY <2>2, <1>3
  <2> QED
    BY <2>1, <2>2 DEF Level
<1>5. \A n \in Reading : n \in Int /\ n >= -1
  BY <1>1, <1>3 DEF Reading
<1>6. \A n \in 0..MaxDeposit : n \in Reading
  BY DEF Reading
<1> QED
  BY <1>1, <1>2, <1>3, <1>4, <1>5, <1>6

\* The call that has not begun.
LEMMA IdleCall ==
  /\ Idle \in Call /\ Idle.pc = "idle"
  /\ [Idle EXCEPT !.pc = "trustline"] \in Call
  /\ [Idle EXCEPT !.pc = "trustline"].pc = "trustline"
<1>1. None \in Level /\ None \in Reading /\ 0 \in 0..Attempts /\ 0 \in Int
  BY Constants
<1>2. Idle \in Call /\ Idle.pc = "idle"
  BY <1>1 DEF Idle, Call
<1> QED
  BY <1>1, <1>2 DEF Idle, Call, Calling

\* The type invariant, with its record types by name.
LEMMA Types ==
  ASSUME TypeOK
  PROVE  /\ at \in [Closer -> Call] /\ floating \subseteq Transaction
         /\ Events \in 0..4
BY DEF TypeOK, Call, Transaction, Events

\* The initial states satisfy the invariant.
LEMMA InitInv == Init => Inv
<1> SUFFICES ASSUME Init PROVE Inv
  OBVIOUS
<1>1. TypeOK
  <2>1. at \in [Closer -> Call]
    BY IdleCall DEF Init
  <2>2. polls \in [Poll -> PollState]
    BY Constants DEF Init, NoReading, PollState
  <2>3. /\ deposit \in 1..MaxDeposit /\ bal \in 0..MaxDeposit /\ tries \in 0..Burst
        /\ paid \in 0..MaxDeposit /\ funder \in 0..MaxDeposit
    BY Constants DEF Init
  <2>4. /\ reported \in [{"closed", "unverified"} -> 0..2]
        /\ settler \in Closer \cup {Nobody} /\ ended \in {"open", "closed", "refunded"}
    BY DEF Init
  <2>5. shigh \in Level /\ owed \in Level /\ cliHigh \in Level /\ lastBal \in Reading
    BY Constants DEF Init
  <2>6. /\ floating \subseteq Transaction /\ inhand \subseteq Amounts
        /\ dispute \in BOOLEAN /\ trust \in BOOLEAN /\ triggered \in BOOLEAN /\ cliOpen \in BOOLEAN
        /\ answered \in BOOLEAN
    BY DEF Init
  <2> QED
    BY <2>1, <2>2, <2>3, <2>4, <2>5, <2>6 DEF TypeOK, Call, Transaction
<1>2. Money /\ Owners
  BY Constants DEF Init, Money, Owners
<1>3. Calls /\ OneSettler
  BY IdleCall DEF Init, Calls, CallOK, OneSettler, Known, LatchedIsSettled, Events
<1> QED
  BY <1>1, <1>2, <1>3 DEF Inv

\* A call that goes on keeps the invariant, if its record is a right one.
LEMMA GoesInv ==
  ASSUME Inv, NEW c \in Closer, NEW rec \in Call, Goes(c, rec),
         at[c].pc # "idle", CallOK(c, rec), Known(c, rec),
         Rest, UNCHANGED <<floating, reported>>
  PROVE  Inv'
<1> USE DEF Inv, Goes, Rest, contract, cli
<1>0. at \in [Closer -> Call]
  BY Types
<1>1. /\ at' = [at EXCEPT ![c] = rec] /\ at' \in [Closer -> Call]
  BY <1>0
<1>2. TypeOK'
  BY <1>1 DEF TypeOK, Call
<1>3. Money' /\ Owners'
  BY DEF Money, Owners
<1>4. Calls'
  BY <1>0, <1>1 DEF Calls, CallOK
<1>5. OneSettler'
  BY <1>0, <1>1 DEF OneSettler, Known, LatchedIsSettled, Events
<1> QED
  BY <1>2, <1>3, <1>4, <1>5

\* A call that comes back keeps the invariant, if "closed" is said of the
\* settler only and channel.closed is reported by a call that knows.
LEMMA OutcomeInv ==
  ASSUME Inv, NEW c \in Closer, NEW kind, Outcome(c, kind), at[c].pc # "idle",
         kind = "closed" => ended = "closed" /\ settler = c,
         Rest, floating' \subseteq Transaction,
         \/ reported' = reported
         \/ /\ at[c].pc \in {"ok", "verify"} /\ Events' = 1
            /\ reported' \in [{"closed", "unverified"} -> 0..2]
  PROVE  Inv'
<1> USE DEF Inv, Outcome, Rest, contract, cli, CliEnds
<1>0. at \in [Closer -> Call] /\ Events \in 0..4
  BY Types
<1>1. /\ at' = [at EXCEPT ![c] = Idle] /\ at' \in [Closer -> Call]
  BY <1>0, IdleCall
<1>2. c \in {"monitor", "cli"} /\ Burst \in Nat
  BY CloseAssumption
<1>3. /\ tries' \in 0..Burst /\ triggered' \in BOOLEAN /\ cliOpen' \in BOOLEAN /\ cliHigh' \in Level
      /\ cliOpen' => cliOpen
      /\ tries' > 0 => tries > 0
      /\ c = "cli" => tries' = tries /\ triggered' = triggered
      /\ triggered' => triggered \/ (c = "monitor" /\ kind = "closed")
  <2>1. CASE c = "cli"
    BY <2>1, Constants DEF TypeOK
  <2>2. CASE c = "monitor"
    <3>1. tries \in 1..Burst
      BY <2>2, <1>2 DEF Calls, TypeOK
    <3>2. tries' \in 0..Burst /\ tries' <= tries
      BY <2>2, <3>1, <1>2
    <3>3. triggered' \in BOOLEAN /\ (triggered' => triggered \/ kind = "closed")
      BY <2>2 DEF TypeOK
    <3> QED
      BY <2>2, <3>1, <3>2, <3>3 DEF TypeOK
  <2> QED
    BY <1>2, <2>1, <2>2
<1>4. TypeOK'
  BY <1>1, <1>3 DEF TypeOK, Call, Transaction
<1>5. Money' /\ Owners'
  BY <1>3 DEF Money, Owners
<1>6. Calls'
  BY <1>0, <1>1, <1>2, <1>3, IdleCall DEF Calls, CallOK
<1>7. LatchedIsSettled'
  BY <1>3 DEF OneSettler, LatchedIsSettled
<1>8. /\ \A d \in Closer : d # c => at'[d] = at[d]
      /\ at'[c].pc = "idle"
  BY <1>0, <1>1, IdleCall
<1>9. OneSettler'
  <2>1. CASE reported' = reported
    <3>1. \A d \in Closer : Known(d, at[d])'
      BY <1>8, <2>1 DEF OneSettler, Known, Events
    <3> QED
      BY <1>7, <2>1, <3>1 DEF OneSettler, Events
  <2>2. CASE at[c].pc \in {"ok", "verify"} /\ Events' = 1
    <3>1. ended = "closed" /\ settler = c
      BY <2>2 DEF OneSettler, Known
    <3>2. \A d \in Closer : d # c => at[d].pc \notin {"ok", "verify"}
      BY <3>1 DEF OneSettler, Known
    <3>3. \A d \in Closer : Known(d, at[d])'
      BY <1>8, <3>2 DEF Known
    <3>4. Events' <= 1
      BY <2>2
    <3> QED
      BY <1>7, <3>1, <3>3, <3>4 DEF OneSettler
  <2> QED
    BY <2>1, <2>2
<1> QED
  BY <1>4, <1>5, <1>6, <1>9

\* channel.closed, reported for the first time.
LEMMA ReportsOne ==
  ASSUME TypeOK, Events = 0, NEW k \in {"closed", "unverified"}, Reports(k)
  PROVE  Events' = 1 /\ reported' \in [{"closed", "unverified"} -> 0..2]
BY DEF TypeOK, Events, Reports

----------------------------------------------------------------------------
(* closeChannel(), one lemma per await *)

\* What a lemma about a call may take from the invariant.
LEMMA CallFacts ==
  ASSUME Inv, NEW c \in Closer
  PROVE  /\ at[c] \in Call /\ CallOK(c, at[c]) /\ Known(c, at[c])
         /\ at[c].amt \in Level /\ at[c].left \in 0..Attempts
         /\ floating \subseteq Transaction
BY Types DEF Inv, Calls, OneSettler, Call

LEMMA TrustlineAnswersInv ==
  ASSUME Inv, NEW c \in Closer, TrustlineAnswers(c)
  PROVE  Inv'
<1> USE DEF TrustlineAnswers
<1>1. CASE Outcome(c, "blocked")
  BY <1>1, OutcomeInv, CallFacts
<1>2. CASE Goes(c, [at[c] EXCEPT !.pc = "state"])
  <2> DEFINE rec == [at[c] EXCEPT !.pc = "state"]
  <2>1. rec \in Call /\ rec.pc = "state"
    BY CallFacts DEF Call, Calling
  <2>2. CallOK(c, rec) /\ Known(c, rec)
    BY <2>1 DEF CallOK, Known
  <2> HIDE DEF rec
  <2>3. Goes(c, rec)
    BY <1>2 DEF rec
  <2> QED
    BY <2>1, <2>2, <2>3, GoesInv
<1> QED
  BY <1>1, <1>2

LEMMA HighestType ==
  ASSUME Inv, NEW c \in Closer
  PROVE  Highest(c) \in Level
BY DEF Inv, TypeOK, Highest

LEMMA StateAnswersInv ==
  ASSUME Inv, NEW c \in Closer, StateAnswers(c)
  PROVE  Inv'
<1> USE DEF StateAnswers
<1>1. CASE Outcome(c, "nothing_to_close")
  BY <1>1, OutcomeInv, CallFacts
<1>2. CASE /\ Highest(c) # None
           /\ Goes(c, [at[c] EXCEPT !.pc = "before", !.amt = Highest(c), !.expect = bal - Highest(c),
                         !.ans = (c = "monitor" /\ dispute)])
  <2> DEFINE rec == [at[c] EXCEPT !.pc = "before", !.amt = Highest(c), !.expect = bal - Highest(c),
                         !.ans = (c = "monitor" /\ dispute)]
  <2>1. /\ Highest(c) \in Amounts /\ Highest(c) \in Level /\ bal - Highest(c) \in Int
        /\ (c = "monitor" /\ dispute) \in BOOLEAN
    BY <1>2, HighestType, Constants DEF Inv, TypeOK
  <2>2. rec \in Call /\ rec.pc = "before" /\ rec.amt \in Amounts
    BY <2>1, CallFacts DEF Call, Calling
  <2>3. CallOK(c, rec) /\ Known(c, rec)
    BY <2>2 DEF CallOK, Known
  <2> HIDE DEF rec
  <2>4. Goes(c, rec)
    BY <1>2 DEF rec
  <2> QED
    BY <2>2, <2>3, <2>4, GoesInv
<1> QED
  BY <1>1, <1>2

LEMMA StateFailsInv ==
  ASSUME Inv, NEW c \in Closer, StateFails(c)
  PROVE  Inv'
BY OutcomeInv, CallFacts DEF StateFails

LEMMA ReadsType ==
  ASSUME Inv
  PROVE  FunderReads \subseteq Reading /\ RecipientReads \subseteq Reading
BY Constants DEF Inv, TypeOK, FunderReads, RecipientReads

LEMMA BeforeAnswersInv ==
  ASSUME Inv, NEW c \in Closer, BeforeAnswers(c)
  PROVE  Inv'
<1> PICK f \in FunderReads, r \in RecipientReads :
      Goes(c, [at[c] EXCEPT !.pc = "sent", !.fb = f, !.rb = r])
  BY DEF BeforeAnswers
<1> DEFINE rec == [at[c] EXCEPT !.pc = "sent", !.fb = f, !.rb = r]
<1>1. f \in Reading /\ r \in Reading /\ at[c].amt \in Amounts
  BY ReadsType, CallFacts DEF BeforeAnswers, CallOK
<1>2. rec \in Call /\ rec.pc = "sent" /\ rec.amt \in Amounts
  BY <1>1, CallFacts DEF Call
<1>3. CallOK(c, rec) /\ Known(c, rec)
  BY <1>2 DEF CallOK, Known
<1> HIDE DEF rec
<1>4. Goes(c, rec)
  BY DEF rec
<1> QED
  BY <1>2, <1>3, <1>4, GoesInv DEF BeforeAnswers

\* A transaction that settles: the money goes where it belongs, and nobody
\* knows of it yet.
LEMMA SettlesMoney ==
  ASSUME Inv, NEW by \in Closer, NEW amt \in Amounts, NEW ans \in BOOLEAN, Settles(by, amt, ans)
  PROVE  /\ Money'
         /\ bal' \in 0..MaxDeposit /\ paid' \in 0..MaxDeposit /\ funder' \in 0..MaxDeposit
         /\ deposit' = deposit /\ dispute' = dispute /\ trust' = trust
         /\ ended = "open" /\ ended' = "closed" /\ settler' = by /\ owed' = owed /\ answered' = ans
         /\ ~triggered /\ Events = 0 /\ reported' = reported
<1> USE DEF Inv
<1>1. amt \in Nat /\ MaxDeposit \in Nat /\ paid = 0 /\ funder = 0 /\ deposit = bal + paid + funder
  BY Constants DEF Money, Settles
<1>2. /\ bal \in 0..MaxDeposit /\ deposit \in 1..MaxDeposit /\ amt <= bal
      /\ Events \in 0..4
  BY Types DEF TypeOK, Settles
<1>3. CASE trust
  BY <1>1, <1>2, <1>3 DEF Settles, Money, OneSettler, LatchedIsSettled
<1>4. CASE ~trust
  BY <1>1, <1>2, <1>4 DEF Settles, Money, OneSettler, LatchedIsSettled
<1> QED
  BY <1>3, <1>4

LEMMA ExecutesInv ==
  ASSUME Inv, NEW c \in Closer, Executes(c)
  PROVE  Inv'
<1> USE DEF Inv, Executes
<1>0. /\ at \in [Closer -> Call] /\ at[c].amt \in Amounts /\ at[c].ans \in BOOLEAN
      /\ Events \in 0..4
  BY Types, CallFacts DEF CallOK, Call
<1>1. CASE Settles(c, at[c].amt, at[c].ans) /\ at' = [at EXCEPT ![c].pc = "ok"]
  <2>1. /\ at' \in [Closer -> Call] /\ at'[c].pc = "ok" /\ at'[c].amt = at[c].amt
        /\ \A d \in Closer : d # c => at'[d] = at[d]
    BY <1>0, <1>1 DEF Call
  <2>2. TypeOK'
    BY <1>0, <1>1, <2>1, SettlesMoney DEF TypeOK, Call, monitor, cli
  <2>3. Money' /\ Owners'
    BY <1>0, <1>1, SettlesMoney DEF Owners, monitor, cli
  <2>4. Calls'
    BY <1>0, <2>1 DEF Calls, CallOK, monitor
  <2>5. OneSettler'
    <3>1. \A d \in Closer : at[d].pc \notin {"ok", "verify"}
      BY <1>0, <1>1, SettlesMoney DEF OneSettler, Known
    <3>2. Events' = 0 /\ ended' = "closed" /\ settler' = c /\ ~triggered
      BY <1>0, <1>1, SettlesMoney DEF Events
    <3>3. \A d \in Closer : Known(d, at[d])'
      BY <2>1, <3>1, <3>2 DEF Known
    <3> QED
      BY <3>2, <3>3 DEF OneSettler, LatchedIsSettled, monitor
  <2> QED
    BY <2>2, <2>3, <2>4, <2>5
<1>2. CASE at' = [at EXCEPT ![c].pc = "failed"] /\ UNCHANGED <<contract, history>>
  <2>1. /\ at' \in [Closer -> Call] /\ at'[c].pc = "failed" /\ at'[c].amt = at[c].amt
        /\ \A d \in Closer : d # c => at'[d] = at[d]
    BY <1>0, <1>2 DEF Call
  <2>2. TypeOK' /\ Money' /\ Owners'
    BY <1>2, <2>1 DEF TypeOK, Call, Money, Owners, monitor, cli, contract, history
  <2>3. Calls'
    BY <1>0, <2>1 DEF Calls, CallOK, monitor
  <2>4. OneSettler'
    BY <1>2, <2>1 DEF OneSettler, Known, LatchedIsSettled, Events, monitor, contract, history
  <2> QED
    BY <2>2, <2>3, <2>4
<1> QED
  BY <1>1, <1>2

LEMMA FloatingExecutesInv ==
  ASSUME Inv, NEW t \in floating, FloatingExecutes(t)
  PROVE  Inv'
<1> USE DEF Inv, FloatingExecutes
<1>0. /\ t.by \in Closer /\ t.amt \in Amounts /\ t.ans \in BOOLEAN /\ at \in [Closer -> Call] /\ Events \in 0..4
      /\ floating' \subseteq Transaction
  BY Types DEF Transaction, TypeOK
<1>1. CASE Settles(t.by, t.amt, t.ans)
  <2>2. TypeOK'
    BY <1>0, <1>1, SettlesMoney DEF TypeOK, Transaction, monitor, cli
  <2>3. Money' /\ Owners' /\ Calls'
    BY <1>0, <1>1, SettlesMoney DEF Owners, Calls, monitor, cli
  <2>4. OneSettler'
    <3>1. \A d \in Closer : at[d].pc \notin {"ok", "verify"}
      BY <1>0, <1>1, SettlesMoney DEF OneSettler, Known
    <3>2. Events' = 0 /\ ~triggered
      BY <1>0, <1>1, SettlesMoney DEF Events
    <3> QED
      BY <3>1, <3>2 DEF OneSettler, Known, LatchedIsSettled, monitor
  <2> QED
    BY <2>2, <2>3, <2>4
<1>2. CASE UNCHANGED <<contract, history>>
  <2>1. TypeOK' /\ Money' /\ Owners' /\ Calls'
    BY <1>0, <1>2 DEF TypeOK, Transaction, Money, Owners, Calls, monitor, cli, contract, history
  <2>2. OneSettler'
    BY <1>2 DEF OneSettler, Known, LatchedIsSettled, Events, monitor, contract, history
  <2> QED
    BY <2>1, <2>2
<1> QED
  BY <1>1, <1>2

LEMMA CloseThrowsInv ==
  ASSUME Inv, NEW c \in Closer, CloseThrows(c)
  PROVE  Inv'
<1>1. floating' \subseteq Transaction
  BY CallFacts DEF CloseThrows, CallOK, Call, Transaction, Broadcast
<1>2. at[c].pc # "idle" /\ Outcome(c, "close_error") /\ Rest /\ reported' = reported
  BY DEF CloseThrows
<1> QED
  BY <1>1, <1>2, OutcomeInv

LEMMA CloseReturnsInv ==
  ASSUME Inv, NEW c \in Closer, CloseReturns(c)
  PROVE  Inv'
<1> USE DEF CloseReturns
<1>0. Events = 0 /\ at[c].amt \in Amounts /\ TypeOK /\ ended = "closed" /\ settler = c
  BY CallFacts DEF Known, CallOK, Inv
<1>1. CASE at[c].fb = None /\ at[c].rb = None
  <2>1. Outcome(c, "closed_unverified") /\ Reports("unverified")
    BY <1>1
  <2>2. Events' = 1 /\ reported' \in [{"closed", "unverified"} -> 0..2]
    BY <1>0, <2>1, ReportsOne
  <2> QED
    BY <2>1, <2>2, OutcomeInv, CallFacts
<1>2. CASE ~(at[c].fb = None /\ at[c].rb = None)
  <2> DEFINE rec == [at[c] EXCEPT !.pc = "verify", !.left = Attempts,
                       !.fok = (at[c].fb = None \/ at[c].expect <= 0),
                       !.rok = (at[c].rb = None \/ at[c].amt <= 0)]
  <2>1. Attempts \in 0..Attempts /\ Attempts > 0
    BY Constants
  <2>2. rec \in Call /\ rec.pc = "verify" /\ rec.amt = at[c].amt /\ rec.left = Attempts
    BY <2>1, CallFacts DEF Call
  <2>3. CallOK(c, rec) /\ Known(c, rec)
    BY <1>0, <2>1, <2>2 DEF CallOK, Known
  <2>4. Goes(c, rec) /\ reported' = reported
    BY <1>2
  <2> HIDE DEF rec
  <2> QED
    BY <2>2, <2>3, <2>4, GoesInv
<1> QED
  BY <1>1, <1>2

LEMMA CompareType ==
  ASSUME Inv, NEW c \in Closer, NEW f \in Reading, NEW r \in Reading, at[c].pc = "verify"
  PROVE  /\ Compare(c, f, r) \in Call
         /\ Compare(c, f, r).pc = "verify" /\ Compare(c, f, r).amt = at[c].amt
<1>1. at[c].left - 1 \in 0..Attempts
  BY CallFacts, Constants DEF CallOK
<1> DEFINE fok == IF at[c].fb # None /\ f # None THEN f - at[c].fb >= at[c].expect ELSE at[c].fok
           rok == IF at[c].rb # None /\ r # None THEN r - at[c].rb >= at[c].amt ELSE at[c].rok
           saw == at[c].saw \/ (at[c].fb # None /\ f # None) \/ (at[c].rb # None /\ r # None)
<1>2. fok \in BOOLEAN /\ rok \in BOOLEAN /\ saw \in BOOLEAN
  <2>1. at[c].fok \in BOOLEAN /\ at[c].rok \in BOOLEAN /\ at[c].saw \in BOOLEAN
    BY CallFacts DEF Call
  <2>2. fok \in BOOLEAN
    <3>1. CASE at[c].fb # None /\ f # None
      <4>1. (f - at[c].fb >= at[c].expect) \in BOOLEAN
        OBVIOUS
      <4> QED
        BY <3>1, <4>1
    <3>2. CASE ~(at[c].fb # None /\ f # None)
      BY <2>1, <3>2
    <3> QED
      BY <3>1, <3>2
  <2>3. rok \in BOOLEAN
    <3>1. CASE at[c].rb # None /\ r # None
      <4>1. (r - at[c].rb >= at[c].amt) \in BOOLEAN
        OBVIOUS
      <4> QED
        BY <3>1, <4>1
    <3>2. CASE ~(at[c].rb # None /\ r # None)
      BY <2>1, <3>2
    <3> QED
      BY <3>1, <3>2
  <2>4. saw \in BOOLEAN
    BY <2>1
  <2> QED
    BY <2>2, <2>3, <2>4
<1>3. Compare(c, f, r) = [at[c] EXCEPT !.fok = fok, !.rok = rok, !.saw = saw, !.left = at[c].left - 1]
  BY CallFacts DEF Compare, Call
<1> HIDE DEF fok, rok, saw
<1> QED
  BY <1>1, <1>2, <1>3, CallFacts DEF Call

LEMMA VerifyRoundInv ==
  ASSUME Inv, NEW c \in Closer, VerifyRound(c)
  PROVE  Inv'
<1> USE DEF VerifyRound
<1>0. Events = 0 /\ at[c].amt \in Amounts /\ TypeOK /\ ended = "closed" /\ settler = c
  BY CallFacts DEF Known, CallOK, Inv
<1> PICK f \in FunderReads, r \in RecipientReads :
      LET now == Compare(c, f, r)
      IN  \/ now.fok /\ now.rok /\ Outcome(c, "closed") /\ Reports("closed")
          \/ ~(now.fok /\ now.rok) /\ now.left > 0 /\ Goes(c, now) /\ UNCHANGED reported
          \/ /\ ~(now.fok /\ now.rok) /\ now.left = 0
             /\ IF now.saw THEN Outcome(c, "refund_not_received") /\ UNCHANGED reported
                           ELSE Outcome(c, "closed_unverified") /\ Reports("unverified")
  OBVIOUS
<1> DEFINE now == Compare(c, f, r)
<1>1. now \in Call /\ now.pc = "verify" /\ now.amt = at[c].amt
  BY ReadsType, CompareType
<1> HIDE DEF now
<1>2. CASE Outcome(c, "closed") /\ Reports("closed")
  BY <1>0, <1>2, ReportsOne, OutcomeInv, CallFacts
<1>3. CASE now.left > 0 /\ Goes(c, now) /\ UNCHANGED reported
  <2>1. CallOK(c, now) /\ Known(c, now)
    BY <1>0, <1>1, <1>3 DEF CallOK, Known
  <2> QED
    BY <1>1, <1>3, <2>1, GoesInv
<1>4. CASE Outcome(c, "refund_not_received") /\ UNCHANGED reported
  BY <1>4, OutcomeInv, CallFacts
<1>5. CASE Outcome(c, "closed_unverified") /\ Reports("unverified")
  BY <1>0, <1>5, ReportsOne, OutcomeInv, CallFacts
<1> QED
  BY <1>2, <1>3, <1>4, <1>5 DEF now

LEMMA CloseStepInv ==
  ASSUME Inv, NEW c \in Closer, CloseStep(c)
  PROVE  Inv'
BY TrustlineAnswersInv, StateAnswersInv, StateFailsInv, BeforeAnswersInv, ExecutesInv,
   CloseThrowsInv, CloseReturnsInv, VerifyRoundInv DEF CloseStep

----------------------------------------------------------------------------
(* The monitor, the CLI and the processes *)

\* attemptClose() begins a call of the monitor, or does nothing.
LEMMA AttemptCloseInv ==
  ASSUME Inv, AttemptClose, "monitor" \in Closer,
         lastBal' \in Reading, polls' \in [Poll -> PollState],
         UNCHANGED <<contract, shigh, inhand, triggered, cli, floating, history>>
  PROVE  Inv'
<1> USE DEF Inv, contract, cli, history
<1>0. at \in [Closer -> Call] /\ Burst \in Nat /\ Burst > 0
  BY Types, Constants
<1>1. CASE UNCHANGED <<tries, at>>
  <2>1. TypeOK' /\ Money' /\ Owners' /\ Calls'
    BY <1>0, <1>1 DEF TypeOK, Money, Owners, Calls
  <2>2. OneSettler'
    BY <1>1 DEF OneSettler, Known, LatchedIsSettled, Events
  <2> QED
    BY <2>1, <2>2
<1>2. CASE tries' = Burst /\ Begins("monitor")
  <2>1. /\ at' \in [Closer -> Call] /\ at'["monitor"].pc = "trustline"
        /\ \A d \in Closer : d # "monitor" => at'[d] = at[d]
    BY <1>0, <1>2, IdleCall DEF Begins
  <2>2. TypeOK'
    BY <1>0, <1>2, <2>1 DEF TypeOK, Call
  <2>3. Money' /\ Owners'
    BY DEF Money, Owners
  <2>4. Calls'
    BY <1>0, <1>2, <2>1 DEF Calls, CallOK
  <2>5. OneSettler'
    BY <2>1 DEF OneSettler, Known, LatchedIsSettled, Events
  <2> QED
    BY <2>2, <2>3, <2>4, <2>5
<1> QED
  BY <1>1, <1>2 DEF AttemptClose

LEMMA PollInv ==
  ASSUME Inv, NEW p \in Poll, PollReads(p) \/ PollAnswers(p) \/ PollFails(p)
  PROVE  Inv'
<1> USE DEF Inv
<1>0. /\ bal \in Reading /\ NoReading \in PollState
      /\ polls[p].bal \in Reading
      /\ polls \in [Poll -> PollState]
  BY Constants DEF TypeOK, NoReading, PollState
<1>1. polls' \in [Poll -> PollState] /\ "monitor" \in Closer
  <2>1. CASE PollReads(p)
    <3>1. [bal |-> bal, closing |-> dispute, late |-> FALSE,
           older |-> {q \in Poll : polls[q] # NoReading}] \in PollState
      BY <1>0 DEF PollState, TypeOK
    <3> QED
      BY <1>0, <2>1, <3>1 DEF PollReads
  <2>2. ASSUME NEW heard \in BOOLEAN
        PROVE  Over(p, heard) \in [Poll -> PollState]
    <3>1. ASSUME NEW q \in Poll
          PROVE  [polls[q] EXCEPT !.older = @ \ {p},
                                  !.late = @ \/ (heard /\ q \in polls[p].older)] \in PollState
      BY <1>0 DEF PollState
    <3> QED
      BY <1>0, <3>1 DEF Over
  <2>3. CASE PollAnswers(p) \/ PollFails(p)
    BY <2>2, <2>3 DEF PollAnswers, PollFails, Owners
  <2> QED
    BY <2>1, <2>3
<1>2. CASE PollAnswers(p) /\ AttemptClose
  BY <1>0, <1>1, <1>2, AttemptCloseInv DEF PollAnswers
<1>3. CASE /\ lastBal' \in Reading
           /\ UNCHANGED <<contract, shigh, inhand, triggered, tries, cli, at, floating, history>>
  <2>1. TypeOK' /\ Money' /\ Owners' /\ Calls'
    BY <1>1, <1>3 DEF TypeOK, Money, Owners, Calls, contract, cli, history
  <2>2. OneSettler'
    BY <1>3 DEF OneSettler, Known, LatchedIsSettled, Events, contract, history
  <2> QED
    BY <2>1, <2>2
<1>4. CASE PollAnswers(p) /\ ~AttemptClose
  BY <1>0, <1>3, <1>4 DEF PollAnswers
<1>5. CASE PollReads(p) \/ PollFails(p)
  BY <1>3, <1>5 DEF PollReads, PollFails, TypeOK
<1> QED
  BY <1>2, <1>4, <1>5

LEMMA WatchEventInv ==
  ASSUME Inv, WatchEvent
  PROVE  Inv'
BY AttemptCloseInv DEF WatchEvent, Inv, TypeOK

\* A call that begins: of the monitor's next attempt, or of the CLI.
LEMMA BeginsInv ==
  ASSUME Inv, RetryClose \/ CliCloses
  PROVE  Inv'
<1> USE DEF Inv
<1>0. at \in [Closer -> Call]
  BY Types
<1> PICK c \in Closer : Begins(c) /\ (c = "monitor" => tries > 0)
  BY DEF RetryClose, CliCloses, Owners
<1>1. /\ at' \in [Closer -> Call] /\ at'[c].pc = "trustline"
      /\ \A d \in Closer : d # c => at'[d] = at[d]
  BY <1>0, IdleCall DEF Begins
<1>2. UNCHANGED <<contract, shigh, inhand, monitor, cli, floating, history>>
  BY DEF RetryClose, CliCloses
<1>3. TypeOK' /\ Money' /\ Owners'
  BY <1>1, <1>2 DEF TypeOK, Call, Money, Owners, contract, monitor, cli, history
<1>4. Calls'
  BY <1>0, <1>1, <1>2 DEF Calls, CallOK, monitor
<1>5. OneSettler'
  BY <1>1, <1>2 DEF OneSettler, Known, LatchedIsSettled, Events, contract, monitor, history
<1> QED
  BY <1>3, <1>4, <1>5

\* A process that dies leaves its transaction behind, and no call.
LEMMA RestartInv ==
  ASSUME Inv, ServerRestarts \/ CliDies
  PROVE  Inv'
<1> USE DEF Inv
<1>0. at \in [Closer -> Call] /\ Burst \in Nat
  BY Types, Constants
<1> PICK c \in Closer : Abandons(c)
  BY DEF ServerRestarts, CliDies, Owners
<1>2. floating' \subseteq Transaction
  BY <1>0, Types DEF Abandons, Calls, CallOK, Call, Transaction, Broadcast
<1>3. /\ NoReading \in PollState /\ None \in Reading
      /\ 0 \in 0..Burst /\ None \in Level /\ Amounts \subseteq Level
  BY <1>0, Constants DEF NoReading, PollState
<1>4. CASE ServerRestarts
  <2>1. /\ triggered' = FALSE /\ tries' = 0 /\ lastBal' = None
        /\ polls' = [p \in Poll |-> NoReading] /\ inhand' = {}
        /\ shigh' = shigh \/ shigh' \in inhand
        /\ UNCHANGED <<contract, cli, history>> /\ Abandons("monitor")
    BY <1>4 DEF ServerRestarts
  <2>2. /\ at' = [at EXCEPT !["monitor"] = Idle] /\ "monitor" \in Closer
        /\ at' \in [Closer -> Call]
    BY <1>0, <1>4, IdleCall DEF Abandons, ServerRestarts
  <2>4. TypeOK'
    BY <1>2, <1>3, <2>1, <2>2 DEF TypeOK, Call, Transaction, contract, cli, history
  <2>5. Money' /\ Owners'
    BY <2>1 DEF Money, Owners, contract, cli, history
  <2>6. /\ Calls'
        /\ \A d \in Closer : d # "monitor" => at'[d] = at[d]
        /\ at'["monitor"].pc = "idle"
    BY <1>0, <2>1, <2>2, IdleCall DEF Calls, CallOK
  <2>7. OneSettler'
    BY <2>1, <2>6 DEF OneSettler, Known, LatchedIsSettled, Events, contract, history
  <2> QED
    BY <2>4, <2>5, <2>6, <2>7
<1>5. CASE CliDies
  <2>1. /\ cliOpen' = FALSE /\ cliHigh' = None
        /\ UNCHANGED <<contract, shigh, inhand, monitor, history>> /\ Abandons("cli")
    BY <1>5 DEF CliDies
  <2>2. /\ at' = [at EXCEPT !["cli"] = Idle] /\ "cli" \in Closer
        /\ at' \in [Closer -> Call]
    BY <1>0, <1>5, IdleCall DEF Abandons, CliDies, Owners
  <2>4. TypeOK'
    BY <1>2, <1>3, <2>1, <2>2 DEF TypeOK, Call, Transaction, contract, monitor, history
  <2>5. Money' /\ Owners'
    BY <2>1 DEF Money, Owners, contract, monitor, history
  <2>6. /\ Calls'
        /\ \A d \in Closer : d # "cli" => at'[d] = at[d]
        /\ at'["cli"].pc = "idle"
    BY <1>0, <2>1, <2>2, IdleCall DEF Calls, CallOK, monitor
  <2>7. OneSettler'
    BY <2>1, <2>6 DEF OneSettler, Known, LatchedIsSettled, Events, contract, monitor, history
  <2> QED
    BY <2>4, <2>5, <2>6, <2>7
<1> QED
  BY <1>4, <1>5

----------------------------------------------------------------------------
(* The funder, the vouchers, and the whole next-state relation *)

LEMMA FunderInv ==
  ASSUME Inv, TopUp \/ CloseStart \/ Refund \/ TrustlineChanges
  PROVE  Inv'
<1> USE DEF Inv
<1>0. /\ deposit = bal + paid + funder /\ Events \in 0..4 /\ MaxDeposit \in Nat
      /\ bal \in 0..MaxDeposit /\ paid \in 0..MaxDeposit /\ funder \in 0..MaxDeposit
      /\ deposit \in 1..MaxDeposit
  BY Types, Constants DEF Money, TypeOK
<1>1. CASE TopUp
  <2>1. /\ deposit' \in 1..MaxDeposit /\ bal' \in 0..MaxDeposit /\ Money'
    <3> PICK amt \in 1..(MaxDeposit - deposit) : deposit' = deposit + amt /\ bal' = bal + amt
      BY <1>1 DEF TopUp
    <3>1. paid' = paid /\ funder' = funder /\ ended' = ended
      BY <1>1 DEF TopUp
    <3>2. deposit' \in 1..MaxDeposit /\ bal' \in 0..MaxDeposit
      BY <1>0
    <3>3. deposit' = bal' + paid + funder
      BY <1>0
    <3> QED
      BY <3>1, <3>2, <3>3 DEF Money
  <2>2. TypeOK' /\ Owners' /\ Calls'
    BY <1>1, <2>1 DEF TopUp, TypeOK, Owners, Calls, monitor, cli, history
  <2>3. OneSettler'
    BY <1>1 DEF TopUp, OneSettler, Known, LatchedIsSettled, Events, monitor, history
  <2> QED
    BY <2>1, <2>2, <2>3
<1>2. CASE CloseStart
  <2>1. TypeOK' /\ Money' /\ Owners' /\ Calls'
    BY <1>2 DEF CloseStart, TypeOK, Money, Owners, Calls, monitor, cli
  <2>2. OneSettler'
    BY <1>2 DEF CloseStart, OneSettler, Known, LatchedIsSettled, Events, monitor
  <2> QED
    BY <2>1, <2>2
<1>3. CASE Refund
  <2>1. bal' \in 0..MaxDeposit /\ funder' \in 0..MaxDeposit /\ Money'
    BY <1>0, <1>3 DEF Refund, Money
  <2>2. TypeOK' /\ Owners' /\ Calls'
    BY <1>3, <2>1 DEF Refund, TypeOK, Owners, Calls, monitor, cli, history
  <2>3. OneSettler'
    <3>1. Events = 0 /\ ~triggered /\ \A d \in Closer : at[d].pc \notin {"ok", "verify"}
      BY <1>0, <1>3 DEF Refund, OneSettler, Known, LatchedIsSettled
    <3> QED
      BY <1>3, <3>1 DEF Refund, OneSettler, Known, LatchedIsSettled, Events, monitor, history
  <2> QED
    BY <2>1, <2>2, <2>3
<1>4. CASE TrustlineChanges
  <2>1. TypeOK' /\ Money' /\ Owners' /\ Calls'
    BY <1>4 DEF TrustlineChanges, TypeOK, Money, Owners, Calls, monitor, cli, history
  <2>2. OneSettler'
    BY <1>4 DEF TrustlineChanges, OneSettler, Known, LatchedIsSettled, Events, monitor, history
  <2> QED
    BY <2>1, <2>2
<1> QED
  BY <1>1, <1>2, <1>3, <1>4

LEMMA VoucherInv ==
  ASSUME Inv, NEW a \in Amounts, Verify(a) \/ Accept(a)
  PROVE  Inv'
<1> USE DEF Inv
<1>1. /\ shigh' \in Level /\ inhand' \subseteq Amounts
      /\ UNCHANGED <<contract, monitor, cli, at, floating, history>>
  BY Constants DEF Verify, Accept, TypeOK
<1>2. TypeOK' /\ Money' /\ Owners' /\ Calls'
  BY <1>1 DEF TypeOK, Money, Owners, Calls, contract, monitor, cli, history
<1>3. OneSettler'
  BY <1>1 DEF OneSettler, Known, LatchedIsSettled, Events, contract, monitor, history
<1> QED
  BY <1>2, <1>3

LEMMA CliStartsInv ==
  ASSUME Inv, CliStarts
  PROVE  Inv'
<1> USE DEF Inv, CliStarts
<1>1. TypeOK' /\ Money' /\ Owners' /\ Calls'
  BY DEF TypeOK, Money, Owners, Calls, contract, monitor, history
<1>2. OneSettler'
  BY DEF OneSettler, Known, LatchedIsSettled, Events, contract, monitor, history
<1> QED
  BY <1>1, <1>2

\* No step breaks the invariant.
LEMMA StepInv == Inv /\ [Next]_vars => Inv'
<1> SUFFICES ASSUME Inv, [Next]_vars PROVE Inv'
  OBVIOUS
<1>1. CASE UNCHANGED vars
  <2>1. UNCHANGED <<contract, shigh, inhand, monitor, cli, at, floating, history>>
    BY <1>1 DEF vars
  <2>2. TypeOK' /\ Money' /\ Owners' /\ Calls'
    BY <2>1 DEF Inv, TypeOK, Money, Owners, Calls, contract, monitor, cli, history
  <2>3. OneSettler'
    BY <2>1 DEF Inv, OneSettler, Known, LatchedIsSettled, Events, contract, monitor, history
  <2> QED
    BY <2>2, <2>3 DEF Inv
<1>2. CASE TopUp \/ CloseStart \/ Refund \/ TrustlineChanges
  BY <1>2, FunderInv
<1>3. ASSUME NEW a \in Amounts, Verify(a) \/ Accept(a)
      PROVE  Inv'
  BY <1>3, VoucherInv
<1>4. ASSUME NEW p \in Poll, PollReads(p) \/ PollAnswers(p) \/ PollFails(p)
      PROVE  Inv'
  BY <1>4, PollInv
<1>5. CASE WatchEvent \/ RetryClose \/ CliStarts \/ CliCloses
  BY <1>5, WatchEventInv, BeginsInv, CliStartsInv
<1>6. ASSUME NEW c \in Closer, CloseStep(c)
      PROVE  Inv'
  BY <1>6, CloseStepInv
<1>7. ASSUME NEW t \in floating, FloatingExecutes(t)
      PROVE  Inv'
  BY <1>7, FloatingExecutesInv
<1>8. CASE ServerRestarts \/ CliDies
  BY <1>8, RestartInv
<1> QED
  BY <1>1, <1>2, <1>3, <1>4, <1>5, <1>6, <1>7, <1>8 DEF Next

LEMMA Invariance == Spec => []Inv
BY InitInv, StepInv, PTL DEF Spec

----------------------------------------------------------------------------
\* Every variable keeps its type: balances are never negative, no burst and no
\* verification loop runs past its end.
THEOREM TypeCorrect == Spec => []TypeOK
BY Invariance, PTL DEF Inv

\* Whoever closes, and however often: the monitor latches only after its own
\* transaction has settled the channel.
THEOREM LatchIsEarned == Spec => []LatchedIsSettled
BY Invariance, PTL DEF Inv, OneSettler

\* Whoever closes, and however often: one channel.closed event at most.
THEOREM ClosedOnce == Spec => []OneClosedEvent
BY Invariance, PTL DEF Inv, OneSettler, OneClosedEvent, Events

----------------------------------------------------------------------------
(* What a step of closeChannel() leaves alone *)

\* closeChannel() leaves the readings alone, spends attempts, and ends the
\* channel at most.
LEMMA CloseStepFrame ==
  ASSUME Inv, NEW c \in Closer, CloseStep(c)
  PROVE  /\ UNCHANGED <<lastBal, polls, shigh, inhand, dispute, owed>> /\ tries' <= tries
         /\ Executes(c) \/ UNCHANGED <<contract, history>>
                        \/ UNCHANGED <<contract, owed, settler, answered>>
<1>0. c \in {"monitor", "cli"} /\ Burst \in Nat /\ tries \in 0..Burst /\ tries <= tries
  BY CloseAssumption DEF Inv, TypeOK
<1>1. ASSUME NEW kind, Outcome(c, kind), at[c].pc # "idle"
      PROVE  tries' <= tries
  <2>2. c = "monitor" => tries > 0
    BY <1>1 DEF Inv, Calls
  <2> QED
    BY <1>0, <1>1, <2>2 DEF Outcome
<1>2. CASE Executes(c)
  BY <1>0, <1>2 DEF Executes, Settles, contract, monitor, history
<1>3. CASE Rest /\ tries' <= tries
  BY <1>3 DEF Rest, contract
<1>4. CASE TrustlineAnswers(c)
  BY <1>0, <1>1, <1>3, <1>4 DEF TrustlineAnswers, Goes
<1>5. CASE StateAnswers(c)
  BY <1>0, <1>1, <1>3, <1>5 DEF StateAnswers, Goes
<1>6. CASE StateFails(c)
  BY <1>1, <1>3, <1>6 DEF StateFails
<1>7. CASE BeforeAnswers(c)
  BY <1>0, <1>3, <1>7 DEF BeforeAnswers, Goes
<1>8. CASE CloseThrows(c)
  <2>1. Outcome(c, "close_error") /\ at[c].pc # "idle" /\ Rest
    BY <1>8 DEF CloseThrows
  <2> QED
    BY <1>1, <1>3, <2>1
<1>9. CASE CloseReturns(c)
  <2>1. Rest /\ (tries' = tries \/ (Outcome(c, "closed_unverified") /\ at[c].pc # "idle"))
    BY <1>9 DEF CloseReturns, Goes
  <2> QED
    BY <1>0, <1>1, <1>3, <2>1
<1>10. CASE VerifyRound(c)
  <2>1. /\ Rest /\ at[c].pc # "idle"
        /\ \/ tries' = tries \/ Outcome(c, "closed_unverified") \/ Outcome(c, "closed")
           \/ Outcome(c, "refund_not_received")
    BY <1>10 DEF VerifyRound, Goes
  <2> QED
    BY <1>0, <1>1, <1>3, <2>1
<1> QED
  BY <1>2, <1>4, <1>5, <1>6, <1>7, <1>8, <1>9, <1>10 DEF CloseStep

----------------------------------------------------------------------------
(* Why a channel in use is left alone, and what an overtaken poll does to it *)

Away(p) == polls[p].bal # None

\* While the channel is open, balances grow in the order they are read: of two polls
\* under way one has the other among its elders, and has read no less; what the monitor
\* takes for the newest balance is no more than any poll that is not late has read.
Causes ==
  /\ ended = "open" => lastBal <= bal
  /\ \A p \in Poll : ~Away(p) => polls[p] = NoReading
  /\ \A p \in Poll : Away(p) =>
       /\ polls[p].closing => dispute
       /\ ended = "open" => polls[p].bal <= bal /\ (polls[p].late \/ lastBal <= polls[p].bal)
  /\ \A p \in Poll : \A q \in polls[p].older :
       Away(q) /\ q # p /\ (ended = "open" => polls[q].bal <= polls[p].bal)
  /\ \A p, q \in Poll : Away(p) /\ Away(q) /\ p # q =>
       q \in polls[p].older \/ p \in polls[q].older

\* A step from a state with the right causes begins no burst without one.
Cause == \/ dispute \/ ended # "open"
         \/ \E p \in Poll : polls[p].late /\ polls'[p] = NoReading

LEMMA InitCauses == Init => Causes
<1> SUFFICES ASSUME Init PROVE Causes
  OBVIOUS
<1>1. \A p \in Poll : polls[p] = NoReading /\ polls[p].bal = None /\ polls[p].older = {}
  BY DEF Init, NoReading
<1>2. lastBal <= bal
  BY Constants DEF Init, None
<1> QED
  BY <1>1, <1>2 DEF Causes, Away

\* What the types say of a reading.
LEMMA PollTypes ==
  ASSUME TypeOK
  PROVE  /\ bal \in Nat /\ bal # None /\ lastBal \in Int
         /\ \A p \in Poll : /\ polls[p] \in PollState /\ polls[p].bal \in Int
                            /\ polls[p].older \subseteq Poll /\ polls[p].late \in BOOLEAN
<1>1. bal \in 0..MaxDeposit /\ MaxDeposit \in Nat /\ lastBal \in Reading
  BY Constants DEF TypeOK
<1>2. \A p \in Poll : polls[p] \in PollState
  BY DEF TypeOK
<1>3. \A p \in Poll : /\ polls[p].bal \in Int /\ polls[p].older \subseteq Poll
                      /\ polls[p].late \in BOOLEAN
  BY <1>2, Constants DEF PollState
<1> QED
  BY <1>1, <1>2, <1>3, Constants DEF None

\* No reading, field by field.
LEMMA NoReadingFields ==
  /\ NoReading.bal = None /\ NoReading.closing = FALSE
  /\ NoReading.older = {} /\ NoReading.late = FALSE
  /\ \A r \in PollState : r.bal = None /\ r.closing = FALSE /\ r.older = {} /\ r.late = FALSE
                           => r = NoReading
BY DEF NoReading, PollState

\* A step that takes no reading.
LEMMA CausesKept ==
  ASSUME TypeOK, TypeOK', Causes, UNCHANGED <<lastBal, polls>>,
         dispute => dispute', ended' = "open" => ended = "open" /\ bal <= bal'
  PROVE  Causes'
<1>1. /\ bal \in Int /\ bal' \in Int /\ lastBal \in Int
      /\ \A p \in Poll : polls[p].bal \in Int
  BY PollTypes, Constants DEF TypeOK
<1>2. ended' = "open" => lastBal' <= bal'
  BY <1>1 DEF Causes
<1>3. ASSUME NEW p \in Poll, Away(p)'
      PROVE  /\ polls'[p].closing => dispute'
             /\ ended' = "open" => polls'[p].bal <= bal' /\ (polls'[p].late \/ lastBal' <= polls'[p].bal)
  BY <1>1, <1>3 DEF Causes, Away
<1>4. \A p \in Poll : Away(p)' = Away(p)
  BY DEF Away
<1>5. \A p \in Poll : ~Away(p)' => polls'[p] = NoReading
  BY <1>4 DEF Causes
<1>6. /\ \A p \in Poll : \A q \in polls'[p].older :
           Away(q)' /\ q # p /\ (ended' = "open" => polls'[q].bal <= polls'[p].bal)
      /\ \A p, q \in Poll : Away(p)' /\ Away(q)' /\ p # q =>
           q \in polls'[p].older \/ p \in polls'[q].older
  <2>1. \A p \in Poll : polls[p].older \subseteq Poll
    BY PollTypes
  <2> QED
    BY <1>4, <2>1 DEF Causes
<1> QED
  BY <1>2, <1>3, <1>5, <1>6 DEF Causes

\* A new reading is the newest: every poll under way is its elder.
LEMMA PollReadsCauses ==
  ASSUME TypeOK, Causes, NEW p \in Poll, PollReads(p)
  PROVE  Causes'
<1> DEFINE new == [bal |-> bal, closing |-> dispute, late |-> FALSE,
                   older |-> {q \in Poll : polls[q] # NoReading}]
<1>1. /\ polls'[p] = new /\ \A q \in Poll : q # p => polls'[q] = polls[q]
      /\ UNCHANGED <<bal, dispute, ended, lastBal>>
      /\ ~Away(p)
  BY PollTypes DEF PollReads, contract, TypeOK, Away, NoReading
<1>2. \A q \in Poll : polls[q] # NoReading <=> Away(q)
  BY NoReadingFields DEF Causes, Away
<1>3. \A q \in Poll : Away(q)' <=> (q = p \/ Away(q))
  BY <1>1, PollTypes DEF Away
<1>4. polls'[p].older = {q \in Poll : Away(q)}
  BY <1>1, <1>2
<1>5. \A q \in Poll : p \notin polls[q].older
  BY <1>1 DEF Causes
<1>6. /\ ended' = "open" => lastBal' <= bal'
      /\ \A q \in Poll : ~Away(q)' => polls'[q] = NoReading
  BY <1>1, <1>3 DEF Causes
<1>7. ASSUME NEW q \in Poll, Away(q)'
      PROVE  /\ polls'[q].closing => dispute'
             /\ ended' = "open" => polls'[q].bal <= bal' /\ (polls'[q].late \/ lastBal' <= polls'[q].bal)
  <2>1. CASE q = p
    BY <1>1, <2>1, PollTypes DEF Causes
  <2>2. CASE q # p
    BY <1>1, <1>3, <1>7, <2>2 DEF Causes
  <2> QED
    BY <2>1, <2>2
<1>8. ASSUME NEW q \in Poll, NEW r \in polls'[q].older
      PROVE  Away(r)' /\ r # q /\ (ended' = "open" => polls'[r].bal <= polls'[q].bal)
  <2>1. CASE q = p
    <3>1. r \in Poll /\ Away(r) /\ r # p
      BY <1>1, <1>4, <1>8, <2>1
    <3> QED
      BY <1>1, <1>3, <2>1, <3>1 DEF Causes
  <2>2. CASE q # p
    <3>1. r \in polls[q].older /\ r \in Poll /\ r # p
      BY <1>1, <1>5, <1>8, <2>2, PollTypes
    <3> QED
      BY <1>1, <1>3, <2>2, <3>1 DEF Causes
  <2> QED
    BY <2>1, <2>2
<1>9. ASSUME NEW q \in Poll, NEW r \in Poll, Away(q)', Away(r)', q # r
      PROVE  r \in polls'[q].older \/ q \in polls'[r].older
  <2>1. CASE q = p \/ r = p
    BY <1>3, <1>4, <1>9, <2>1
  <2>2. CASE q # p /\ r # p
    BY <1>1, <1>3, <1>9, <2>2 DEF Causes
  <2> QED
    BY <2>1, <2>2
<1> QED
  BY <1>6, <1>7, <1>8, <1>9 DEF Causes

\* A poll that ends leaves the order of the others as it was; if it was answered,
\* its balance is the newest, and its elders are late.
LEMMA PollOverCauses ==
  ASSUME TypeOK, TypeOK', Causes, NEW p \in Poll, Away(p), NEW heard \in BOOLEAN,
         polls' = Over(p, heard), UNCHANGED <<bal, dispute, ended>>,
         lastBal' = IF heard THEN polls[p].bal ELSE lastBal
  PROVE  Causes' /\ polls'[p] = NoReading
<1>1. /\ polls'[p] = NoReading
      /\ \A q \in Poll : q # p =>
           polls'[q] = [polls[q] EXCEPT !.older = @ \ {p},
                                        !.late = @ \/ (heard /\ q \in polls[p].older)]
  BY DEF Over
<1>2. ASSUME NEW q \in Poll, q # p
      PROVE  /\ polls'[q].bal = polls[q].bal /\ polls'[q].closing = polls[q].closing
             /\ polls'[q].older = polls[q].older \ {p}
             /\ polls'[q].late = (polls[q].late \/ (heard /\ q \in polls[p].older))
  <2> DEFINE late == polls[q].late \/ (heard /\ q \in polls[p].older)
  <2>1. polls'[q] = [polls[q] EXCEPT !.older = @ \ {p}, !.late = late]
    BY <1>1, <1>2
  <2> HIDE DEF late
  <2>2. polls'[q].late = late
    BY <2>1, PollTypes DEF PollState
  <2>3. /\ polls'[q].bal = polls[q].bal /\ polls'[q].closing = polls[q].closing
        /\ polls'[q].older = polls[q].older \ {p}
    BY <2>1, PollTypes DEF PollState
  <2> QED
    BY <2>2, <2>3 DEF late
<1>3. polls'[p].bal = None /\ polls'[p].older = {}
  <2>1. polls'[p] = NoReading
    BY <1>1
  <2> QED
    BY <2>1, NoReadingFields
<1>4. \A q \in Poll : Away(q)' <=> (q # p /\ Away(q))
  BY <1>2, <1>3 DEF Away
<1>5. ended' = "open" => lastBal' <= bal'
  BY DEF Causes
<1>6. ASSUME NEW q \in Poll, ~Away(q)'
      PROVE  polls'[q] = NoReading
  <2>1. CASE q = p
    BY <1>1, <2>1
  <2>2. CASE q # p
    <3>1. polls[q] = NoReading /\ q \notin polls[p].older
      BY <1>4, <1>6, <2>2 DEF Causes
    <3>2. /\ polls'[q].bal = None /\ polls'[q].closing = FALSE
          /\ polls'[q].older = {} /\ polls'[q].late = FALSE
      BY <1>2, <2>2, <3>1, NoReadingFields
    <3>3. polls'[q] \in PollState
      BY DEF TypeOK
    <3> QED
      BY <3>2, <3>3, NoReadingFields
  <2> QED
    BY <2>1, <2>2
<1>7. ASSUME NEW q \in Poll, Away(q)'
      PROVE  /\ polls'[q].closing => dispute'
             /\ ended' = "open" => polls'[q].bal <= bal' /\ (polls'[q].late \/ lastBal' <= polls'[q].bal)
  <2>1. q # p /\ Away(q)
    BY <1>4, <1>7
  <2>2. /\ polls[q].closing => dispute
        /\ ended = "open" => polls[q].bal <= bal /\ (polls[q].late \/ lastBal <= polls[q].bal)
    BY <2>1 DEF Causes
  <2>3. CASE ~heard
    BY <1>2, <2>1, <2>2, <2>3
  <2>4. CASE heard
    <3>1. q \in polls[p].older \/ p \in polls[q].older
      BY <2>1 DEF Causes
    <3>2. CASE q \in polls[p].older
      BY <1>2, <2>1, <2>2, <2>4, <3>2
    <3>3. CASE p \in polls[q].older
      <4>1. ended = "open" => polls[p].bal <= polls[q].bal
        BY <3>3 DEF Causes
      <4> QED
        BY <1>2, <2>1, <2>2, <2>4, <4>1
    <3> QED
      BY <3>1, <3>2, <3>3
  <2> QED
    BY <2>3, <2>4
<1>8. ASSUME NEW q \in Poll, NEW r \in polls'[q].older
      PROVE  Away(r)' /\ r # q /\ (ended' = "open" => polls'[r].bal <= polls'[q].bal)
  <2>1. q # p
    BY <1>3, <1>8
  <2>2. r \in polls[q].older /\ r # p /\ r \in Poll
    BY <1>2, <1>8, <2>1, PollTypes
  <2> QED
    BY <1>2, <1>4, <2>1, <2>2 DEF Causes
<1>9. ASSUME NEW q \in Poll, NEW r \in Poll, Away(q)', Away(r)', q # r
      PROVE  r \in polls'[q].older \/ q \in polls'[r].older
  <2>1. q # p /\ r # p /\ Away(q) /\ Away(r)
    BY <1>4, <1>9
  <2> QED
    BY <1>2, <1>9, <2>1 DEF Causes
<1> QED
  BY <1>1, <1>5, <1>6, <1>7, <1>8, <1>9 DEF Causes

\* An answer that begins a burst has a cause: in a poll that is not late, a drop is an end.
LEMMA PollAnswersCauses ==
  ASSUME TypeOK, TypeOK', Causes, NEW p \in Poll, PollAnswers(p)
  PROVE  Causes' /\ (tries' # tries => Cause)
<1>1. /\ Away(p) /\ polls' = Over(p, TRUE) /\ UNCHANGED <<bal, dispute, ended>>
      /\ lastBal' = polls[p].bal
  BY DEF PollAnswers, Causes, contract
<1>2. Causes' /\ polls'[p] = NoReading
  BY <1>1, PollOverCauses
<1>3. Drop(p) => ended # "open" \/ polls[p].late
  <2>1. lastBal \in Int /\ polls[p].bal \in Int
    BY PollTypes
  <2> QED
    BY <1>1, <2>1 DEF Drop, Causes
<1>4. tries' = tries \/ Drop(p) \/ polls[p].closing
  BY DEF PollAnswers
<1>5. polls[p].closing => dispute
  BY <1>1 DEF Causes
<1> QED
  BY <1>2, <1>3, <1>4, <1>5 DEF Cause

\* No step spoils the order of the readings, or begins a burst without a cause.
LEMMA CausesStep ==
  ASSUME Inv, Inv', Causes, [Next]_vars
  PROVE  Causes' /\ (tries' > tries => Cause)
<1>0. bal \in Int /\ bal <= bal /\ TypeOK /\ TypeOK' /\ tries \in Nat /\ ~(tries > tries)
  BY PollTypes, Constants DEF Inv, TypeOK
<1>1. CASE UNCHANGED vars
  BY <1>0, <1>1, CausesKept DEF vars, contract, monitor
<1>2. CASE TopUp
  <2>1. ended = "open" /\ bal <= bal'
    BY <1>0, <1>2, Constants DEF TopUp, TypeOK
  <2> QED
    BY <1>0, <1>2, <2>1, CausesKept DEF TopUp, monitor
<1>3. CASE CloseStart \/ Refund \/ TrustlineChanges
  BY <1>0, <1>3, CausesKept DEF CloseStart, Refund, TrustlineChanges, monitor
<1>4. ASSUME NEW a \in Amounts, Verify(a) \/ Accept(a)
      PROVE  Causes' /\ ~(tries' > tries)
  BY <1>0, <1>4, CausesKept DEF Verify, Accept, contract, monitor
<1>5. ASSUME NEW p \in Poll, PollReads(p)
      PROVE  Causes' /\ ~(tries' > tries)
  BY <1>0, <1>5, PollReadsCauses DEF PollReads
<1>6. ASSUME NEW p \in Poll, PollAnswers(p)
      PROVE  Causes' /\ (tries' > tries => Cause)
  BY <1>0, <1>6, PollAnswersCauses
<1>7. ASSUME NEW p \in Poll, PollFails(p)
      PROVE  Causes' /\ ~(tries' > tries)
  <2>1. /\ Away(p) /\ polls' = Over(p, FALSE) /\ UNCHANGED <<bal, dispute, ended, lastBal, tries>>
    BY <1>7 DEF PollFails, Causes, contract
  <2> QED
    BY <1>0, <2>1, PollOverCauses
<1>8. CASE WatchEvent
  <2>1. (dispute \/ ended # "open") /\ UNCHANGED <<bal, dispute, ended, lastBal, polls>>
    BY <1>8 DEF WatchEvent, contract
  <2> QED
    BY <1>0, <2>1, CausesKept DEF Cause
<1>9. CASE RetryClose \/ CliStarts \/ CliCloses \/ CliDies
  BY <1>0, <1>9, CausesKept DEF RetryClose, CliStarts, CliCloses, CliDies, contract, monitor
<1>10. ASSUME NEW c \in Closer, CloseStep(c)
       PROVE  Causes' /\ ~(tries' > tries)
  <2>1. ended' = "open" => ended = "open" /\ bal <= bal'
    BY <1>0, <1>10, CloseStepFrame DEF Executes, Settles, contract, history
  <2>2. tries' \in Nat /\ tries' <= tries
    BY <1>0, <1>10, CloseStepFrame, Constants DEF TypeOK
  <2> QED
    BY <1>0, <1>10, <2>1, <2>2, CloseStepFrame, CausesKept
<1>11. ASSUME NEW t \in floating, FloatingExecutes(t)
       PROVE  Causes' /\ ~(tries' > tries)
  <2>1. /\ UNCHANGED <<lastBal, polls, tries, dispute>>
        /\ ended' = "open" => ended = "open" /\ bal <= bal'
    BY <1>0, <1>11 DEF FloatingExecutes, Settles, contract, monitor, history
  <2> QED
    BY <1>0, <2>1, CausesKept
<1>12. CASE ServerRestarts
  <2>1. /\ \A q \in Poll : polls'[q] = NoReading
        /\ tries' = 0 /\ lastBal' = None /\ bal' = bal
    BY <1>12 DEF ServerRestarts, contract
  <2>2. None <= bal
    BY Constants DEF Inv, TypeOK, None
  <2>3. \A q \in Poll : polls'[q].bal = None /\ polls'[q].older = {}
    BY <2>1 DEF NoReading
  <2> QED
    BY <1>0, <2>1, <2>2, <2>3 DEF Causes, Away
<1> QED
  BY <1>1, <1>2, <1>3, <1>4, <1>5, <1>6, <1>7, <1>8, <1>9, <1>10, <1>11, <1>12 DEF Next

\* However many polls overlap, and whatever fails or restarts: a burst of attempts
\* begins with a dispute or the end of the channel behind it, or from the answer of a
\* poll that a later one has overtaken. The overtaken answer is the only way a channel
\* in use is closed.
THEOREM ClosesWithCause == Spec => AttemptHasCause
<1>1. Inv /\ Inv' /\ Causes /\ [Next]_vars => Causes'
  BY CausesStep
<1>2. Inv /\ Inv' /\ Causes /\ [Next]_vars => [tries' > tries => Cause]_vars
  BY CausesStep
<1>3. [][tries' > tries => Cause]_vars => AttemptHasCause
  BY PTL DEF AttemptHasCause, Cause
<1> QED
  BY <1>1, <1>2, <1>3, InitCauses, Invariance, PTL DEF Spec

----------------------------------------------------------------------------
(* What a close collects, whoever closes and however polls overlap *)

\* Every step of closeChannel() but the one that takes the highest voucher.
LEMMA CloseStepCalls ==
  ASSUME Inv, NEW c \in Closer, CloseStep(c), ~StateAnswers(c)
  PROVE  /\ \A d \in Closer : at'[d].pc \in {"before", "sent"} =>
              at[d].pc \in {"before", "sent"} /\ at'[d].amt = at[d].amt /\ at'[d].ans = at[d].ans
         /\ \A t \in floating' :
              \/ t \in floating
              \/ \E d \in Closer : at[d].pc = "sent" /\ t.amt = at[d].amt /\ t.ans = at[d].ans
<1>0. at \in [Closer -> Call]
  BY Types DEF Inv
<1>1. ASSUME NEW rec, at' = [at EXCEPT ![c] = rec],
             rec.pc \in {"before", "sent"} => at[c].pc \in {"before", "sent"} /\ rec.amt = at[c].amt /\ rec.ans = at[c].ans
      PROVE  \A d \in Closer : at'[d].pc \in {"before", "sent"} =>
               at[d].pc \in {"before", "sent"} /\ at'[d].amt = at[d].amt /\ at'[d].ans = at[d].ans
  BY <1>0, <1>1
<1>2. ASSUME NEW kind, Outcome(c, kind)
      PROVE  \A d \in Closer : at'[d].pc \in {"before", "sent"} =>
               at[d].pc \in {"before", "sent"} /\ at'[d].amt = at[d].amt /\ at'[d].ans = at[d].ans
  BY <1>1, <1>2, IdleCall DEF Outcome
<1>3. CASE TrustlineAnswers(c)
  <2>1. CASE Outcome(c, "blocked")
    BY <1>2, <1>3, <2>1 DEF TrustlineAnswers
  <2>2. CASE Goes(c, [at[c] EXCEPT !.pc = "state"])
    <3> DEFINE rec == [at[c] EXCEPT !.pc = "state"]
    <3>1. at' = [at EXCEPT ![c] = rec] /\ rec.pc = "state"
      BY <1>0, <2>2 DEF Goes, Call
    <3> HIDE DEF rec
    <3> QED
      BY <1>1, <1>3, <3>1 DEF TrustlineAnswers
  <2> QED
    BY <1>3, <2>1, <2>2 DEF TrustlineAnswers
<1>4. CASE StateFails(c)
  BY <1>2, <1>4 DEF StateFails
<1>5. CASE BeforeAnswers(c)
  <2> PICK f \in FunderReads, r \in RecipientReads :
        Goes(c, [at[c] EXCEPT !.pc = "sent", !.fb = f, !.rb = r])
    BY <1>5 DEF BeforeAnswers
  <2> DEFINE rec == [at[c] EXCEPT !.pc = "sent", !.fb = f, !.rb = r]
  <2>1. at' = [at EXCEPT ![c] = rec] /\ rec.amt = at[c].amt /\ rec.ans = at[c].ans
    BY <1>0 DEF Goes, Call
  <2> HIDE DEF rec
  <2>2. at[c].pc \in {"before", "sent"} /\ floating' = floating
    BY <1>5 DEF BeforeAnswers
  <2> QED
    BY <1>1, <2>1, <2>2
<1>6. CASE Executes(c)
  <2> PICK k \in {"ok", "failed"} : at' = [at EXCEPT ![c].pc = k]
    BY <1>6 DEF Executes
  <2>1. /\ at'[c].pc = k
        /\ \A d \in Closer : d # c => at'[d] = at[d]
    BY <1>0 DEF Call
  <2>2. floating' = floating
    BY <1>6 DEF Executes
  <2> QED
    BY <2>1, <2>2
<1>7. CASE CloseThrows(c)
  <2>1. Outcome(c, "close_error")
    BY <1>7 DEF CloseThrows
  <2>2. \A t \in floating' : t \in floating \/ (at[c].pc = "sent" /\ t.amt = at[c].amt /\ t.ans = at[c].ans)
    BY <1>7 DEF CloseThrows, Broadcast
  <2> QED
    BY <1>2, <2>1, <2>2
<1>8. CASE CloseReturns(c)
  <2>1. CASE Outcome(c, "closed_unverified")
    BY <1>2, <1>8, <2>1 DEF CloseReturns
  <2>2. CASE ~Outcome(c, "closed_unverified")
    <3> DEFINE rec == [at[c] EXCEPT !.pc = "verify", !.left = Attempts,
                         !.fok = (at[c].fb = None \/ at[c].expect <= 0),
                         !.rok = (at[c].rb = None \/ at[c].amt <= 0)]
    <3>1. at' = [at EXCEPT ![c] = rec] /\ rec.pc = "verify"
      BY <1>0, <1>8, <2>2 DEF CloseReturns, Goes, Call
    <3> HIDE DEF rec
    <3>2. floating' = floating
      BY <1>8 DEF CloseReturns
    <3> QED
      BY <1>1, <3>1, <3>2
  <2> QED
    BY <2>1, <2>2
<1>9. CASE VerifyRound(c)
  <2> PICK f \in FunderReads, r \in RecipientReads :
        \/ \E kind \in {"closed", "refund_not_received", "closed_unverified"} : Outcome(c, kind)
        \/ Goes(c, Compare(c, f, r))
    BY <1>9 DEF VerifyRound
  <2>1. at[c].pc = "verify" /\ floating' = floating
    BY <1>9 DEF VerifyRound
  <2>2. Compare(c, f, r).pc = "verify"
    BY <2>1, ReadsType, CompareType
  <2>3. CASE Goes(c, Compare(c, f, r))
    BY <1>1, <2>1, <2>2, <2>3 DEF Goes
  <2> QED
    BY <1>2, <2>1, <2>3
<1> QED
  BY <1>3, <1>4, <1>5, <1>6, <1>7, <1>8, <1>9 DEF CloseStep

LEMMA AcceptGrows ==
  ASSUME TypeOK, NEW a \in Amounts, Accept(a)
  PROVE  shigh' = shigh \/ (shigh' = a /\ shigh < a)
BY Constants DEF TypeOK, Accept, AtLeast0

LEMMA RestartGrows ==
  ASSUME TypeOK, ServerRestarts
  PROVE  shigh' = shigh \/ (shigh' \in Amounts /\ shigh < shigh')
<1>1. shigh' = shigh \/ \E a \in Amounts : shigh' = a /\ a > AtLeast0(shigh)
  BY DEF TypeOK, ServerRestarts
<1>2. \A a \in Amounts : a > AtLeast0(shigh) => shigh < a
  BY Constants DEF TypeOK, AtLeast0
<1> QED
  BY <1>1, <1>2

\* The CLI's index, and every amount on its way to the contract, is one the server has
\* accepted.
Taken ==
  /\ cliHigh <= shigh
  /\ \A c \in Closer : at[c].pc \in {"before", "sent"} => at[c].amt <= shigh
  /\ \A t \in floating : t.amt <= shigh

\* A close has paid out one accepted amount; a refund nothing, and it left nothing.
Collected ==
  /\ ended = "closed" => paid \in Amounts /\ paid <= shigh
  /\ ended = "refunded" => paid = 0 /\ bal = 0

\* The USDC of the channel is where the contract put it, and channel.closed is true.
Accounted ==
  /\ deposit = bal + paid + funder
  /\ ended = "open" => paid = 0 /\ funder = 0
  /\ Collected
  /\ Events > 0 => ended = "closed"

LEMMA InitTaken == Init => Taken /\ Collected
<1> SUFFICES ASSUME Init PROVE Taken /\ Collected
  OBVIOUS
<1>1. \A c \in Closer : at[c].pc = "idle"
  BY IdleCall DEF Init
<1>2. cliHigh <= shigh
  BY DEF Init, None
<1>3. floating = {} /\ ended = "open"
  BY DEF Init
<1> QED
  BY <1>1, <1>2, <1>3 DEF Taken, Collected

\* A step under which the server's voucher does not fall and no other amount is taken up.
LEMMA TakenKept ==
  ASSUME TypeOK, TypeOK', Taken, shigh <= shigh', cliHigh' <= shigh \/ cliHigh' = cliHigh,
         \A c \in Closer : at'[c].pc \in {"before", "sent"} =>
            \/ at[c].pc \in {"before", "sent"} /\ at'[c].amt = at[c].amt
            \/ at'[c].amt <= shigh,
         \A t \in floating' : \/ t \in floating
                              \/ \E c \in Closer : at[c].pc = "sent" /\ t.amt = at[c].amt
  PROVE  Taken'
<1>1. /\ shigh \in Int /\ shigh' \in Int /\ cliHigh \in Int /\ cliHigh' \in Int
      /\ \A c \in Closer : at[c].amt \in Int /\ at'[c].amt \in Int
      /\ \A t \in floating' : t.amt \in Int
  BY Constants DEF TypeOK
<1>2. cliHigh' <= shigh'
  BY <1>1 DEF Taken
<1>3. ASSUME NEW c \in Closer, at'[c].pc \in {"before", "sent"}
      PROVE  at'[c].amt <= shigh'
  <2>1. at'[c].amt <= shigh
    BY <1>3 DEF Taken
  <2> QED
    BY <1>1, <2>1
<1>4. ASSUME NEW t \in floating'
      PROVE  t.amt <= shigh'
  <2>1. t.amt <= shigh
    BY DEF Taken
  <2> QED
    BY <1>1, <2>1
<1> QED
  BY <1>2, <1>3, <1>4 DEF Taken

\* The call of either process takes the highest voucher its own index has.
LEMMA StateAnswersTaken ==
  ASSUME Inv, Inv', Taken, NEW c \in Closer, StateAnswers(c)
  PROVE  Taken'
<1>0. /\ at \in [Closer -> Call] /\ shigh \in Int /\ shigh <= shigh /\ TypeOK /\ TypeOK'
  BY Types, Constants DEF Inv, TypeOK
<1>1. Highest(c) <= shigh
  BY <1>0 DEF Highest, Taken
<1>2. CASE Outcome(c, "nothing_to_close")
  <2>1. UNCHANGED <<shigh, floating>> /\ (cliHigh' = cliHigh \/ cliHigh' = None)
    BY <1>2 DEF StateAnswers, Rest, Outcome, CliEnds, cli
  <2>2. None <= shigh
    BY Constants DEF Inv, TypeOK, None
  <2>3. \A d \in Closer : at'[d] = at[d] \/ at'[d].pc = "idle"
    BY <1>0, <1>2, IdleCall DEF Outcome
  <2> QED
    BY <1>0, <2>1, <2>2, <2>3, TakenKept
<1>3. CASE Goes(c, [at[c] EXCEPT !.pc = "before", !.amt = Highest(c), !.expect = bal - Highest(c),
                         !.ans = (c = "monitor" /\ dispute)])
  <2>1. UNCHANGED <<shigh, floating, cliHigh>>
    BY <1>3 DEF StateAnswers, Rest, Goes, cli
  <2>2. \A d \in Closer : at'[d] = at[d] \/ at'[d].amt = Highest(c)
    BY <1>0, <1>3 DEF Goes, Call
  <2> QED
    BY <1>0, <1>1, <2>1, <2>2, TakenKept
<1> QED
  BY <1>2, <1>3 DEF StateAnswers

\* The index of the CLI stays as it was read, or goes with its process.
LEMMA CloseStepIndex ==
  ASSUME NEW c \in Closer, CloseStep(c)
  PROVE  cliHigh' = cliHigh \/ cliHigh' = None
<1>1. ASSUME NEW kind, Outcome(c, kind)
      PROVE  cliHigh' = cliHigh \/ cliHigh' = None
  BY <1>1 DEF Outcome, CliEnds, cli
<1>2. ASSUME NEW rec, Goes(c, rec)
      PROVE  cliHigh' = cliHigh
  BY <1>2 DEF Goes, cli
<1>3. CASE Executes(c)
  BY <1>3 DEF Executes, cli
<1>4. CASE TrustlineAnswers(c) \/ StateAnswers(c) \/ StateFails(c) \/ BeforeAnswers(c)
  BY <1>1, <1>2, <1>4 DEF TrustlineAnswers, StateAnswers, StateFails, BeforeAnswers
<1>5. CASE CloseThrows(c) \/ CloseReturns(c) \/ VerifyRound(c)
  BY <1>1, <1>2, <1>5 DEF CloseThrows, CloseReturns, VerifyRound
<1> QED
  BY <1>3, <1>4, <1>5 DEF CloseStep

\* No step takes up an amount that was not accepted.
LEMMA TakenStep ==
  ASSUME Inv, Inv', Taken, [Next]_vars
  PROVE  Taken'
<1>0. /\ TypeOK /\ TypeOK' /\ shigh \in Int /\ shigh <= shigh /\ None <= shigh /\ at \in [Closer -> Call]
      /\ \A a \in Amounts : a \in Int
  BY Types, Constants DEF Inv, TypeOK, None
<1>1. CASE UNCHANGED <<shigh, cliHigh, at, floating>>
  BY <1>0, <1>1, TakenKept
<1>2. CASE TopUp \/ CloseStart \/ Refund \/ TrustlineChanges \/ UNCHANGED vars
  BY <1>1, <1>2 DEF TopUp, CloseStart, Refund, TrustlineChanges, cli, vars
<1>3. CASE CliStarts
  <2>1. cliHigh' = shigh /\ UNCHANGED <<shigh, at, floating>>
    BY <1>3 DEF CliStarts
  <2> QED
    BY <1>0, <2>1, TakenKept
<1>4. ASSUME NEW a \in Amounts, Verify(a) \/ Accept(a)
      PROVE  Taken'
  <2>1. shigh <= shigh' /\ UNCHANGED <<cliHigh, at, floating>>
    BY <1>0, <1>4, AcceptGrows DEF Verify, Accept, cli
  <2> QED
    BY <1>0, <2>1, TakenKept
<1>5. ASSUME Begins("monitor") \/ Begins("cli"), UNCHANGED <<shigh, cliHigh, floating>>
      PROVE  Taken'
  <2>1. \A c \in Closer : at'[c] = at[c] \/ at'[c].pc = "trustline"
    BY <1>0, <1>5, IdleCall DEF Begins
  <2> QED
    BY <1>0, <1>5, <2>1, TakenKept
<1>6. CASE WatchEvent \/ RetryClose \/ CliCloses
  BY <1>1, <1>5, <1>6 DEF WatchEvent, RetryClose, CliCloses, AttemptClose, cli
<1>7. ASSUME NEW p \in Poll, PollReads(p) \/ PollAnswers(p) \/ PollFails(p)
      PROVE  Taken'
  BY <1>1, <1>5, <1>7 DEF PollReads, PollAnswers, PollFails, AttemptClose, cli
<1>8. ASSUME NEW c \in Closer, CloseStep(c)
      PROVE  Taken'
  <2>1. CASE StateAnswers(c)
    BY <2>1, StateAnswersTaken
  <2>2. CASE ~StateAnswers(c)
    <3>1. shigh' = shigh
      BY <1>8, CloseStepFrame
    <3> QED
      BY <1>0, <1>8, <2>2, <3>1, CloseStepIndex, CloseStepCalls, TakenKept
  <2> QED
    BY <2>1, <2>2
<1>9. ASSUME NEW t \in floating, FloatingExecutes(t)
      PROVE  Taken'
  <2>1. UNCHANGED <<shigh, cliHigh, at>> /\ floating' \subseteq floating
    BY <1>9 DEF FloatingExecutes, cli
  <2> QED
    BY <1>0, <2>1, TakenKept
<1>10. ASSUME NEW c \in Closer, Abandons(c), shigh <= shigh', cliHigh' = cliHigh \/ cliHigh' = None
       PROVE  Taken'
  <2>1. \A d \in Closer : at'[d] = at[d] \/ at'[d].pc = "idle"
    BY <1>0, <1>10, IdleCall DEF Abandons
  <2>2. \A t \in floating' : t \in floating \/ (at[c].pc = "sent" /\ t.amt = at[c].amt)
    BY <1>10 DEF Abandons, Broadcast
  <2> QED
    BY <1>0, <1>10, <2>1, <2>2, TakenKept
<1>11. CASE ServerRestarts
  <2>1. shigh <= shigh'
    BY <1>0, <1>11, RestartGrows
  <2> QED
    BY <1>10, <1>11, <2>1 DEF ServerRestarts, cli
<1>12. CASE CliDies
  BY <1>0, <1>10, <1>12 DEF CliDies, Inv, Owners
<1> QED
  BY <1>2, <1>3, <1>4, <1>6, <1>7, <1>8, <1>9, <1>11, <1>12 DEF Next

\* A settled channel stays as it is; the step that settles it pays an accepted amount.
LEMMA CollectedStep ==
  ASSUME Inv, Inv', Taken, Collected, [Next]_vars
  PROVE  Collected'
<1>0. /\ TypeOK /\ TypeOK' /\ shigh \in Int /\ shigh <= shigh /\ paid \in Int /\ shigh' \in Int
      /\ \A a \in Amounts : a \in Int
  BY Constants DEF Inv, TypeOK
<1>1. CASE UNCHANGED <<shigh, ended, paid, bal>>
  BY <1>1 DEF Collected
<1>2. CASE TopUp
  BY <1>2 DEF TopUp, Collected
<1>3. CASE Refund
  <2>1. ended' = "refunded" /\ bal' = 0 /\ paid' = 0
    BY <1>3 DEF Refund, Inv, Money
  <2> QED
    BY <2>1 DEF Collected
<1>4. ASSUME shigh <= shigh', UNCHANGED <<ended, paid, bal>>
      PROVE  Collected'
  BY <1>0, <1>4 DEF Collected
<1>5. ASSUME NEW by \in Closer, NEW amt \in Amounts, NEW ans \in BOOLEAN,
             amt <= shigh, Settles(by, amt, ans), shigh' = shigh
      PROVE  Collected'
  <2>1. ended' = "closed" /\ paid' = amt
    BY <1>0, <1>5 DEF Settles, Inv, Money
  <2> QED
    BY <1>5, <2>1 DEF Collected
<1>6. CASE CloseStart \/ TrustlineChanges \/ CliStarts \/ CliCloses \/ RetryClose \/ WatchEvent \/ CliDies \/ UNCHANGED vars
  BY <1>1, <1>6 DEF CloseStart, TrustlineChanges, CliStarts, CliCloses, RetryClose, WatchEvent, CliDies,
     contract, vars
<1>7. ASSUME NEW a \in Amounts, Verify(a) \/ Accept(a)
      PROVE  Collected'
  <2>1. shigh <= shigh' /\ UNCHANGED <<ended, paid, bal>>
    BY <1>0, <1>7, AcceptGrows DEF Verify, Accept, contract
  <2> QED
    BY <1>4, <2>1
<1>8. ASSUME NEW p \in Poll, PollReads(p) \/ PollAnswers(p) \/ PollFails(p)
      PROVE  Collected'
  BY <1>1, <1>8 DEF PollReads, PollAnswers, PollFails, contract
<1>9. ASSUME NEW c \in Closer, CloseStep(c)
      PROVE  Collected'
  <2>1. CASE UNCHANGED <<contract, history>> \/ UNCHANGED <<contract, owed, settler, answered>>
    BY <1>1, <1>9, <2>1, CloseStepFrame DEF contract
  <2>2. CASE Executes(c) /\ ~UNCHANGED <<contract, history>>
    <3>1. Settles(c, at[c].amt, at[c].ans) /\ shigh' = shigh /\ at[c].pc = "sent"
      BY <2>2 DEF Executes
    <3>2. at[c].amt <= shigh /\ at[c].amt \in Amounts /\ at[c].ans \in BOOLEAN
      BY <3>1, CallFacts DEF Taken, CallOK, Call
    <3> QED
      BY <1>5, <3>1, <3>2
  <2> QED
    BY <1>9, <2>1, <2>2, CloseStepFrame
<1>10. ASSUME NEW t \in floating, FloatingExecutes(t)
       PROVE  Collected'
  <2>1. t.by \in Closer /\ t.amt \in Amounts /\ t.ans \in BOOLEAN /\ t.amt <= shigh /\ shigh' = shigh
    BY <1>10, Types DEF Inv, Transaction, Taken, FloatingExecutes
  <2>2. CASE Settles(t.by, t.amt, t.ans)
    BY <1>5, <2>1, <2>2
  <2>3. CASE UNCHANGED <<contract, history>>
    BY <1>1, <2>1, <2>3 DEF contract
  <2> QED
    BY <1>10, <2>2, <2>3 DEF FloatingExecutes
<1>11. CASE ServerRestarts
  <2>1. shigh <= shigh'
    BY <1>0, <1>11, RestartGrows
  <2>2. UNCHANGED <<ended, paid, bal>>
    BY <1>11 DEF ServerRestarts, contract
  <2> QED
    BY <1>4, <2>1, <2>2
<1> QED
  BY <1>2, <1>3, <1>6, <1>7, <1>8, <1>9, <1>10, <1>11 DEF Next

\* Whoever closes, with whatever index, and whatever is lost, retried or restarted: nothing
\* of the deposit is made or lost, a close collects one amount the server had accepted,
\* a refunded channel paid nothing, and channel.closed is said of a closed channel only.
THEOREM MoneyIsAccounted == Spec => []Accounted
<1>1. Inv /\ Inv' /\ Taken /\ [Next]_vars => Taken'
  BY TakenStep
<1>2. Inv /\ Inv' /\ Taken /\ Collected /\ [Next]_vars => Collected'
  BY CollectedStep
<1>3. Inv /\ Collected => Accounted
  BY DEF Inv, Money, OneSettler, Accounted
<1> QED
  BY <1>1, <1>2, <1>3, InitTaken, Invariance, PTL DEF Spec

----------------------------------------------------------------------------
(* What a close that answers a dispute collects *)

\* A close that was decided on under dispute covers what was owed when it began.
Due(amt) == dispute /\ owed <= amt
Dues ==
  /\ owed <= shigh
  /\ \A c \in Closer : at[c].pc \in {"before", "sent"} /\ at[c].ans => Due(at[c].amt)
  /\ \A t \in floating : t.ans => Due(t.amt)

LEMMA InitDues == Init => Dues
<1> SUFFICES ASSUME Init PROVE Dues
  OBVIOUS
<1>1. \A c \in Closer : at[c].pc = "idle"
  BY IdleCall DEF Init
<1>2. owed <= shigh
  BY Constants DEF Init
<1>3. floating = {}
  BY DEF Init
<1> QED
  BY <1>1, <1>2, <1>3 DEF Dues

\* Accepting vouchers keeps what is due; so does a call that goes on with its amount,
\* or leaves its transaction behind.
LEMMA DuesKept ==
  ASSUME TypeOK, TypeOK', Dues, shigh <= shigh', dispute' = dispute, owed' = owed,
         \A c \in Closer : at'[c].pc \in {"before", "sent"} =>
            at[c].pc \in {"before", "sent"} /\ at'[c].amt = at[c].amt /\ at'[c].ans = at[c].ans,
         \A t \in floating' :
            \/ t \in floating
            \/ \E c \in Closer : at[c].pc = "sent" /\ t.amt = at[c].amt /\ t.ans = at[c].ans
  PROVE  Dues'
<1>1. shigh \in Int /\ shigh' \in Int /\ owed \in Int
  BY Constants DEF TypeOK
<1>2. owed' <= shigh'
  BY <1>1 DEF Dues
<1>3. ASSUME NEW c \in Closer, at'[c].pc \in {"before", "sent"}, at'[c].ans
      PROVE  Due(at[c].amt)'
  <2>1. Due(at[c].amt) /\ at'[c].amt = at[c].amt
    BY <1>3 DEF Dues
  <2> QED
    BY <2>1 DEF Due
<1>4. ASSUME NEW t \in floating', t.ans
      PROVE  dispute' /\ owed' <= t.amt
  <2>1. Due(t.amt)
    BY <1>4 DEF Dues
  <2> QED
    BY <2>1 DEF Due
<1> QED
  BY <1>2, <1>3, <1>4 DEF Dues, Due

\* The monitor takes the highest voucher of the server; under dispute, it covers what
\* is owed. The call of a CLI promises nothing.
LEMMA StateAnswersDues ==
  ASSUME Inv, Dues, NEW c \in Closer, StateAnswers(c)
  PROVE  Dues'
<1>0. at \in [Closer -> Call]
  BY Types DEF Inv
<1>1. UNCHANGED <<shigh, dispute, owed, floating>>
  BY DEF StateAnswers, Rest, contract
<1>2. \A d \in Closer : d # c => at'[d] = at[d]
  BY <1>0 DEF StateAnswers, Outcome, Goes
<1>3. at'[c].pc \in {"before", "sent"} /\ at'[c].ans => Due(at'[c].amt)
  <2>1. CASE Outcome(c, "nothing_to_close")
    BY <1>0, <2>1, IdleCall DEF Outcome
  <2>2. CASE Goes(c, [at[c] EXCEPT !.pc = "before", !.amt = Highest(c), !.expect = bal - Highest(c),
                         !.ans = (c = "monitor" /\ dispute)])
    <3> DEFINE ans == c = "monitor" /\ dispute
    <3>1. at' = [at EXCEPT ![c] = [at[c] EXCEPT !.pc = "before", !.amt = Highest(c),
                                                 !.expect = bal - Highest(c), !.ans = ans]]
      BY <2>2 DEF Goes
    <3> HIDE DEF ans
    <3>2. at'[c].amt = Highest(c) /\ at'[c].ans = ans
      BY <1>0, <3>1 DEF Call
    <3>3. ans => dispute /\ Highest(c) = shigh
      BY DEF ans, Highest
    <3> QED
      BY <3>2, <3>3 DEF Due, Dues
  <2> QED
    BY <2>1, <2>2 DEF StateAnswers
<1> QED
  BY <1>1, <1>2, <1>3 DEF Dues, Due

\* No step lets an answer to the dispute with less than what is owed on its way.
LEMMA DuesStep ==
  ASSUME Inv, Inv', Dues, [Next]_vars
  PROVE  Dues'
<1>0. /\ TypeOK /\ TypeOK' /\ shigh \in Int /\ shigh <= shigh /\ at \in [Closer -> Call]
      /\ \A a \in Amounts : a \in Int
  BY Types, Constants DEF Inv, TypeOK
<1>1. CASE UNCHANGED <<shigh, dispute, owed, at, floating>>
  BY <1>0, <1>1, DuesKept
<1>2. CASE TopUp \/ Refund \/ TrustlineChanges \/ CliStarts
  BY <1>0, <1>2, DuesKept DEF TopUp, Refund, TrustlineChanges, CliStarts, contract, history
<1>3. CASE CloseStart
  <2>1. /\ \A c \in Closer : ~(at[c].pc \in {"before", "sent"} /\ at[c].ans)
        /\ \A t \in floating : ~t.ans
    BY <1>3 DEF CloseStart, Dues, Due
  <2>2. owed' <= shigh' /\ at' = at /\ floating' = floating
    BY <1>0, <1>3 DEF CloseStart
  <2> QED
    BY <2>1, <2>2 DEF Dues
<1>4. ASSUME NEW a \in Amounts, Verify(a) \/ Accept(a)
      PROVE  Dues'
  <2>1. shigh <= shigh'
    BY <1>0, <1>4, AcceptGrows DEF Verify
  <2> QED
    BY <1>0, <1>4, <2>1, DuesKept DEF Verify, Accept, contract, history
<1>5. ASSUME NEW p \in Poll, PollReads(p) \/ PollFails(p)
      PROVE  Dues'
  BY <1>1, <1>5 DEF PollReads, PollFails, contract, history
<1>6. ASSUME Begins("monitor") \/ Begins("cli"),
             UNCHANGED <<shigh, dispute, owed, floating>>
      PROVE  Dues'
  <2>1. \A c \in Closer : at'[c] = at[c] \/ at'[c].pc = "trustline"
    BY <1>0, <1>6, IdleCall DEF Begins
  <2> QED
    BY <1>0, <1>6, <2>1, DuesKept
<1>7. CASE WatchEvent \/ RetryClose \/ CliCloses
  BY <1>1, <1>6, <1>7 DEF WatchEvent, RetryClose, CliCloses, AttemptClose, contract, history
<1>8. ASSUME NEW p \in Poll, PollAnswers(p)
      PROVE  Dues'
  BY <1>1, <1>6, <1>8 DEF PollAnswers, AttemptClose, contract, history
<1>9. ASSUME NEW c \in Closer, CloseStep(c)
      PROVE  Dues'
  <2>1. CASE StateAnswers(c)
    BY <2>1, StateAnswersDues
  <2>2. CASE ~StateAnswers(c)
    <3>1. shigh' = shigh /\ dispute' = dispute /\ owed' = owed
      BY <1>9, CloseStepFrame
    <3> QED
      BY <1>0, <1>9, <2>2, <3>1, CloseStepCalls, DuesKept
  <2> QED
    BY <2>1, <2>2
<1>10. ASSUME NEW t \in floating, FloatingExecutes(t)
       PROVE  Dues'
  <2>1. UNCHANGED <<shigh, dispute, owed, at>>
    BY <1>10 DEF FloatingExecutes, Settles, contract, history
  <2>2. floating' \subseteq floating
    BY <1>10 DEF FloatingExecutes
  <2> QED
    BY <1>0, <2>1, <2>2, DuesKept
<1>11. ASSUME NEW c \in Closer, Abandons(c), shigh <= shigh', UNCHANGED <<dispute, owed>>
       PROVE  Dues'
  <2>1. \A d \in Closer : at'[d] = at[d] \/ at'[d].pc = "idle"
    BY <1>0, <1>11, IdleCall DEF Abandons
  <2>2. \A t \in floating' :
          t \in floating \/ (at[c].pc = "sent" /\ t.amt = at[c].amt /\ t.ans = at[c].ans)
    BY <1>11 DEF Abandons, Broadcast
  <2> QED
    BY <1>0, <1>11, <2>1, <2>2, DuesKept
<1>12. CASE ServerRestarts
  <2>1. shigh <= shigh'
    BY <1>0, <1>12, RestartGrows
  <2> QED
    BY <1>11, <1>12, <2>1 DEF ServerRestarts, contract, history
<1>13. CASE CliDies
  BY <1>0, <1>11, <1>13 DEF CliDies, contract, history, Inv, Owners
<1>14. CASE UNCHANGED vars
  BY <1>1, <1>14 DEF vars, contract, history
<1> QED
  BY <1>2, <1>3, <1>4, <1>5, <1>7, <1>8, <1>9, <1>10, <1>12, <1>13, <1>14 DEF Next

\* A transaction that settles collects what was accepted, and if it answers a dispute
\* at least what was owed.
LEMMA SettlesIsSettle ==
  ASSUME Inv, NEW by \in Closer, NEW amt \in Amounts, NEW ans \in BOOLEAN,
         amt <= shigh, ans => Due(amt), Settles(by, amt, ans), shigh' = shigh
  PROVE  S!Settle
<1>1. ended = "open" /\ paid = 0 /\ amt \in Nat
  BY Constants DEF Settles, Inv, Money
<1>2. paid' = amt
  BY <1>1 DEF Settles
<1>3. answered' = ans /\ (ans => dispute /\ paid' >= owed)
  <2>1. owed \in Int
    BY Constants DEF Inv, TypeOK
  <2> QED
    BY <1>1, <1>2, <2>1 DEF Due, Settles
<1> QED
  BY <1>1, <1>2, <1>3 DEF S!Settle, Settles

LEMMA SettlementStep ==
  ASSUME Inv, Taken, Dues, [Next]_vars
  PROVE  [S!Next]_(S!vars)
<1> USE DEF S!vars
<1>0. TypeOK /\ \A a \in Amounts : a \in Nat
  BY Constants DEF Inv
<1>1. CASE UNCHANGED <<shigh, dispute, owed, ended, paid, answered>>
  BY <1>1
<1>2. CASE CloseStart
  BY <1>2 DEF CloseStart, S!Next, S!Dispute
<1>3. CASE Refund
  BY <1>3 DEF Refund, S!Next, S!Refund, history
<1>4. CASE TopUp \/ TrustlineChanges \/ CliStarts \/ CliCloses \/ RetryClose \/ WatchEvent \/ CliDies
  BY <1>1, <1>4 DEF TopUp, TrustlineChanges, CliStarts, CliCloses, RetryClose, WatchEvent,
     CliDies, contract, history
<1>5. ASSUME NEW a \in Amounts, Verify(a)
      PROVE  [S!Next]_(S!vars)
  BY <1>1, <1>5 DEF Verify, contract, history
<1>6. ASSUME shigh' \in Amounts, shigh < shigh', UNCHANGED <<dispute, owed, ended, paid, answered>>
      PROVE  S!Next
  <2>1. shigh' > shigh
    BY <1>0, <1>6, Constants DEF TypeOK
  <2> QED
    BY <1>0, <1>6, <2>1 DEF S!Next, S!Accept
<1>7. ASSUME NEW a \in Amounts, Accept(a)
      PROVE  [S!Next]_(S!vars)
  BY <1>0, <1>1, <1>6, <1>7, AcceptGrows DEF Accept, contract, history
<1>8. ASSUME NEW p \in Poll, PollReads(p) \/ PollAnswers(p) \/ PollFails(p)
      PROVE  [S!Next]_(S!vars)
  BY <1>1, <1>8 DEF PollReads, PollAnswers, PollFails, contract, history
<1>9. ASSUME NEW c \in Closer, CloseStep(c)
      PROVE  [S!Next]_(S!vars)
  <2>1. CASE UNCHANGED <<contract, history>> \/ UNCHANGED <<contract, owed, settler, answered>>
    BY <1>1, <1>9, <2>1, CloseStepFrame DEF contract, history
  <2>2. CASE Executes(c) /\ ~UNCHANGED <<contract, history>>
    <3>1. Settles(c, at[c].amt, at[c].ans) /\ shigh' = shigh /\ at[c].pc = "sent"
      BY <2>2 DEF Executes
    <3>2. /\ at[c].amt \in Amounts /\ at[c].ans \in BOOLEAN
          /\ at[c].amt <= shigh /\ (at[c].ans => Due(at[c].amt))
      BY <3>1, CallFacts DEF Taken, Dues, CallOK, Call
    <3> QED
      BY <3>1, <3>2, SettlesIsSettle DEF S!Next
  <2> QED
    BY <1>9, <2>1, <2>2, CloseStepFrame
<1>10. ASSUME NEW t \in floating, FloatingExecutes(t)
       PROVE  [S!Next]_(S!vars)
  <2>1. /\ t.by \in Closer /\ t.amt \in Amounts /\ t.ans \in BOOLEAN
        /\ t.amt <= shigh /\ (t.ans => Due(t.amt))
    BY Types DEF Inv, Transaction, Taken, Dues
  <2>2. CASE Settles(t.by, t.amt, t.ans)
    BY <1>10, <2>1, <2>2, SettlesIsSettle DEF FloatingExecutes, S!Next
  <2>3. CASE UNCHANGED <<contract, history>>
    BY <1>1, <1>10, <2>3 DEF FloatingExecutes, contract, history
  <2> QED
    BY <1>10, <2>2, <2>3 DEF FloatingExecutes
<1>11. CASE ServerRestarts
  BY <1>0, <1>1, <1>6, <1>11, RestartGrows DEF ServerRestarts, contract, history
<1>12. CASE UNCHANGED vars
  BY <1>1, <1>12 DEF vars, contract, history
<1> QED
  BY <1>2, <1>3, <1>4, <1>5, <1>7, <1>8, <1>9, <1>10, <1>11, <1>12 DEF Next

\* Whoever closes, however polls overlap, and whatever is lost, retried or restarted,
\* every step is one of ChannelSettlement, or none: the channel ends once, with an amount
\* that was accepted, and a close of the monitor that answers a dispute covers all that
\* was accepted when the dispute began.
THEOREM ImplementsSettlement == Spec => Settlement
<1>1. Init => S!Init
  BY DEF Init, S!Init, S!None, None
<1>2. Inv /\ Inv' /\ Taken /\ [Next]_vars => Taken'
  BY TakenStep
<1>3. Inv /\ Inv' /\ Dues /\ [Next]_vars => Dues'
  BY DuesStep
<1>4. Inv /\ Taken /\ Dues /\ [Next]_vars => [S!Next]_(S!vars)
  BY SettlementStep
<1>5. Init => Taken /\ Dues
  BY InitTaken, InitDues
<1> QED
  BY <1>1, <1>2, <1>3, <1>4, <1>5, Invariance, PTL DEF Spec, Settlement, S!Spec
=============================================================================
