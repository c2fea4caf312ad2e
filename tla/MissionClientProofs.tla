-------------------------- MODULE MissionClientProofs --------------------------
(***************************************************************************)
(* Proofs about MissionClient, for any missions, handlers, polls, clicks   *)
(* and faults: its type invariant, and what the handlers of a page pay for. *)
(***************************************************************************)
EXTENDS MissionClient, TLAPS

\* The types of a load, of a poll and of a handler.
Loading == [pc : {"off", "caps", "ask", "read", "error"}, m : Ids, rec : Records]
Polling == [pc : {"off", "ask", "read"}, m : Ids, rec : Records]
Handling == [op : Clicks \cup {"none", "activate"}, live : BOOLEAN,
             pc : {"off", "post", "intent", "ask", "read"}, m : Ids, i : Ids, rec : Records]
\* What a poll, and a handler, asks for is a mission.
PollAimed(q) == q.pc # "off" => q.m # None
JobAimed(q) ==
  /\ q.op = "none" => q.pc = "off"
  /\ q.op = "create" => q.pc \in {"post", "intent"}
  /\ q.op \notin {"none", "create"} => q.m # None
  /\ q.op \in {"confirm", "topup"} => q.i # None
  /\ q.op = "topup" => ~q.live /\ q.pc = "post"
  /\ q.pc = "intent" => q.op = "create" /\ q.m # None
Aimed ==
  /\ load.pc \in {"ask", "read"} => load.m # None
  /\ \A p \in Polls : PollAimed(polls[p])
  /\ \A j \in Jobs : JobAimed(jobs[j])

\* What is on screen: the modal is the dashboard's, the wizard's handlers the setup page's, and
\* another page has nothing until it has loaded.
Bare == view.m = None /\ (\A p \in Polls : polls[p].pc = "off") /\ \A j \in Jobs : ~jobs[j].live
Placed ==
  /\ modal.pc # "off" => page = "active" /\ view.m # None
  /\ modal.pc \in {"ask", "ready"} => modal.m # None
  /\ \A j \in Jobs : jobs[j].live /\ jobs[j].op = "create" => page = "setup"
  /\ page # "setup" /\ load.pc \in {"caps", "ask", "read"} => Bare

\* What a page of this mission, of this intent and of these handlers agrees on.
JobSteady(q, i, m) ==
  /\ q.op = "confirm" => q.i = q.m
  /\ q.op = "create" /\ q.live => i = None
  /\ q.pc = "intent" /\ q.live => m = q.m
Steady ==
  ~crossed =>
    /\ intent # None => view.m = intent
    /\ \A paid \in paidFor : paid[1] = paid[2]
    /\ \A j \in Jobs : JobSteady(jobs[j], intent, view.m)
    /\ \A j, k \in Jobs : jobs[j].op = "create" /\ jobs[k].op = "create" => j = k

Settled == TypeOK /\ Aimed /\ Placed /\ Steady

\* What a page begins with.
LEMMA Fresh ==
  /\ Absent \in Records /\ NoView \in [m : Ids, rec : Records]
  /\ Off \in Loading /\ Off \in Polling /\ NoJob \in Handling
  /\ Closed \in [pc : {"off", "caps", "ask", "ready", "none"}, m : Ids] /\ Closed.pc = "off"
  /\ PollAimed(Off) /\ JobAimed(NoJob) /\ None \notin Missions
  /\ \A i, m : JobSteady(NoJob, i, m)
<1>1. Absent \in Records /\ None \in Ids
  BY DEF Absent, Records, Ids
<1> QED
  BY <1>1, ClientAssumption
  DEF NoView, Off, Closed, NoJob, Loading, Polling, Handling, PollAimed, JobAimed, JobSteady

\* The page of a browser that has just opened.
LEMMA SettledInit == Init => Settled
<1> SUFFICES ASSUME Init PROVE Settled
  OBVIOUS
<1>1. server \in [Missions -> Records] /\ saved \in Ids
  <2>1. PICK m \in Missions :
          \/ saved = None /\ server = [n \in Missions |-> Absent]
          \/ /\ saved = m
             /\ \E s \in {"active", "completed"} :
                  server = [[n \in Missions |-> Absent] EXCEPT ![m] = [paid |-> TRUE, status |-> s, cut |-> FALSE]]
    BY DEF Init
  <2>2. \A s \in {"active", "completed"} : [paid |-> TRUE, status |-> s, cut |-> FALSE] \in Records
    BY DEF Records
  <2> QED
    BY <2>1, <2>2, Fresh DEF Ids
<1>2. TypeOK
  <2>1. /\ view \in [m : Ids, rec : Records] /\ load \in Loading /\ None \in Ids
        /\ polls \in [Polls -> Polling] /\ jobs \in [Jobs -> Handling]
        /\ modal \in [pc : {"off", "caps", "ask", "ready", "none"}, m : Ids]
    BY Fresh DEF Init, Ids
  <2>2. 0 \in 0..MaxOps /\ 0 \in 0..MaxFaults
    BY ClientAssumption
  <2> QED
    BY <1>1, <2>1, <2>2 DEF Init, TypeOK, Loading, Polling, Handling
<1>3. Aimed /\ Placed /\ Steady
  BY Fresh DEF Init, Aimed, Placed, Steady, Off, NoView, NoJob, PollAimed
<1> QED
  BY <1>2, <1>3 DEF Settled

\* Clicks and faults stay within their bounds.
LEMMA Counting ==
  ASSUME TypeOK, (Fault /\ ops' = ops) \/ Click \/ UNCHANGED counts
  PROVE  ops' \in 0..MaxOps /\ faults' \in 0..MaxFaults
BY ClientAssumption DEF TypeOK, Fault, Click, counts

\* Pages
LEMMA PageStep ==
  ASSUME Settled, Resets \/ Redirects \/ \E p \in {"landing", "setup", "esim", "active"} : Navigates(p)
  PROVE  Settled'
<1>1. PICK p \in {"landing", "setup", "esim", "active"} :
        /\ Mounts(p) /\ (Click \/ UNCHANGED counts)
        /\ UNCHANGED <<server, paidFor, toppedUp, late, crossed>> /\ saved' \in {saved, None}
  BY DEF Resets, Redirects, Navigates, history
<1> USE DEF Settled, TypeOK
<1>2. /\ page' = p /\ view' = NoView /\ caps' = FALSE /\ intent' = None
      /\ load' = IF p = "landing" THEN Off ELSE [Off EXCEPT !.pc = "caps"]
      /\ modal' = Closed
      /\ polls' = [q \in Polls |-> Off]
      /\ jobs' = [j \in Jobs |-> [jobs[j] EXCEPT !.live = FALSE]]
  BY <1>1 DEF Mounts
<1>3. ops' \in 0..MaxOps /\ faults' \in 0..MaxFaults
  BY <1>1, Counting
<1>4. load' \in Loading /\ load'.pc \in {"off", "caps"}
  BY <1>2, Fresh DEF Off, Loading
<1>5. aside' \in BOOLEAN
  <2>1. aside' = (aside \/ load.pc \in {"caps", "ask", "read"} \/ modal.pc \in {"caps", "ask"}
                        \/ p \in {"landing", "setup"})
    BY <1>1 DEF Mounts
  <2> QED
    BY <2>1, Zenon
<1>6. \A j \in Jobs : /\ jobs'[j] \in Handling /\ jobs'[j].live = FALSE /\ jobs'[j].op = jobs[j].op
                      /\ jobs'[j].pc = jobs[j].pc /\ jobs'[j].m = jobs[j].m /\ jobs'[j].i = jobs[j].i
  BY <1>2 DEF Handling
<1>7. TypeOK'
  BY <1>1, <1>2, <1>3, <1>4, <1>5, <1>6, Fresh DEF Loading, Polling, Handling, Ids
<1>8. Aimed'
  BY <1>2, <1>4, <1>6, Fresh DEF Aimed, JobAimed
<1>9. Placed'
  BY <1>2, <1>6, Fresh DEF Placed, Bare, NoView, Off
<1>10. Steady'
  BY <1>1, <1>2, <1>6 DEF Steady, JobSteady
<1> QED
  BY <1>7, <1>8, <1>9, <1>10

\* A handler goes on, ends, or keeps what it is about.
GoesOn(new, old) ==
  /\ new.op = "create" => old.op = "create"
  /\ new.op = "confirm" => old.op = "confirm" /\ new.i = old.i /\ new.m = old.m
  /\ new.live => old.live
  /\ new.pc = "intent" => old.pc = "intent" /\ new.m = old.m

\* While no mission takes another's place, what a page agreed on it still does.
LEMMA SteadyKeeps ==
  ASSUME Settled, paidFor' = paidFor, ~crossed' => ~crossed, intent' \in {intent, None},
         ~crossed' => view.m \in {None, view'.m},
         \A j \in Jobs : GoesOn(jobs'[j], jobs[j])
  PROVE  Steady'
<1> SUFFICES ASSUME ~crossed'
             PROVE  /\ intent' # None => view'.m = intent'
                    /\ \A paid \in paidFor' : paid[1] = paid[2]
                    /\ \A j \in Jobs : JobSteady(jobs'[j], intent', view'.m)
                    /\ \A j, k \in Jobs : jobs'[j].op = "create" /\ jobs'[k].op = "create" => j = k
  BY DEF Steady
<1>0. /\ intent # None => view.m = intent
      /\ view.m \in {None, view'.m} /\ intent' \in {intent, None}
  BY DEF Settled, Steady
<1>1. /\ \A paid \in paidFor : paid[1] = paid[2]
      /\ \A j \in Jobs : JobSteady(jobs[j], intent, view.m)
      /\ \A j, k \in Jobs : jobs[j].op = "create" /\ jobs[k].op = "create" => j = k
  BY DEF Settled, Steady
<1>2. ASSUME NEW j \in Jobs PROVE JobSteady(jobs'[j], intent', view'.m)
  <2>1. JobAimed(jobs[j]) /\ JobSteady(jobs[j], intent, view.m) /\ GoesOn(jobs'[j], jobs[j])
    BY <1>1 DEF Settled, Aimed
  <2> DEFINE new == jobs'[j]
             old == jobs[j]
  <2> HIDE DEF new, old
  <2>2. GoesOn(new, old) /\ JobSteady(old, intent, view.m) /\ JobAimed(old)
    BY <2>1 DEF new, old
  <2>3. new.op = "confirm" => new.i = new.m
    BY <2>2 DEF JobSteady, GoesOn
  <2>4. new.op = "create" /\ new.live => intent' = None
    BY <2>2 DEF JobSteady, GoesOn
  <2>5. new.pc = "intent" /\ new.live => view'.m = new.m
    <3>1. new.pc = "intent" /\ new.live => view.m = new.m /\ new.m # None
      BY <2>2 DEF JobSteady, GoesOn, JobAimed
    <3> QED
      BY <3>1
  <2> QED
    BY <2>3, <2>4, <2>5 DEF JobSteady, new
<1>3. intent' # None => view'.m = intent'
  BY <1>0
<1>4. \A j, k \in Jobs : jobs'[j].op = "create" /\ jobs'[k].op = "create" => j = k
  <2>1. \A j \in Jobs : GoesOn(jobs'[j], jobs[j])
    OBVIOUS
  <2>2. \A j \in Jobs : jobs'[j].op = "create" => jobs[j].op = "create"
    BY <2>1 DEF GoesOn
  <2>3. \A j, k \in Jobs : jobs[j].op = "create" /\ jobs[k].op = "create" => j = k
    BY <1>1
  <2> QED
    BY <2>2, <2>3
<1> QED
  BY <1>1, <1>2, <1>3, <1>4

\* What an answer that is shown makes of the page.
LEMMA Shown ==
  ASSUME Settled, NEW m \in Ids, m # None, NEW rec \in Records, Shows(m, rec)
  PROVE  /\ view' \in [m : Ids, rec : Records] /\ view'.m = m
         /\ crossed' \in BOOLEAN /\ (~crossed' => ~crossed /\ view.m \in {None, m})
         /\ aside' \in BOOLEAN
<1>1. view' = [m |-> m, rec |-> rec]
  BY DEF Shows
<1>2. crossed' = (crossed \/ view.m \notin {None, m})
  BY DEF Shows
<1>3. crossed' \in BOOLEAN
  BY <1>2, Zenon
<1>4. ~crossed' => ~crossed /\ view.m \in {None, m}
  BY <1>2, Zenon
<1>5. aside' = (aside \/ (view.m = None /\ page # "setup"))
  BY DEF Shows
<1>6. aside' \in BOOLEAN
  BY <1>5, Zenon
<1> QED
  BY <1>1, <1>3, <1>4, <1>6

\* The load, and one that is aside.
LEMMA LoadStep ==
  ASSUME Settled, Retries \/ Loads \/ LoadUnavailable \/ LoadFails \/ AsideFails
  PROVE  Settled'
<1> USE DEF Settled, TypeOK
<1>1. UNCHANGED <<server, page, intent, modal, jobs, polls, paidFor, toppedUp, late>>
  BY DEF Retries, Loads, LoadCaps, LoadReads, LoadArrives, LoadUnavailable,
      LoadFails, AsideFails,
     history
<1>2. /\ load' \in Loading /\ (load'.pc \in {"ask", "read"} => load'.m # None)
      /\ saved' \in Ids /\ caps' \in BOOLEAN
  <2>1. CASE LoadCaps
    BY <2>1, Fresh DEF LoadCaps, Off, Loading, Ids
  <2>2. CASE LoadReads
    <3>1. load.m \in Missions
      BY <2>2 DEF LoadReads, Aimed, Ids
    <3> QED
      BY <2>2, <3>1 DEF LoadReads, Loading, Aimed
  <2>3. CASE Retries \/ LoadArrives \/ LoadUnavailable \/ LoadFails \/ AsideFails
    BY <2>3, Fresh
    DEF Retries, LoadArrives, LoadUnavailable, LoadFails, AsideFails,
        Off, Loading, Ids, Aimed
  <2> QED
    BY <2>1, <2>2, <2>3 DEF Loads
<1>3. /\ view' \in [m : Ids, rec : Records] /\ crossed' \in BOOLEAN
      /\ (~crossed' => ~crossed /\ view.m \in {None, view'.m})
  <2>1. CASE LoadArrives
    <3>1. load.m \in Ids /\ load.m # None /\ load.rec \in Records /\ Shows(load.m, load.rec)
      BY <2>1 DEF LoadArrives, Aimed
    <3> QED
      BY <3>1, Shown
  <2>2. CASE LoadFails
    <3>1. (crossed' = crossed /\ view.m = None) \/ crossed' = TRUE
      BY <2>2 DEF LoadFails
    <3> QED
      BY <2>2, <3>1, Fresh DEF LoadFails, NoView
  <2>3. CASE Retries \/ LoadCaps \/ LoadReads \/ LoadUnavailable \/ AsideFails
    BY <2>3
    DEF Retries, LoadCaps, LoadReads, LoadUnavailable, AsideFails,
        history
  <2> QED
    BY <2>1, <2>2, <2>3 DEF Loads
<1>4. aside' \in BOOLEAN
  <2>1. CASE LoadArrives
    <3>1. load.m \in Ids /\ load.m # None /\ load.rec \in Records /\ Shows(load.m, load.rec)
      BY <2>1 DEF LoadArrives, Aimed
    <3> QED
      BY <3>1, Shown
  <2>2. CASE Retries \/ LoadCaps \/ LoadReads \/ LoadUnavailable \/ LoadFails \/ AsideFails
    BY <2>2 DEF Retries, LoadCaps, LoadReads, LoadUnavailable, LoadFails, AsideFails
  <2> QED
    BY <2>1, <2>2 DEF Loads
<1>5. ops' \in 0..MaxOps /\ faults' \in 0..MaxFaults
  <2>1. (Fault /\ ops' = ops) \/ Click \/ UNCHANGED counts
    BY DEF Retries, Loads, LoadCaps, LoadReads, LoadArrives, LoadUnavailable,
        LoadFails, AsideFails
  <2> QED
    BY <2>1, Counting
<1>6. Aimed'
  BY <1>1, <1>2 DEF Aimed
<1>7. Steady'
  <2>1. \A j \in Jobs : GoesOn(jobs'[j], jobs[j])
    BY <1>1 DEF GoesOn
  <2> QED
    BY <1>1, <1>3, <2>1, SteadyKeeps
<1>8. Placed'
  <2>1. CASE Retries \/ LoadCaps \/ LoadReads \/ LoadUnavailable \/ AsideFails
    BY <1>1, <2>1 DEF Retries, LoadCaps, LoadReads, LoadUnavailable, AsideFails, Placed, Bare, Off
  <2>2. CASE LoadArrives
    <3>1. load.m # None /\ view'.m = load.m /\ load' = Off
      BY <2>2 DEF LoadArrives, Shows, Aimed
    <3> QED
      BY <1>1, <3>1 DEF Placed, Bare, Off
  <2>3. CASE LoadFails
    <3>1. page # "setup" => view.m = None
      BY <2>3 DEF LoadFails, Placed, Bare
    <3>2. modal.pc = "off"
      BY <3>1 DEF Placed
    <3>3. load' = Off
      BY <2>3 DEF LoadFails
    <3> QED
      BY <1>1, <3>2, <3>3 DEF Placed, Off
  <2> QED
    BY <2>1, <2>2, <2>3 DEF Loads
<1> QED
  BY <1>1, <1>2, <1>3, <1>4, <1>5, <1>6, <1>7, <1>8 DEF Loading

\* The modal over the dashboard.
ModalMoves == Opens \/ Closes \/ ModalAsks \/ ModalLoads \/ ModalFails
LEMMA ModalStep ==
  ASSUME Settled, ModalMoves
  PROVE  Settled'
<1> USE DEF Settled, TypeOK, ModalMoves
<1>1. UNCHANGED <<server, page, view, caps, load, polls, intent, jobs, paidFor, toppedUp, late, crossed>>
  BY DEF Opens, Closes, ModalAsks, ModalLoads, ModalFails, history
<1>2. /\ modal' \in [pc : {"off", "caps", "ask", "ready", "none"}, m : Ids] /\ saved' \in Ids
      /\ modal'.pc # "off" => page = "active" /\ view.m # None
      /\ modal'.pc \in {"ask", "ready"} => modal'.m # None
  BY Fresh DEF Opens, Closes, ModalAsks, ModalLoads, ModalFails, Closed, Placed, Ids
<1>3. aside' \in BOOLEAN
  <2>1. aside' = aside \/ aside' = (aside \/ modal.pc \in {"caps", "ask"})
    BY DEF Opens, Closes, ModalAsks, ModalLoads, ModalFails
  <2> QED
    BY <2>1, Zenon
<1>4. ops' \in 0..MaxOps /\ faults' \in 0..MaxFaults
  <2>1. (Fault /\ ops' = ops) \/ Click \/ UNCHANGED counts
    BY DEF Opens, Closes, ModalAsks, ModalLoads, ModalFails
  <2> QED
    BY <2>1, Counting
<1>5. Placed'
  BY <1>1, <1>2 DEF Placed, Bare
<1>6. Aimed' /\ Steady'
  BY <1>1 DEF Aimed, Steady
<1> QED
  BY <1>1, <1>2, <1>3, <1>4, <1>5, <1>6

\* A poll.
LEMMA PollStep ==
  ASSUME Settled, NEW p \in Polls, PollAsks(p) \/ PollReads(p) \/ PollArrives(p) \/ PollFails(p)
  PROVE  Settled'
<1> USE DEF Settled, TypeOK
<1>1. UNCHANGED <<server, saved, page, caps, load, modal, intent, jobs, paidFor, toppedUp, late>>
  BY DEF PollAsks, PollReads, PollArrives, PollFails, loads, history
<1>2. polls[p] \in Polling /\ PollAimed(polls[p])
  BY DEF Aimed, Polling
<1>3. \E q \in Polling : polls' = [polls EXCEPT ![p] = q] /\ PollAimed(q)
  <2>1. CASE PollAsks(p)
    <3> DEFINE q == [Off EXCEPT !.pc = "ask", !.m = view.m]
    <3>1. q \in Polling /\ PollAimed(q)
      BY <2>1, Fresh DEF PollAsks, Off, Polling, PollAimed
    <3> QED
      BY <2>1, <3>1 DEF PollAsks
  <2>2. CASE PollReads(p)
    <3> DEFINE q == [polls[p] EXCEPT !.pc = "read", !.rec = server[polls[p].m]]
    <3>1. polls[p].m \in Missions
      BY <1>2, <2>2 DEF PollReads, PollAimed, Polling, Ids
    <3>2. q \in Polling /\ PollAimed(q)
      BY <1>2, <3>1, Fresh DEF Polling, PollAimed
    <3>3. polls' = [polls EXCEPT ![p] = q]
      BY <2>2 DEF PollReads
    <3> HIDE DEF q
    <3> QED
      BY <3>2, <3>3
  <2>3. CASE PollArrives(p) \/ PollFails(p)
    BY <2>3, Fresh DEF PollArrives, PollFails
  <2> QED
    BY <2>1, <2>2, <2>3
<1>4. /\ view' \in [m : Ids, rec : Records] /\ crossed' \in BOOLEAN /\ aside' \in BOOLEAN
      /\ (~crossed' => ~crossed /\ view.m \in {None, view'.m})
      /\ view.m # None => view'.m # None
  <2>1. CASE PollArrives(p)
    <3>1. /\ polls[p].m \in Ids /\ polls[p].m # None /\ polls[p].rec \in Records
          /\ Shows(polls[p].m, polls[p].rec)
      BY <1>2, <2>1 DEF PollArrives, PollAimed, Polling
    <3> QED
      BY <3>1, Shown
  <2>2. CASE PollAsks(p) \/ PollReads(p) \/ PollFails(p)
    BY <2>2 DEF PollAsks, PollReads, PollFails, loads, history
  <2> QED
    BY <2>1, <2>2
<1>5. ops' \in 0..MaxOps /\ faults' \in 0..MaxFaults
  <2>1. (Fault /\ ops' = ops) \/ Click \/ UNCHANGED counts
    BY DEF PollAsks, PollReads, PollArrives, PollFails
  <2> QED
    BY <2>1, Counting
<1>6. polls' \in [Polls -> Polling] /\ Aimed'
  BY <1>1, <1>3 DEF Aimed, Polling
<1>7. Steady'
  <2>1. \A j \in Jobs : GoesOn(jobs'[j], jobs[j])
    BY <1>1 DEF GoesOn
  <2> QED
    BY <1>1, <1>4, <2>1, SteadyKeeps
<1>8. Placed'
  <2>1. Bare => view.m = None /\ polls[p].pc = "off"
    BY DEF Bare
  <2>2. ~Bare
    BY <2>1 DEF PollAsks, PollReads, PollArrives, PollFails
  <2> QED
    BY <1>1, <1>4, <2>2 DEF Placed
<1> QED
  BY <1>1, <1>4, <1>5, <1>6, <1>7, <1>8 DEF Polling

\* One handler moves.
LEMMA OneMoves ==
  ASSUME Settled, NEW j \in Jobs, NEW q \in Handling, JobAimed(q), jobs' = [jobs EXCEPT ![j] = q],
         UNCHANGED <<page, caps, load, modal, polls>>, aside' \in BOOLEAN, late' \in BOOLEAN,
         toppedUp' \subseteq Missions \X Missions,
         server' \in [Missions -> Records], saved' \in Ids, intent' \in Ids,
         view' \in [m : Ids, rec : Records], crossed' \in BOOLEAN, paidFor' \subseteq Missions \X Missions,
         (Fault /\ ops' = ops) \/ Click \/ UNCHANGED counts,
         q.live /\ q.op = "create" => page = "setup", view.m # None => view'.m # None,
         view'.m = view.m \/ jobs[j].live, q.live => jobs[j].live \/ page = "setup" \/ view.m # None
  PROVE  /\ TypeOK' /\ Aimed' /\ Placed'
         /\ jobs'[j] = q /\ \A k \in Jobs : k # j => jobs'[k] = jobs[k]
<1> USE DEF Settled, TypeOK
<1>1. ops' \in 0..MaxOps /\ faults' \in 0..MaxFaults
  BY Counting
<1>2. /\ jobs' \in [Jobs -> Handling] /\ jobs'[j] = q
      /\ \A k \in Jobs : k # j => jobs'[k] = jobs[k]
  BY DEF Handling
<1>3. Aimed'
  BY <1>2 DEF Aimed
<1>4. Placed'
  BY <1>2 DEF Placed, Bare
<1> QED
  BY <1>1, <1>2, <1>3, <1>4 DEF Handling

\* A handler begins.
LEMMA ClickedStep ==
  ASSUME Settled, NEW j \in Jobs, NEW op \in Clicks, Clicked(j, op)
  PROVE  Settled'
<1> USE DEF Settled, TypeOK
<1> DEFINE q == [op |-> op, pc |-> "post", rec |-> view.rec,
                 i |-> IF op = "topup" THEN view.m ELSE intent,
                 m |-> IF op = "topup" THEN modal.m ELSE view.m,
                 live |-> op # "topup"]
<1>1. /\ Offers(op) /\ Click /\ jobs' = [jobs EXCEPT ![j] = q] /\ jobs[j] = NoJob
      /\ crossed' = (crossed \/ (op = "create" /\ \E k \in Jobs : jobs[k].op = "create"))
      /\ UNCHANGED <<server, saved, page, view, caps, load, aside, modal, polls, intent>>
      /\ UNCHANGED <<paidFor, toppedUp, late>>
  BY DEF Clicked, loads
<1>2. q \in Handling /\ JobAimed(q)
  <2>1. op \notin {"none", "create"} => q.m # None
    BY <1>1 DEF Offers, Clicks, Placed
  <2>2. op \in {"confirm", "topup"} => q.i # None
    BY <1>1 DEF Offers, Placed
  <2> QED
    BY <2>1, <2>2 DEF Handling, JobAimed, Clicks
<1>3. /\ q.op = op /\ q.pc = "post" /\ (op # "topup" => q.m = view.m /\ q.i = intent)
      /\ q.live /\ op = "create" => page = "setup"
      /\ q.live => page = "setup" \/ view.m # None
  BY <1>1 DEF Offers
<1>4. crossed' \in BOOLEAN /\ (~crossed' => ~crossed)
  BY <1>1, Zenon
<1>5. ~crossed' /\ op = "create" => \A k \in Jobs : jobs[k].op # "create"
  BY <1>1, Zenon
<1> HIDE DEF q
<1>6. /\ TypeOK' /\ Aimed' /\ Placed'
      /\ jobs'[j] = q /\ \A k \in Jobs : k # j => jobs'[k] = jobs[k]
  BY <1>1, <1>2, <1>3, <1>4, OneMoves
<1>7. Steady'
  <2> SUFFICES ASSUME ~crossed'
               PROVE  /\ intent # None => view.m = intent
                      /\ \A paid \in paidFor : paid[1] = paid[2]
                      /\ \A k \in Jobs : JobSteady(jobs'[k], intent, view.m)
                      /\ \A k, l \in Jobs : jobs'[k].op = "create" /\ jobs'[l].op = "create" => k = l
    BY <1>1 DEF Steady
  <2>1. intent # None => view.m = intent
    BY <1>4 DEF Steady
  <2>2. \A paid \in paidFor : paid[1] = paid[2]
    BY <1>4 DEF Steady
  <2>3. \A k \in Jobs : JobSteady(jobs[k], intent, view.m)
    BY <1>4 DEF Steady
  <2>4. \A k, l \in Jobs : jobs[k].op = "create" /\ jobs[l].op = "create" => k = l
    BY <1>4 DEF Steady
  <2>5. JobSteady(q, intent, view.m)
    <3>1. op = "create" => intent = None
      BY <1>1 DEF Offers
    <3>2. op = "confirm" => q.i = q.m
      BY <1>1, <1>3, <2>1 DEF Offers
    <3> QED
      BY <1>3, <3>1, <3>2 DEF JobSteady
  <2>6. \A k \in Jobs : JobSteady(jobs'[k], intent, view.m)
    BY <1>6, <2>3, <2>5
  <2>7. \A k, l \in Jobs : jobs'[k].op = "create" /\ jobs'[l].op = "create" => k = l
    BY <1>3, <1>5, <1>6, <2>4
  <2> QED
    BY <2>1, <2>2, <2>6, <2>7
<1> QED
  BY <1>6, <1>7

\* createMission() has answered: of a page that is still there the mission is the new one.
LEMMA CreatedStep ==
  ASSUME Settled, NEW j \in Jobs, Created(j)
  PROVE  Settled'
<1> USE DEF Settled, TypeOK
<1>1. PICK m \in Missions :
        /\ server' = [server EXCEPT ![m] = [Absent EXCEPT !.status = "pending"]]
        /\ saved' = m /\ jobs' = [jobs EXCEPT ![j].pc = "intent", ![j].m = m]
        /\ view' = IF jobs[j].live THEN [m |-> m, rec |-> [Absent EXCEPT !.status = "pending"]] ELSE view
  BY DEF Created
<1>2. /\ jobs[j].op = "create" /\ jobs[j].pc = "post" /\ UNCHANGED counts
      /\ UNCHANGED <<page, caps, load, aside, modal, polls, intent, paidFor, toppedUp, crossed>>
      /\ late' = (late \/ ~jobs[j].live)
  BY DEF Created, loads, history
<1> DEFINE q == [jobs[j] EXCEPT !.pc = "intent", !.m = m]
           new == [Absent EXCEPT !.status = "pending"]
<1>3. new \in Records /\ m \in Ids /\ m # None
  BY Fresh DEF Absent, Records, Ids
<1>4. jobs[j] \in Handling /\ jobs' = [jobs EXCEPT ![j] = q]
  BY <1>1 DEF Handling
<1>5. /\ q \in Handling /\ q.op = "create" /\ q.pc = "intent" /\ q.m = m /\ q.live = jobs[j].live
  BY <1>2, <1>3, <1>4 DEF Handling
<1>6. JobAimed(q)
  BY <1>3, <1>5 DEF JobAimed
<1>7. view' = IF jobs[j].live THEN [m |-> m, rec |-> new] ELSE view
  BY <1>1
<1> HIDE DEF q, new
<1>8. view' \in [m : Ids, rec : Records] /\ server' \in [Missions -> Records] /\ saved' \in Ids
  BY <1>1, <1>3, <1>7 DEF new
<1>11. late' \in BOOLEAN
  BY <1>2, Zenon
<1>12. /\ q.live /\ q.op = "create" => page = "setup"
       /\ view.m # None => view'.m # None
       /\ view'.m = view.m \/ jobs[j].live
  BY <1>2, <1>3, <1>5, <1>7 DEF Placed
<1>9. /\ TypeOK' /\ Aimed' /\ Placed'
      /\ jobs'[j] = q /\ \A k \in Jobs : k # j => jobs'[k] = jobs[k]
  BY <1>2, <1>4, <1>5, <1>6, <1>8, <1>11, <1>12, OneMoves
<1>10. Steady'
  <2> SUFFICES ASSUME ~crossed
               PROVE  /\ intent # None => view'.m = intent
                      /\ \A paid \in paidFor : paid[1] = paid[2]
                      /\ \A k \in Jobs : JobSteady(jobs'[k], intent, view'.m)
                      /\ \A k, l \in Jobs : jobs'[k].op = "create" /\ jobs'[l].op = "create" => k = l
    BY <1>2 DEF Steady
  <2>1. intent # None => view.m = intent
    BY DEF Steady
  <2>2. \A paid \in paidFor : paid[1] = paid[2]
    BY DEF Steady
  <2>3. \A k \in Jobs : JobSteady(jobs[k], intent, view.m)
    BY DEF Steady
  <2>4. \A k, l \in Jobs : jobs[k].op = "create" /\ jobs[l].op = "create" => k = l
    BY DEF Steady
  <2>5. jobs[j].live => intent = None /\ view'.m = m
    BY <1>2, <1>7, <2>3 DEF JobSteady
  <2>6. \A k \in Jobs : k # j => jobs[k].op # "create" /\ jobs[k].pc # "intent"
    <3>1. \A k \in Jobs : JobAimed(jobs[k])
      BY DEF Aimed
    <3> QED
      BY <1>2, <2>4, <3>1 DEF JobAimed
  <2>7. ASSUME NEW k \in Jobs PROVE JobSteady(jobs'[k], intent, view'.m)
    <3>1. CASE k = j
      BY <1>5, <1>9, <2>5, <3>1 DEF JobSteady
    <3>2. CASE k # j
      BY <1>9, <2>3, <2>6, <3>2 DEF JobSteady
    <3> QED
      BY <3>1, <3>2
  <2>8. \A k, l \in Jobs : jobs'[k].op = "create" /\ jobs'[l].op = "create" => k = l
    BY <1>9, <2>6
  <2>9. intent # None => view'.m = intent
    BY <1>7, <2>1, <2>5
  <2> QED
    BY <2>2, <2>7, <2>8, <2>9
<1> QED
  BY <1>9, <1>10

\* The intent of the mission created is the page's, if it is still there.
LEMMA IntentStep ==
  ASSUME Settled, NEW j \in Jobs, IntentArrives(j)
  PROVE  Settled'
<1> USE DEF Settled, TypeOK
<1>1. /\ jobs[j].pc = "intent" /\ jobs' = [jobs EXCEPT ![j] = NoJob]
      /\ intent' = IF jobs[j].live THEN jobs[j].m ELSE intent
      /\ UNCHANGED <<server, saved, page, view, caps, load, aside, modal, polls, paidFor, crossed>>
      /\ UNCHANGED <<toppedUp, late>> /\ UNCHANGED counts
  BY DEF IntentArrives, loads, history
<1>2. jobs[j] \in Handling /\ JobAimed(jobs[j])
  BY DEF Aimed, Handling
<1>3. intent' \in Ids
  BY <1>1, <1>2 DEF Handling
<1>4. /\ TypeOK' /\ Aimed' /\ Placed'
      /\ jobs'[j] = NoJob /\ \A k \in Jobs : k # j => jobs'[k] = jobs[k]
  <2>1. NoJob.live = FALSE
    BY DEF NoJob
  <2> QED
    BY <1>1, <1>3, <2>1, Fresh, OneMoves
<1>5. Steady'
  <2> SUFFICES ASSUME ~crossed
               PROVE  /\ intent' # None => view.m = intent'
                      /\ \A paid \in paidFor : paid[1] = paid[2]
                      /\ \A k \in Jobs : JobSteady(jobs'[k], intent', view.m)
                      /\ \A k, l \in Jobs : jobs'[k].op = "create" /\ jobs'[l].op = "create" => k = l
    BY <1>1 DEF Steady
  <2>1. intent # None => view.m = intent
    BY DEF Steady
  <2>2. \A paid \in paidFor : paid[1] = paid[2]
    BY DEF Steady
  <2>3. \A k \in Jobs : JobSteady(jobs[k], intent, view.m)
    BY DEF Steady
  <2>4. \A k, l \in Jobs : jobs[k].op = "create" /\ jobs[l].op = "create" => k = l
    BY DEF Steady
  <2>5. jobs[j].op = "create" /\ (jobs[j].live => view.m = jobs[j].m)
    BY <1>1, <1>2, <2>3 DEF JobAimed, JobSteady
  <2>6. \A k \in Jobs : k # j => jobs[k].op # "create" /\ jobs[k].pc # "intent"
    <3>1. \A k \in Jobs : JobAimed(jobs[k])
      BY DEF Aimed
    <3> QED
      BY <2>4, <2>5, <3>1 DEF JobAimed
  <2>7. ASSUME NEW k \in Jobs PROVE JobSteady(jobs'[k], intent', view.m)
    <3>1. CASE k = j
      BY <1>4, <3>1, Fresh
    <3>2. CASE k # j
      BY <1>4, <2>3, <2>6, <3>2 DEF JobSteady
    <3> QED
      BY <3>1, <3>2
  <2>8. \A k, l \in Jobs : jobs'[k].op = "create" /\ jobs'[l].op = "create" => k = l
    BY <1>4, <2>6 DEF NoJob
  <2>9. intent' # None => view.m = intent'
    BY <1>1, <2>1, <2>5
  <2> QED
    BY <2>2, <2>7, <2>8, <2>9
<1> QED
  BY <1>4, <1>5

\* A payment is confirmed on the mission the handler has with the intent it has.
LEMMA ConfirmedStep ==
  ASSUME Settled, NEW j \in Jobs, Confirmed(j)
  PROVE  Settled'
<1> USE DEF Settled, TypeOK
<1> DEFINE q == [jobs[j] EXCEPT !.pc = "ask"]
           paid == <<jobs[j].i, jobs[j].m>>
<1>1. /\ jobs[j].op = "confirm" /\ jobs' = [jobs EXCEPT ![j].pc = "ask"] /\ UNCHANGED counts
      /\ UNCHANGED <<saved, page, view, caps, load, aside, modal, polls, intent, crossed>>
      /\ UNCHANGED <<toppedUp, late>>
  BY DEF Confirmed, loads
<1>2. jobs[j] \in Handling /\ JobAimed(jobs[j])
  BY DEF Aimed, Handling
<1>3. jobs[j].i \in Missions /\ jobs[j].m \in Missions
  BY <1>1, <1>2 DEF JobAimed, Handling, Ids
<1>4. /\ q \in Handling /\ jobs' = [jobs EXCEPT ![j] = q]
      /\ q.pc = "ask" /\ q.op = "confirm" /\ q.m = jobs[j].m /\ q.i = jobs[j].i /\ q.live = jobs[j].live
  BY <1>1, <1>2 DEF Handling
<1>5. JobAimed(q)
  BY <1>2, <1>4 DEF JobAimed
<1>6. server' \in [Missions -> Records] /\ paidFor' \in {paidFor, paidFor \cup {paid}}
  <2>1. CASE server[jobs[j].m].paid
    BY <2>1 DEF Confirmed
  <2>2. CASE ~server[jobs[j].m].paid
    <3> DEFINE rec == [server[jobs[j].m] EXCEPT !.paid = TRUE, !.status = "paid"]
    <3>1. server[jobs[j].m] \in Records
      BY <1>3
    <3>2. rec \in Records
      BY <3>1 DEF Records
    <3>3. server' = [server EXCEPT ![jobs[j].m] = rec] /\ paidFor' = paidFor \cup {paid}
      BY <1>3, <2>2, <3>1 DEF Confirmed, Records
    <3> HIDE DEF rec, paid
    <3> QED
      BY <1>3, <3>2, <3>3
  <2> QED
    BY <2>1, <2>2
<1>7. paid \in Missions \X Missions
  BY <1>3
<1>8. paid[1] = jobs[j].i /\ paid[2] = jobs[j].m
  OBVIOUS
<1>11. paidFor' \subseteq Missions \X Missions
  BY <1>6, <1>7
<1> HIDE DEF q, paid
<1>9. /\ TypeOK' /\ Aimed' /\ Placed'
      /\ jobs'[j] = q /\ \A k \in Jobs : k # j => jobs'[k] = jobs[k]
  BY <1>1, <1>4, <1>5, <1>6, <1>11, OneMoves
<1>10. Steady'
  <2> SUFFICES ASSUME ~crossed
               PROVE  /\ intent # None => view.m = intent
                      /\ \A x \in paidFor' : x[1] = x[2]
                      /\ \A k \in Jobs : JobSteady(jobs'[k], intent, view.m)
                      /\ \A k, l \in Jobs : jobs'[k].op = "create" /\ jobs'[l].op = "create" => k = l
    BY <1>1 DEF Steady
  <2>1. intent # None => view.m = intent
    BY DEF Steady
  <2>2. \A x \in paidFor : x[1] = x[2]
    BY DEF Steady
  <2>3. \A k \in Jobs : JobSteady(jobs[k], intent, view.m)
    BY DEF Steady
  <2>4. \A k, l \in Jobs : jobs[k].op = "create" /\ jobs[l].op = "create" => k = l
    BY DEF Steady
  <2>5. jobs[j].i = jobs[j].m
    BY <1>1, <2>3 DEF JobSteady
  <2>6. \A x \in paidFor' : x[1] = x[2]
    BY <1>6, <1>8, <2>2, <2>5
  <2>7. JobSteady(q, intent, view.m)
    BY <1>4, <2>5 DEF JobSteady
  <2>8. \A k \in Jobs : JobSteady(jobs'[k], intent, view.m)
    BY <1>9, <2>3, <2>7
  <2>9. \A k, l \in Jobs : jobs'[k].op = "create" /\ jobs'[l].op = "create" => k = l
    BY <1>4, <1>9, <2>4
  <2> QED
    BY <2>1, <2>6, <2>8, <2>9
<1> QED
  BY <1>9, <1>10

\* What the server makes of a request is a record.
LEMMA EffectType ==
  ASSUME NEW op, NEW r \in Records, NEW shown
  PROVE  Effect(op, r, shown) \subseteq Records
<1> DEFINE active == [r EXCEPT !.status = "active", !.cut = FALSE]
           paused == [r EXCEPT !.status = "paused", !.cut = TRUE]
           done == [r EXCEPT !.status = "completed", !.cut = FALSE]
<1>1. active \in Records /\ paused \in Records /\ done \in Records
  BY DEF Records
<1>2. Effect(op, r, shown) \subseteq {active, paused, done, r}
  BY DEF Effect
<1> QED
  BY <1>1, <1>2

\* The other steps of a handler pay nothing and set no intent.
LEMMA OtherStep ==
  ASSUME Settled, NEW j \in Jobs, Posted(j) \/ Refused(j) \/ Fetches(j) \/ Fetched(j) \/ Fails(j)
  PROVE  Settled'
<1> USE DEF Settled, TypeOK
<1>1. jobs[j] \in Handling /\ JobAimed(jobs[j])
  BY DEF Aimed, Handling
<1>2. UNCHANGED <<saved, page, caps, load, modal, polls, paidFor, late>>
  BY DEF Posted, Refused, Fetches, Fetched, Fails, loads, history
<1>3. ASSUME jobs[j].op \notin {"none", "create"} PROVE jobs[j].m \in Missions /\ server[jobs[j].m] \in Records
  BY <1>1, <1>3 DEF JobAimed, Handling, Ids
<1>4. jobs[j].pc \in {"ask", "read"} => jobs[j].op \notin {"none", "create"}
  BY <1>1 DEF JobAimed
<1>5. \E q \in Handling : jobs' = [jobs EXCEPT ![j] = q] /\ JobAimed(q) /\ GoesOn(q, jobs[j])
  <2>1. GoesOn(NoJob, jobs[j])
    BY DEF GoesOn, NoJob
  <2>2. CASE jobs' = [jobs EXCEPT ![j] = NoJob]
    BY <2>1, <2>2, Fresh
  <2>3. CASE Posted(j) /\ jobs[j].op # "topup"
    <3> DEFINE q == [jobs[j] EXCEPT !.pc = "ask"]
    <3>1. jobs' = [jobs EXCEPT ![j] = q]
      BY <2>3 DEF Posted
    <3>2. q \in Handling /\ JobAimed(q) /\ GoesOn(q, jobs[j])
      BY <1>1, <2>3 DEF Posted, Handling, JobAimed, GoesOn
    <3> QED
      BY <3>1, <3>2
  <2>4. CASE Fetches(j)
    <3> DEFINE q == [jobs[j] EXCEPT !.pc = "read", !.rec = server[jobs[j].m]]
    <3>1. jobs' = [jobs EXCEPT ![j] = q]
      BY <1>1, <2>4 DEF Fetches, Handling
    <3>2. server[jobs[j].m] \in Records
      BY <1>3, <1>4, <2>4 DEF Fetches
    <3>3. q \in Handling /\ JobAimed(q) /\ GoesOn(q, jobs[j])
      BY <1>1, <1>4, <2>4, <3>2 DEF Fetches, Handling, JobAimed, GoesOn
    <3> QED
      BY <3>1, <3>3
  <2>5. CASE Fetched(j) /\ jobs[j].op = "confirm"
    <3> DEFINE q == [jobs[j] EXCEPT !.op = "activate", !.pc = "post"]
    <3>1. jobs' = [jobs EXCEPT ![j] = q]
      BY <1>1, <2>5 DEF Fetched, Handling
    <3>2. q \in Handling /\ JobAimed(q) /\ GoesOn(q, jobs[j])
      BY <1>1, <2>5 DEF Fetched, Handling, JobAimed, GoesOn
    <3> QED
      BY <3>1, <3>2
  <2> QED
    BY <2>2, <2>3, <2>4, <2>5 DEF Posted, Refused, Fetched, Fails
<1>6. server' \in [Missions -> Records]
  <2>1. CASE Posted(j)
    <3>1. jobs[j].m \in Missions /\ server[jobs[j].m] \in Records
      BY <1>3, <2>1 DEF Posted
    <3>2. PICK r \in Effect(jobs[j].op, server[jobs[j].m], jobs[j].rec) :
            server' = [server EXCEPT ![jobs[j].m] = r]
      BY <2>1 DEF Posted
    <3>3. r \in Records
      BY <3>1, <3>2, EffectType
    <3> QED
      BY <3>1, <3>2, <3>3
  <2>2. CASE UNCHANGED server
    BY <2>2
  <2> QED
    BY <2>1, <2>2 DEF Refused, Fetches, Fetched, Fails
<1>7. intent' \in {intent, None} /\ intent' \in Ids
  <2>1. intent' \in {intent, None}
    BY DEF Posted, Refused, Fetches, Fetched, Fails
  <2> QED
    BY <2>1 DEF Ids
<1>8. /\ view' \in [m : Ids, rec : Records] /\ crossed' \in BOOLEAN /\ aside' \in BOOLEAN
      /\ (~crossed' => ~crossed /\ view.m \in {None, view'.m})
      /\ view.m # None => view'.m # None
      /\ view'.m = view.m \/ jobs[j].live
  <2>1. CASE Fetched(j) /\ jobs[j].live
    <3>1. /\ jobs[j].m \in Ids /\ jobs[j].m # None /\ jobs[j].rec \in Records
          /\ Shows(jobs[j].m, jobs[j].rec)
      BY <1>1, <1>4, <2>1 DEF Fetched, JobAimed, Handling
    <3> QED
      BY <2>1, <3>1, Shown
  <2>2. CASE UNCHANGED <<view, crossed, aside>>
    BY <2>2
  <2> QED
    BY <2>1, <2>2 DEF Posted, Refused, Fetches, Fetched, Fails, history, loads
<1>9. (Fault /\ ops' = ops) \/ Click \/ UNCHANGED counts
  BY DEF Posted, Refused, Fetches, Fetched, Fails
<1>10. PICK q \in Handling : jobs' = [jobs EXCEPT ![j] = q] /\ JobAimed(q) /\ GoesOn(q, jobs[j])
  BY <1>5
<1>14. toppedUp' \subseteq Missions \X Missions
  <2>1. toppedUp' = toppedUp \/ (jobs[j].op = "topup" /\ toppedUp' = toppedUp \cup {<<jobs[j].i, jobs[j].m>>})
    BY DEF Posted, Refused, Fetches, Fetched, Fails, history
  <2>2. jobs[j].op = "topup" => jobs[j].i \in Missions /\ jobs[j].m \in Missions
    BY <1>1 DEF JobAimed, Handling, Ids
  <2> QED
    BY <2>1, <2>2
<1>15. (q.live => jobs[j].live) /\ (q.live /\ q.op = "create" => page = "setup")
  BY <1>10 DEF GoesOn, Placed
<1>11. /\ TypeOK' /\ Aimed' /\ Placed'
       /\ jobs'[j] = q /\ \A k \in Jobs : k # j => jobs'[k] = jobs[k]
  BY <1>2, <1>6, <1>7, <1>8, <1>9, <1>10, <1>14, <1>15, OneMoves
<1>12. \A k \in Jobs : GoesOn(jobs'[k], jobs[k])
  BY <1>10, <1>11 DEF GoesOn
<1>13. Steady'
  BY <1>2, <1>7, <1>8, <1>12, SteadyKeeps
<1> QED
  BY <1>11, <1>13

\* Every step of the app keeps it settled.
LEMMA Inductive == Spec => []Settled
<1>1. ASSUME Settled, [Next]_vars PROVE Settled'
  <2>1. CASE UNCHANGED vars
    BY <1>1, <2>1
    DEF Settled, TypeOK, Aimed, Placed, Bare, Steady, vars, loads, history, counts
  <2>7. CASE ModalMoves
    BY <1>1, <2>7, ModalStep
  <2>2. CASE Resets \/ Redirects \/ \E p \in {"landing", "setup", "esim", "active"} : Navigates(p)
    BY <1>1, <2>2, PageStep
  <2>3. CASE Retries \/ Loads \/ LoadUnavailable \/ LoadFails \/ AsideFails
    BY <1>1, <2>3, LoadStep
  <2>4. CASE \E p \in Polls : PollAsks(p) \/ PollReads(p) \/ PollArrives(p) \/ PollFails(p)
    BY <1>1, <2>4, PollStep
  <2>5. CASE \E j \in Jobs : Steps(j) \/ Fails(j)
    BY <1>1, <2>5, CreatedStep, IntentStep, ConfirmedStep, OtherStep DEF Steps
  <2>6. CASE \E j \in Jobs : \E op \in Clicks : Clicked(j, op)
    BY <1>1, <2>6, ClickedStep
  <2> QED
    BY <1>1, <2>1, <2>2, <2>3, <2>4, <2>5, <2>6, <2>7 DEF Next, ModalMoves
<1> QED
  BY <1>1, SettledInit, PTL DEF Spec

\* The app's variables keep their types, for any missions, handlers, polls and faults.
THEOREM ClientTypes == Spec => []TypeOK
<1>1. Settled => TypeOK
  BY DEF Settled
<1> QED
  BY <1>1, Inductive, PTL

\* While no mission takes another's place and no page that was left creates one, the saved id
\* is that of the mission on the page, or of the one it loads.
SavedIsShown ==
  /\ saved # None /\ view.m # None => saved = view.m
  /\ load.pc \in {"ask", "read"} /\ saved # None /\ view.m = None => load.m = saved
PollsAreShown == \A p \in Polls : polls[p].pc # "off" => view.m # None
ModalIsShown == modal.pc \in {"ask", "ready"} => modal.m = view.m
JobAligned(q, m) ==
  /\ q.live /\ q.op \notin {"none", "create"} => m # None
  /\ q.op = "topup" => q.i = q.m
JobsAligned == \A j \in Jobs : JobAligned(jobs[j], view.m)
TopsAligned == \A top \in toppedUp : top[1] = top[2]
AllAligned == SavedIsShown /\ PollsAreShown /\ ModalIsShown /\ JobsAligned /\ TopsAligned
Aligned == ~crossed /\ ~late => AllAligned

\* What the history says it goes on saying.
LEMMA HistoryStays ==
  ASSUME Next
  PROVE  (~crossed' => ~crossed) /\ (~late' => ~late)
<1>1. crossed' = crossed \/ crossed' = TRUE \/ \E x : crossed' = (crossed \/ x)
  BY Zenon DEF Next, Redirects, Resets, Navigates, Retries, Loads, LoadCaps, LoadReads, LoadArrives, LoadUnavailable,
      LoadFails, AsideFails, Opens, Closes, ModalAsks, ModalLoads, ModalFails, PollAsks, PollReads,
      PollArrives, PollFails, Steps, Created, IntentArrives, Confirmed, Posted, Refused, Fetches,
      Fetched, Fails, Clicked, Shows, history
<1>2. late' = late \/ \E x : late' = (late \/ x)
  BY Zenon DEF Next, Redirects, Resets, Navigates, Retries, Loads, LoadCaps, LoadReads, LoadArrives, LoadUnavailable,
      LoadFails, AsideFails, Opens, Closes, ModalAsks, ModalLoads, ModalFails, PollAsks, PollReads,
      PollArrives, PollFails, Steps, Created, IntentArrives, Confirmed, Posted, Refused, Fetches,
      Fetched, Fails, Clicked, history
<1>3. ASSUME NEW x, crossed' = (crossed \/ x) PROVE ~crossed' => ~crossed
  BY <1>3, Zenon
<1>4. ASSUME NEW x, late' = (late \/ x) PROVE ~late' => ~late
  BY <1>4, Zenon
<1> QED
  BY <1>1, <1>2, <1>3, <1>4

\* A page that is entered shows nothing yet.
LEMMA PageAligns ==
  ASSUME Settled, AllAligned, Resets \/ Redirects \/ \E p \in {"landing", "setup", "esim", "active"} : Navigates(p)
  PROVE  AllAligned'
<1>1. PICK p : Mounts(p) /\ UNCHANGED toppedUp
  BY DEF Resets, Redirects, Navigates, history
<1>2. /\ view' = NoView /\ load'.pc \in {"off", "caps"} /\ modal' = Closed
      /\ polls' = [q \in Polls |-> Off]
      /\ jobs' = [j \in Jobs |-> [jobs[j] EXCEPT !.live = FALSE]]
  BY <1>1 DEF Mounts, Off
<1>3. \A j \in Jobs : /\ jobs'[j].live = FALSE /\ jobs'[j].op = jobs[j].op
                      /\ jobs'[j].m = jobs[j].m /\ jobs'[j].i = jobs[j].i
  BY <1>2 DEF Settled, TypeOK
<1> QED
  BY <1>1, <1>2, <1>3
  DEF AllAligned, SavedIsShown, PollsAreShown, ModalIsShown, JobsAligned, JobAligned, TopsAligned,
      NoView, Closed, Off

\* What is loaded is what is saved.
LEMMA LoadAligns ==
  ASSUME Settled, AllAligned, ~crossed', Retries \/ Loads \/ LoadUnavailable \/ LoadFails \/ AsideFails
  PROVE  AllAligned'
<1> USE DEF AllAligned, SavedIsShown, PollsAreShown, ModalIsShown, JobsAligned, JobAligned, TopsAligned
<1>1. CASE Retries \/ LoadCaps \/ LoadReads \/ LoadUnavailable \/ AsideFails
  <2>1. UNCHANGED <<view, modal, polls, jobs, toppedUp>> /\ saved' \in {saved, None}
    BY <1>1 DEF Retries, LoadCaps, LoadReads, LoadUnavailable, AsideFails, history
  <2>2. saved' # None /\ load'.pc \in {"ask", "read"} =>
          load'.m = saved \/ (load.pc \in {"ask", "read"} /\ load'.m = load.m)
    BY <1>1 DEF Retries, LoadCaps, LoadReads, LoadUnavailable, AsideFails, Off, Settled, TypeOK
  <2> QED
    BY <2>1, <2>2
<1>2. CASE LoadArrives
  <2>1. /\ load' = Off /\ view'.m = load.m /\ UNCHANGED <<saved, modal, polls, jobs, toppedUp>>
        /\ load.pc = "read" /\ load.m # None
    BY <1>2 DEF LoadArrives, Shows, Settled, Aimed
  <2>2. view.m \in {None, load.m}
    <3>1. crossed' = (crossed \/ view.m \notin {None, load.m})
      BY <1>2 DEF LoadArrives, Shows
    <3> QED
      BY <3>1, Zenon
  <2>3. modal.pc # "off" => view.m # None
    BY DEF Settled, Placed
  <2> QED
    BY <2>1, <2>2, <2>3 DEF Off
<1>3. CASE LoadFails
  <2>1. view.m = None
    <3>1. crossed' = (crossed \/ view.m # None)
      BY <1>3 DEF LoadFails
    <3> QED
      BY <3>1, Zenon
  <2>2. /\ load' = Off /\ saved' = None /\ view' = NoView
        /\ UNCHANGED <<modal, polls, jobs, toppedUp>>
    BY <1>3 DEF LoadFails
  <2> QED
    BY <2>1, <2>2 DEF Off, NoView
<1> QED
  BY <1>1, <1>2, <1>3 DEF Loads

\* The modal is of the mission on the page.
LEMMA ModalAligns ==
  ASSUME Settled, AllAligned, ModalMoves
  PROVE  AllAligned'
<1>1. UNCHANGED <<view, load, polls, jobs, toppedUp>> /\ saved' \in {saved, None}
  BY DEF ModalMoves, Opens, Closes, ModalAsks, ModalLoads, ModalFails, history
<1>2. modal'.pc \in {"ask", "ready"} =>
        /\ modal.pc # "off"
        /\ (modal'.m = saved /\ saved # None) \/ (modal.pc \in {"ask", "ready"} /\ modal'.m = modal.m)
  BY DEF ModalMoves, Opens, Closes, ModalAsks, ModalLoads, ModalFails, Closed, Settled, TypeOK
<1>3. modal.pc # "off" => view.m # None
  BY DEF Settled, Placed
<1> QED
  BY <1>1, <1>2, <1>3
  DEF AllAligned, SavedIsShown, PollsAreShown, ModalIsShown, JobsAligned, JobAligned, TopsAligned

\* A poll answers with the mission on the page.
LEMMA PollAligns ==
  ASSUME Settled, AllAligned, ~crossed',
         NEW p \in Polls, PollAsks(p) \/ PollReads(p) \/ PollArrives(p) \/ PollFails(p)
  PROVE  AllAligned'
<1>1. UNCHANGED <<saved, load, modal, jobs, toppedUp>> /\ view'.m = view.m
  <2>1. CASE PollArrives(p)
    <3>1. view.m # None /\ view'.m = polls[p].m /\ UNCHANGED <<saved, load, modal, jobs, toppedUp>>
      BY <2>1 DEF PollArrives, Shows, AllAligned, PollsAreShown
    <3>2. crossed' = (crossed \/ view.m \notin {None, polls[p].m})
      BY <2>1 DEF PollArrives, Shows
    <3>3. view.m \in {None, polls[p].m}
      BY <3>2, Zenon
    <3> QED
      BY <3>1, <3>3
  <2>2. CASE PollAsks(p) \/ PollReads(p) \/ PollFails(p)
    BY <2>2 DEF PollAsks, PollReads, PollFails, loads, history
  <2> QED
    BY <2>1, <2>2
<1>2. \A q \in Polls : polls'[q].pc # "off" => polls[q].pc # "off" \/ view.m # None
  BY DEF PollAsks, PollReads, PollArrives, PollFails, Off, Settled, TypeOK
<1> QED
  BY <1>1, <1>2
  DEF AllAligned, SavedIsShown, PollsAreShown, ModalIsShown, JobsAligned, JobAligned, TopsAligned

\* What a handler is about it goes on being about.
LEMMA JobAligns ==
  ASSUME Settled, AllAligned, ~crossed', ~late', NEW j \in Jobs,
         Steps(j) \/ Fails(j) \/ \E op \in Clicks : Clicked(j, op)
  PROVE  AllAligned'
<1> USE DEF AllAligned, SavedIsShown, PollsAreShown, ModalIsShown, JobsAligned, JobAligned, TopsAligned
<1>1. jobs[j] \in Handling /\ JobAimed(jobs[j]) /\ JobAligned(jobs[j], view.m)
  BY DEF Settled, TypeOK, Aimed, Handling
<1>2. CASE \E op \in Clicks : Clicked(j, op)
  <2>1. PICK op \in Clicks : Clicked(j, op)
    BY <1>2
  <2> DEFINE q == [op |-> op, pc |-> "post", rec |-> view.rec,
                   i |-> IF op = "topup" THEN view.m ELSE intent,
                   m |-> IF op = "topup" THEN modal.m ELSE view.m,
                   live |-> op # "topup"]
  <2>2. jobs' = [jobs EXCEPT ![j] = q] /\ UNCHANGED <<saved, view, load, modal, polls, toppedUp>> /\ Offers(op)
    BY <2>1 DEF Clicked, loads
  <2>3. JobAligned(q, view.m)
    BY <2>2 DEF Offers, Clicks
  <2> HIDE DEF q
  <2>4. \A k \in Jobs : jobs'[k] = IF k = j THEN q ELSE jobs[k]
    BY <2>2 DEF Settled, TypeOK
  <2> QED
    BY <2>2, <2>3, <2>4
<1>3. CASE Created(j)
  <2>1. PICK m \in Missions :
          /\ saved' = m /\ jobs' = [jobs EXCEPT ![j].pc = "intent", ![j].m = m]
          /\ view' = IF jobs[j].live THEN [m |-> m, rec |-> [Absent EXCEPT !.status = "pending"]] ELSE view
    BY <1>3 DEF Created
  <2>2. jobs[j].live /\ jobs[j].op = "create"
    <3>1. late' = (late \/ ~jobs[j].live) /\ jobs[j].op = "create"
      BY <1>3 DEF Created
    <3> QED
      BY <3>1, Zenon
  <2>3. modal.pc = "off" /\ m # None
    BY <2>2, Fresh DEF Settled, Placed
  <2>4. view'.m = m /\ UNCHANGED <<load, modal, polls, toppedUp>>
    BY <1>3, <2>1, <2>2 DEF Created, loads
  <2>5. \A k \in Jobs : /\ jobs'[k].op = jobs[k].op /\ jobs'[k].live = jobs[k].live
                        /\ jobs[k].op = "topup" => jobs'[k] = jobs[k]
    BY <2>1, <2>2 DEF Settled, TypeOK
  <2> QED
    BY <2>1, <2>3, <2>4, <2>5
<1>4. CASE IntentArrives(j) \/ Confirmed(j) \/ Posted(j) \/ Refused(j) \/ Fetches(j) \/ Fetched(j) \/ Fails(j)
  <2>1. UNCHANGED <<saved, load, modal, polls>>
    BY <1>4 DEF IntentArrives, Confirmed, Posted, Refused, Fetches, Fetched, Fails, loads
  <2>2. view'.m = view.m
    <3>1. CASE Fetched(j) /\ jobs[j].live
      <4>1. view'.m = jobs[j].m /\ crossed' = (crossed \/ view.m \notin {None, jobs[j].m})
        BY <3>1 DEF Fetched, Shows
      <4>2. view.m \in {None, jobs[j].m}
        BY <4>1, Zenon
      <4>3. view.m # None
        BY <1>1, <3>1 DEF Fetched, JobAimed
      <4> QED
        BY <4>1, <4>2, <4>3
    <3>2. CASE UNCHANGED view
      BY <3>2
    <3> QED
      BY <1>4, <3>1, <3>2 DEF IntentArrives, Confirmed, Posted, Refused, Fetches, Fetched, Fails
  <2>3. toppedUp' = toppedUp \/ (jobs[j].op = "topup" /\ toppedUp' = toppedUp \cup {<<jobs[j].i, jobs[j].m>>})
    BY <1>4 DEF IntentArrives, Confirmed, Posted, Refused, Fetches, Fetched, Fails, history
  <2>4. \A top \in toppedUp' : top[1] = top[2]
    BY <1>1, <2>3
  <2>5. \A k \in Jobs : k # j => jobs'[k] = jobs[k]
    BY <1>4 DEF IntentArrives, Confirmed, Posted, Refused, Fetches, Fetched, Fails, Settled, TypeOK
  <2>6. jobs'[j] = NoJob \/ (/\ jobs'[j].live = jobs[j].live /\ jobs[j].op \notin {"none", "create", "topup"}
                             /\ jobs'[j].op # "topup")
    BY <1>1, <1>4
    DEF IntentArrives, Confirmed, Posted, Refused, Fetches, Fetched, Fails, Settled, TypeOK, JobAimed
  <2> QED
    BY <1>1, <2>1, <2>2, <2>4, <2>5, <2>6 DEF NoJob
<1> QED
  BY <1>2, <1>3, <1>4 DEF Steps

LEMMA AlignedAlways == Spec => []Aligned
<1>1. Init => Aligned
  BY DEF Init, Aligned, AllAligned, SavedIsShown, PollsAreShown, ModalIsShown, JobsAligned, JobAligned,
         TopsAligned, NoView, Off, Closed, NoJob
<1>2. ASSUME Settled, Aligned, [Next]_vars PROVE Aligned'
  <2>1. CASE UNCHANGED vars
    BY <1>2, <2>1
    DEF vars, loads, history, counts, Aligned, AllAligned, SavedIsShown, PollsAreShown, ModalIsShown, JobsAligned,
        JobAligned, TopsAligned
  <2>2. CASE Next
    <3> SUFFICES ASSUME ~crossed', ~late' PROVE AllAligned'
      BY DEF Aligned
    <3>1. AllAligned
      BY <1>2, <2>2, HistoryStays DEF Aligned
    <3>2. CASE Resets \/ Redirects \/ \E p \in {"landing", "setup", "esim", "active"} : Navigates(p)
      BY <1>2, <3>1, <3>2, PageAligns
    <3>3. CASE Retries \/ Loads \/ LoadUnavailable \/ LoadFails \/ AsideFails
      BY <1>2, <3>1, <3>3, LoadAligns
    <3>4. CASE ModalMoves
      BY <1>2, <3>1, <3>4, ModalAligns
    <3>5. CASE \E p \in Polls : PollAsks(p) \/ PollReads(p) \/ PollArrives(p) \/ PollFails(p)
      BY <1>2, <3>1, <3>5, PollAligns
    <3>6. CASE \E j \in Jobs : Steps(j) \/ Fails(j) \/ \E op \in Clicks : Clicked(j, op)
      BY <1>2, <3>1, <3>6, JobAligns
    <3> QED
      BY <2>2, <3>2, <3>3, <3>4, <3>5, <3>6 DEF Next, ModalMoves
  <2> QED
    BY <1>2, <2>1, <2>2
<1> QED
  BY <1>1, <1>2, Inductive, PTL DEF Spec

\* Until an answer takes the mission off the page or puts another on it, or the wizard is
\* confirmed twice at once, a page pays a mission with that mission's intent and, unless a
\* page that was left creates a mission, tops up the mission it shows, whatever the order
\* of clicks, polls, late answers and failures (useMission.ts createMission(), confirmPayment(), topUp()).
THEOREM ClientPaysItsMission == Spec => []PaysItsMission
<1>1. Settled /\ Aligned => PaysItsMission
  BY DEF Settled, Steady, Aligned, AllAligned, TopsAligned, PaysItsMission
<1> QED
  BY <1>1, Inductive, AlignedAlways, PTL
=============================================================================
