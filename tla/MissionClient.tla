------------------------------ MODULE MissionClient ------------------------------
(***************************************************************************)
(* The app in API mode (frontend/src): useMission() of the page on screen  *)
(* - its mission, the load when it mounts, its polling - and that of the   *)
(* top-up modal over it, with the handlers of MissionSetupPage,            *)
(* ActiveMissionPage and TopUpModal and the mission id ApiMissionService   *)
(* keeps in localStorage.                                                  *)
(*                                                                         *)
(* One tab. The answers to fetch() come in any order or fail, and what a   *)
(* handler does after an await it does with the mission of the render that *)
(* called it. The server is Mission's, one request at a time, and of a     *)
(* mission it keeps what the pages decide on: paid, status, and whether    *)
(* esimStatus is "paused". A page that is left goes on with its handlers,  *)
(* but what they set is nowhere to be seen.                                *)
(***************************************************************************)
EXTENDS Naturals

CONSTANTS
  Missions,   \* the ids the server may give
  None,
  Jobs,       \* bound: handlers under way
  Polls,      \* bound: polls under way
  MaxOps,     \* bound: clicks and navigations
  MaxFaults   \* bound: fetches that fail

ASSUME ClientAssumption == None \notin Missions /\ MaxOps \in Nat /\ MaxFaults \in Nat

VARIABLES
  server,   \* per mission, its record
  saved,    \* localStorage: astroam_mission_id
  page,     \* the page on screen
  view,     \* its useMission(): the mission it shows
  caps,     \*   the capabilities have come
  load,     \*   loadBackendState()
  aside,    \* loads under way of which only a failure matters: the badge's of the header, those
            \* of pages and modals that were left
  modal,    \* TopUpModal: closed, where its own load is, its mission
  polls,    \*   its polls under way
  intent,   \* MissionSetupPage: the mission its payment intent was created for
  jobs,     \* the handlers under way
  paidFor,  \* history: <<mission of the intent, mission it was confirmed on>>
  toppedUp, \* history: <<mission on the page, mission that was topped up>>
  late,     \* history: a mission was created by a page that had been left
  crossed,  \* history: an answer took a mission off the page or another's place on it, or two were
            \*   created at once
  ops, faults

counts == <<ops, faults>>
history == <<paidFor, toppedUp, late, crossed>>
loads == <<load, aside, modal>>
vars == <<server, saved, page, view, caps, loads, polls, intent, jobs, history, counts>>

Ids == Missions \cup {None}
Absent == [paid |-> FALSE, status |-> "none", cut |-> FALSE]
Records == [paid : BOOLEAN, cut : BOOLEAN,
            status : {"none", "pending", "paid", "active", "paused", "completed"}]
NoView == [m |-> None, rec |-> Absent]
Closed == [pc |-> "off", m |-> None]
Off == [pc |-> "off", m |-> None, rec |-> Absent]
NoJob == [op |-> "none", pc |-> "off", m |-> None, i |-> None, rec |-> Absent, live |-> FALSE]
Clicks == {"create", "confirm", "toggle", "finish", "traffic", "topup"}

TypeOK ==
  /\ server \in [Missions -> Records] /\ saved \in Ids /\ intent \in Ids
  /\ page \in {"landing", "setup", "esim", "active"} /\ caps \in BOOLEAN
  /\ view \in [m : Ids, rec : Records]
  /\ load \in [pc : {"off", "caps", "ask", "read", "error"}, m : Ids, rec : Records]
  /\ aside \in BOOLEAN
  /\ modal \in [pc : {"off", "caps", "ask", "ready", "none"}, m : Ids]
  /\ polls \in [Polls -> [pc : {"off", "ask", "read"}, m : Ids, rec : Records]]
  /\ jobs \in [Jobs -> [op : Clicks \cup {"none", "activate"}, live : BOOLEAN,
                        pc : {"off", "post", "intent", "ask", "read"},
                        m : Ids, i : Ids, rec : Records]]
  /\ paidFor \subseteq Missions \X Missions /\ toppedUp \subseteq Missions \X Missions
  /\ late \in BOOLEAN /\ crossed \in BOOLEAN
  /\ ops \in 0..MaxOps /\ faults \in 0..MaxFaults

\* A browser that has had no mission, or one that an earlier visit left as it is.
Init ==
  /\ \E m \in Missions :
       \/ saved = None /\ server = [n \in Missions |-> Absent]
       \/ /\ saved = m
          /\ \E s \in {"active", "completed"} :
               server = [[n \in Missions |-> Absent] EXCEPT ![m] = [paid |-> TRUE, status |-> s, cut |-> FALSE]]
  /\ page = "landing" /\ view = NoView /\ caps = FALSE /\ load = Off /\ aside = TRUE /\ modal = Closed
  /\ polls = [p \in Polls |-> Off] /\ intent = None /\ jobs = [j \in Jobs |-> NoJob]
  /\ paidFor = {} /\ toppedUp = {} /\ late = FALSE /\ crossed = FALSE /\ ops = 0 /\ faults = 0

Fault == faults < MaxFaults /\ faults' = faults + 1
\* setMission() of an answer. With its first mission a page gets its header, whose badge loads.
Shows(m, rec) ==
  /\ view' = [m |-> m, rec |-> rec] /\ aside' = (aside \/ (view.m = None /\ page # "setup"))
  /\ crossed' = (crossed \/ view.m \notin {None, m})

Click == ops < MaxOps /\ ops' = ops + 1 /\ UNCHANGED faults
\* actionLoading; simulate() does not set it.
Busy == \E j \in Jobs : jobs[j].live /\ jobs[j].op \in {"toggle", "finish"}

----------------------------------------------------------------------------
(* Pages *)

\* The page that is left unmounts, with its modal, and the new one loads.
Mounts(p) ==
  /\ page' = p /\ view' = NoView /\ caps' = FALSE /\ intent' = None
  /\ load' = IF p = "landing" THEN Off ELSE [Off EXCEPT !.pc = "caps"]
  /\ aside' = (aside \/ load.pc \in {"caps", "ask", "read"} \/ modal.pc \in {"caps", "ask"}
                    \/ p \in {"landing", "setup"})
  /\ modal' = Closed
  /\ polls' = [q \in Polls |-> Off]
  /\ jobs' = [j \in Jobs |-> [jobs[j] EXCEPT !.live = FALSE]]

Navigates(p) ==
  /\ p # page /\ Mounts(p) /\ Click
  /\ UNCHANGED <<server, saved, history>>

\* The dashboard sends away who has no mission once it has loaded.
Redirects ==
  /\ page = "active" /\ view.m = None /\ load.pc \in {"off", "error"} /\ Mounts("setup")
  /\ UNCHANGED <<server, saved, history, counts>>

\* handleReset(): CERRAR SESION forgets the mission and goes to the landing page.
Resets ==
  /\ page = "active" /\ view.rec.status = "completed"
  /\ saved' = None /\ Mounts("landing") /\ Click
  /\ UNCHANGED <<server, history>>

----------------------------------------------------------------------------
(* loadBackendState() of the page *)

LoadCaps ==
  /\ load.pc = "caps" /\ caps' = TRUE
  /\ load' = IF saved = None THEN Off ELSE [Off EXCEPT !.pc = "ask", !.m = saved]
  /\ UNCHANGED <<server, saved, page, view, aside, modal, polls, intent, jobs, history, counts>>

LoadUnavailable ==
  /\ load.pc = "caps" /\ load' = [Off EXCEPT !.pc = "error"] /\ Fault
  /\ UNCHANGED <<server, saved, page, view, caps, aside, modal, polls, intent, jobs, history, ops>>

\* REINTENTAR CONEXION, on the setup page.
Retries ==
  /\ load.pc = "error" /\ page = "setup" /\ load' = [Off EXCEPT !.pc = "caps"] /\ Click
  /\ UNCHANGED <<server, saved, page, view, caps, aside, modal, polls, intent, jobs, history>>

LoadReads ==
  /\ load.pc = "ask" /\ load' = [load EXCEPT !.pc = "read", !.rec = server[load.m]]
  /\ UNCHANGED <<server, saved, page, view, caps, aside, modal, polls, intent, jobs, history, counts>>

LoadArrives ==
  /\ load.pc = "read" /\ load' = Off /\ Shows(load.m, load.rec)
  /\ UNCHANGED <<server, saved, page, caps, modal, polls, intent, jobs, paidFor, toppedUp, late, counts>>

\* "Saved mission not found on server": whatever getMission() failed of, and whatever
\* localStorage holds by now.
LoadFails ==
  /\ load.pc \in {"ask", "read"} /\ load' = Off
  /\ saved' = None /\ view' = NoView /\ crossed' = (crossed \/ view.m # None) /\ Fault
  /\ UNCHANGED <<server, page, caps, aside, modal, polls, intent, jobs, paidFor, toppedUp, late, ops>>

\* ... of the badge's load too, and of one that was left, when it fails by now.
AsideFails ==
  /\ aside /\ aside' = FALSE /\ saved' = None /\ Fault
  /\ UNCHANGED <<server, page, view, caps, load, modal, polls, intent, jobs, history, ops>>

----------------------------------------------------------------------------
(* The modal: a useMission() of its own, with the mission saved when it loads *)

Opens ==
  /\ page = "active" /\ view.m # None /\ view.rec.status # "completed" /\ ~Busy
  /\ modal.pc = "off" /\ modal' = [Closed EXCEPT !.pc = "caps"] /\ Click
  /\ UNCHANGED <<server, saved, page, view, caps, load, aside, polls, intent, jobs, history>>

\* By a click on its cross, or once the top-up is confirmed.
Closes ==
  /\ modal.pc # "off" /\ modal' = Closed /\ aside' = (aside \/ modal.pc \in {"caps", "ask"})
  /\ UNCHANGED <<server, saved, page, view, caps, load, polls, intent, jobs, history, counts>>

ModalAsks ==
  /\ modal.pc = "caps"
  /\ modal' = IF saved = None THEN [modal EXCEPT !.pc = "none"] ELSE [pc |-> "ask", m |-> saved]
  /\ UNCHANGED <<server, saved, page, view, caps, load, aside, polls, intent, jobs, history, counts>>

ModalLoads ==
  /\ modal.pc = "ask" /\ modal' = [modal EXCEPT !.pc = "ready"]
  /\ UNCHANGED <<server, saved, page, view, caps, load, aside, polls, intent, jobs, history, counts>>

\* Without capabilities there is no mission to top up; without an answer none is saved either.
ModalFails ==
  /\ modal.pc \in {"caps", "ask"} /\ modal' = [Closed EXCEPT !.pc = "none"] /\ Fault
  /\ saved' = IF modal.pc = "ask" THEN None ELSE saved
  /\ UNCHANGED <<server, page, view, caps, load, aside, polls, intent, jobs, history, ops>>

----------------------------------------------------------------------------
(* Polling *)

\* Mutant: "Polling in API Mode when mission is active".
PollAsksActive(p) ==
  /\ view.m # None /\ view.rec.status = "active" /\ polls[p].pc = "off"
  /\ polls' = [polls EXCEPT ![p] = [Off EXCEPT !.pc = "ask", !.m = view.m]]
  /\ UNCHANGED <<server, saved, page, view, caps, loads, intent, jobs, history, counts>>

\* Eight seconds on, whatever the status; the poll before may still be under way.
PollAsks(p) ==
  /\ view.m # None /\ polls[p].pc = "off"
  /\ polls' = [polls EXCEPT ![p] = [Off EXCEPT !.pc = "ask", !.m = view.m]]
  /\ UNCHANGED <<server, saved, page, view, caps, loads, intent, jobs, history, counts>>

PollReads(p) ==
  /\ polls[p].pc = "ask"
  /\ polls' = [polls EXCEPT ![p].pc = "read", ![p].rec = server[polls[p].m]]
  /\ UNCHANGED <<server, saved, page, view, caps, loads, intent, jobs, history, counts>>

\* The answer is shown, whatever the page shows by now.
PollArrives(p) ==
  /\ polls[p].pc = "read" /\ Shows(polls[p].m, polls[p].rec)
  /\ polls' = [polls EXCEPT ![p] = Off]
  /\ UNCHANGED <<server, saved, page, caps, load, modal, intent, jobs, paidFor, toppedUp, late, counts>>

PollFails(p) ==
  /\ polls[p].pc # "off" /\ polls' = [polls EXCEPT ![p] = Off] /\ Fault
  /\ UNCHANGED <<server, saved, page, view, caps, loads, intent, jobs, history, ops>>

----------------------------------------------------------------------------
(* Clicks *)

\* Which buttons the page offers.
Offers(op) ==
  \/ op = "create" /\ page = "setup" /\ caps /\ intent = None
  \/ op = "confirm" /\ page = "setup" /\ intent # None /\ view.m # None
       /\ ~\E j \in Jobs : jobs[j].live /\ jobs[j].op \in {"confirm", "activate"}
  \/ op = "topup" /\ modal.pc = "ready"
  \/ /\ page = "active" /\ view.m # None /\ view.rec.status # "completed" /\ ~Busy /\ modal.pc = "off"
     /\ \/ op \in {"toggle", "finish"}
        \/ op = "traffic" /\ ~view.rec.cut /\ view.rec.status # "paused"

\* The handler begins, with the mission of this render; the modal's has its own, and what
\* it sets is its own. What it pays is for the mission of the intent, or the one on the page.
Clicked(j, op) ==
  /\ jobs[j] = NoJob /\ Offers(op) /\ Click
  /\ jobs' = [jobs EXCEPT ![j] = [op |-> op, pc |-> "post", rec |-> view.rec,
                                  i |-> IF op = "topup" THEN view.m ELSE intent,
                                  m |-> IF op = "topup" THEN modal.m ELSE view.m,
                                  live |-> op # "topup"]]
  /\ crossed' = (crossed \/ (op = "create" /\ \E k \in Jobs : jobs[k].op = "create"))
  /\ UNCHANGED <<server, saved, page, view, caps, loads, polls, intent, paidFor, toppedUp, late>>

----------------------------------------------------------------------------
(* Handlers *)

\* Mutant: the id is read from "missionId", where activateMission() has it.
CreatedMissionId(j) ==
  /\ jobs[j].op = "create" /\ jobs[j].pc = "post"
  /\ \E m \in Missions :
       /\ server[m] = Absent /\ server' = [server EXCEPT ![m] = [Absent EXCEPT !.status = "pending"]]
       /\ saved' = "undefined" /\ jobs' = [jobs EXCEPT ![j].pc = "intent", ![j].m = m]
       /\ view' = IF jobs[j].live THEN [m |-> m, rec |-> [Absent EXCEPT !.status = "pending"]] ELSE view
  /\ late' = (late \/ ~jobs[j].live)
  /\ UNCHANGED <<page, caps, loads, polls, intent, paidFor, toppedUp, crossed, counts>>

\* Mutant: createPaymentIntent() takes the mission of the render, not its "target".
CreatedAside(j) ==
  /\ jobs[j].op = "create" /\ jobs[j].pc = "post"
  /\ \E m \in Missions :
       /\ server[m] = Absent /\ server' = [server EXCEPT ![m] = [Absent EXCEPT !.status = "pending"]]
       /\ saved' = m /\ jobs' = [jobs EXCEPT ![j].pc = "intent"]
       /\ view' = IF jobs[j].live THEN [m |-> m, rec |-> [Absent EXCEPT !.status = "pending"]] ELSE view
  /\ late' = (late \/ ~jobs[j].live)
  /\ UNCHANGED <<page, caps, loads, polls, intent, paidFor, toppedUp, crossed, counts>>

\* createMission(): the id goes to localStorage, the mission on the page.
Created(j) ==
  /\ jobs[j].op = "create" /\ jobs[j].pc = "post"
  /\ \E m \in Missions :
       /\ server[m] = Absent /\ server' = [server EXCEPT ![m] = [Absent EXCEPT !.status = "pending"]]
       /\ saved' = m /\ jobs' = [jobs EXCEPT ![j].pc = "intent", ![j].m = m]
       /\ view' = IF jobs[j].live THEN [m |-> m, rec |-> [Absent EXCEPT !.status = "pending"]] ELSE view
  /\ late' = (late \/ ~jobs[j].live)
  /\ UNCHANGED <<page, caps, loads, polls, intent, paidFor, toppedUp, crossed, counts>>

\* createPaymentIntent(created)
IntentArrives(j) ==
  /\ jobs[j].pc = "intent" /\ jobs' = [jobs EXCEPT ![j] = NoJob]
  /\ intent' = IF jobs[j].live THEN jobs[j].m ELSE intent
  /\ UNCHANGED <<server, saved, page, view, caps, loads, polls, history, counts>>

\* confirmPayment(): of a mission that is paid nothing is validated again.
Confirmed(j) ==
  /\ jobs[j].op = "confirm" /\ jobs[j].pc = "post"
  /\ jobs' = [jobs EXCEPT ![j].pc = "ask"]
  /\ IF server[jobs[j].m].paid THEN UNCHANGED <<server, paidFor>>
     ELSE /\ server' = [server EXCEPT ![jobs[j].m].paid = TRUE, ![jobs[j].m].status = "paid"]
          /\ paidFor' = paidFor \cup {<<jobs[j].i, jobs[j].m>>}
  /\ UNCHANGED <<saved, page, view, caps, loads, polls, intent, toppedUp, late, crossed, counts>>

\* What the server makes of the other requests; others it refuses.
Effect(op, r, shown) ==
  CASE op = "activate" /\ r.paid -> {[r EXCEPT !.status = "active", !.cut = FALSE]}
    [] op = "toggle" -> {IF shown.cut THEN [r EXCEPT !.status = "active", !.cut = FALSE]
                                      ELSE [r EXCEPT !.status = "paused", !.cut = TRUE]}
    [] op = "finish" -> {[r EXCEPT !.status = "completed", !.cut = FALSE]}
    [] op = "traffic" /\ r.status = "active" /\ ~r.cut -> {r, [r EXCEPT !.status = "paused", !.cut = TRUE]}
    [] op = "topup" -> {IF r.status = "paused" THEN [r EXCEPT !.status = "active", !.cut = FALSE] ELSE r}
    [] OTHER -> {}

\* The page asks again for the mission once the server has answered; what the modal asks for
\* again nobody is shown.
Posted(j) ==
  /\ jobs[j].op \in {"activate", "toggle", "finish", "traffic", "topup"} /\ jobs[j].pc = "post"
  /\ \E r \in Effect(jobs[j].op, server[jobs[j].m], jobs[j].rec) : server' = [server EXCEPT ![jobs[j].m] = r]
  /\ jobs' = [jobs EXCEPT ![j] = IF @.op = "topup" THEN NoJob ELSE [@ EXCEPT !.pc = "ask"]]
  /\ toppedUp' = IF jobs[j].op = "topup" THEN toppedUp \cup {<<jobs[j].i, jobs[j].m>>} ELSE toppedUp
  /\ UNCHANGED <<saved, page, view, caps, loads, polls, intent, paidFor, late, crossed, counts>>

Refused(j) ==
  /\ jobs[j].op \in {"activate", "traffic"} /\ jobs[j].pc = "post"
  /\ Effect(jobs[j].op, server[jobs[j].m], jobs[j].rec) = {}
  /\ jobs' = [jobs EXCEPT ![j] = NoJob]
  /\ UNCHANGED <<server, saved, page, view, caps, loads, polls, intent, history, counts>>

Fetches(j) ==
  /\ jobs[j].pc = "ask" /\ jobs' = [jobs EXCEPT ![j].pc = "read", ![j].rec = server[jobs[j].m]]
  /\ UNCHANGED <<server, saved, page, view, caps, loads, polls, intent, history, counts>>

\* The record is shown; after a confirmation the same handler activates the mission.
Fetched(j) ==
  /\ jobs[j].pc = "read"
  /\ IF jobs[j].live THEN Shows(jobs[j].m, jobs[j].rec) ELSE UNCHANGED <<view, crossed, aside>>
  /\ IF jobs[j].op = "confirm"
     THEN /\ jobs' = [jobs EXCEPT ![j].op = "activate", ![j].pc = "post"]
          /\ intent' = IF jobs[j].live THEN None ELSE intent
     ELSE jobs' = [jobs EXCEPT ![j] = NoJob] /\ UNCHANGED intent
  /\ UNCHANGED <<server, saved, page, caps, load, modal, polls, paidFor, toppedUp, late, counts>>

\* A fetch fails before the server or after it: the handler ends with an error.
Fails(j) ==
  /\ jobs[j].pc # "off" /\ jobs' = [jobs EXCEPT ![j] = NoJob] /\ Fault
  /\ UNCHANGED <<server, saved, page, view, caps, loads, polls, intent, history, ops>>

Loads == LoadCaps \/ LoadReads \/ LoadArrives
Steps(j) == Created(j) \/ IntentArrives(j) \/ Confirmed(j) \/ Posted(j) \/ Refused(j) \/ Fetches(j) \/ Fetched(j)

Next ==
  \/ Redirects \/ Resets \/ Retries \/ Loads \/ LoadUnavailable \/ LoadFails \/ AsideFails
  \/ Opens \/ Closes \/ ModalAsks \/ ModalLoads \/ ModalFails
  \/ \E p \in {"landing", "setup", "esim", "active"} : Navigates(p)
  \/ \E p \in Polls : PollAsks(p) \/ PollReads(p) \/ PollArrives(p) \/ PollFails(p)
  \/ \E j \in Jobs : Steps(j) \/ Fails(j) \/ \E op \in Clicks : Clicked(j, op)

Spec == Init /\ [][Next]_vars

\* The interval of a page that stays, and fetches that are answered.
Fairness ==
  /\ WF_vars(Loads)
  /\ \A p \in Polls : WF_vars(PollAsks(p)) /\ WF_vars(PollReads(p)) /\ WF_vars(PollArrives(p))
  /\ \A j \in Jobs : WF_vars(Steps(j))

FairSpec == Spec /\ Fairness

----------------------------------------------------------------------------
(* Properties *)

\* A payment is confirmed on the mission its intent was created for, and a top-up made on
\* the mission the page shows, through retries, failed loads, pages left and entered again
\* and a saved id that is lost: until an answer that comes late takes the mission off the
\* page or puts another one on it, the wizard is confirmed twice at once or, for the
\* top-up, a page that was left creates a mission (createPaymentIntent() is given the
\* mission created, confirmPayment() takes the page's, and the modal the saved one).
PaysItsMission ==
  ~crossed => /\ \A paid \in paidFor : paid[1] = paid[2]
              /\ ~late => \A top \in toppedUp : top[1] = top[2]

\* Once the user stops, the page shows its mission as the server has it, however late the
\* answers to polls, loads and handlers came and whatever was done in the modal.
Converges == <>[](view.m # None => view.rec = server[view.m])
=============================================================================
