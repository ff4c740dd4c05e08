---------------------------- MODULE PrintDelivery ---------------------------
(***************************************************************************)
(* Print jobs on their way to the printer agents: PrintJobsService and the *)
(* part of the gateway that talks to agents.  A job is saved QUEUED, sent  *)
(* once, marked PRINTING when the agent acknowledges it and COMPLETED or   *)
(* FAILED when the agent says so; a job that was not acknowledged stays    *)
(* QUEUED and is sent again when its agent connects.  The agent and its    *)
(* persistent queue are external.                                          *)
(***************************************************************************)
EXTENDS PrintRouting

CONSTANTS
  Agents,       \* printer agent devices
  AgentOf,      \* printers.device_id, or None
  Serves,       \* the printers in the configuration of each agent
  Flows,        \* the configurations considered
  ManualUse,    \* bound: the printers somebody prints to by hand
  ReplayLimit,  \* take: 50 of getQueuedJobsForDevice
  MaxAttempts,  \* MAX_RETRY_ATTEMPTS
  MaxJobs,      \* bound: tickets printed in all
  MaxUpsets     \* bound: lost connections, late acknowledgements, restarts and
                \* retries and cancels by hand

ASSUME PrintAssumption ==
  /\ None \notin Printers \cup Stations \cup Agents
  /\ AgentOf \in [Printers -> Agents \cup {None}]
  /\ Serves \in [Agents -> SUBSET Printers]
  /\ Flows \subseteq Flow
  /\ ManualUse \subseteq Printers
  /\ \A f \in Flows : Lines(f) \subseteq LineIds
  /\ {ReplayLimit, MaxAttempts, MaxJobs, MaxUpsets} \subseteq Nat

VARIABLES
  flow,     \* the configuration in force
  jobs,     \* table print_jobs, in the order of created_at
  begun,    \* handlers that were called
  handlers, \* tickets a handler has left and the job it saved but did not send
  admin,    \* a retry or a cancel in progress
  link,     \* the connection of every agent
  wire,     \* messages between the gateway and the agents
  shelf,    \* what every agent knows of every job
  upsets

vars == <<flow, jobs, begun, handlers, admin, link, wire, shelf, upsets>>

JobIds == 1 .. MaxJobs

JobStatus == {"queued", "printing", "completed", "failed"}

Job == [ticket : Ticket, status : JobStatus, attempts : 0 .. MaxAttempts]

\* handleOrderCreated, handlePaymentReceived, PrintJobsService.create
Handlers == {"created", "paid", "manual"}

NoJob == 0
Quiet == [left |-> <<>>, saved |-> NoJob]
Idle == [op |-> "none"]

AgentMessages == {"ack", "completed", "failed"}

Message == [agent : Agents, job : JobIds, is : {"job", "broadcast"} \cup AgentMessages]

TypeOK ==
  /\ flow \in Flows
  /\ jobs \in Seq(Job)
  /\ begun \subseteq Handlers
  /\ handlers \in [Handlers -> [left : Seq(Ticket), saved : DOMAIN jobs \cup {NoJob}]]
  /\ admin \in {Idle}
       \cup [op : {"retry", "cancel"}, job : DOMAIN jobs, attempts : 0 .. MaxAttempts]
       \cup [op : {"resend"}, job : DOMAIN jobs]
  /\ link \in [Agents -> {"off", "joined", "on"}]
  /\ wire \subseteq Message
  /\ shelf \in [Agents -> [JobIds -> {"unknown", "waiting", "printed", "failed"}]]
  /\ upsets \in 0 .. MaxUpsets

Init ==
  /\ flow \in Flows
  /\ jobs = <<>>
  /\ begun = {}
  /\ handlers = [h \in Handlers |-> Quiet]
  /\ admin = Idle
  /\ link = [a \in Agents |-> "off"]
  /\ wire = {}
  /\ shelf = [a \in Agents |-> [j \in JobIds |-> "unknown"]]
  /\ upsets = 0

AgentFor(j) == AgentOf[jobs[j].ticket.printer]

InRoom(a) == link[a] # "off"

Upset == upsets < MaxUpsets /\ upsets' = upsets + 1

Msg(a, j, is) == [agent |-> a, job |-> j, is |-> is]

SetStatus(j, status) == jobs' = [jobs EXCEPT ![j].status = status]

-----------------------------------------------------------------------------
(* Creating jobs                                                           *)

\* The tickets that are still to be saved.
TicketsLeft ==
  Len(handlers["created"].left) + Len(handlers["paid"].left) + Len(handlers["manual"].left)

Begin(h, tickets) ==
  /\ h \notin begun /\ tickets # <<>>
  /\ Len(jobs) + TicketsLeft + Len(tickets) <= MaxJobs
  /\ begun' = begun \cup {h}
  /\ handlers' = [handlers EXCEPT ![h].left = tickets]
  /\ UNCHANGED <<flow, jobs, admin, link, wire, shelf, upsets>>

OrderCreated == Begin("created", CreatedTickets(flow))

PaymentReceived == "created" \in begun /\ Begin("paid", PaidTickets(flow))

CreateManually ==
  \E p \in ManualUse :
    Begin("manual", <<[kind |-> "manual", printer |-> p, lines |-> {}]>>)

\* A handler creates its jobs one after the other.
Creating(h) == handlers[h].left # <<>> /\ handlers[h].saved = NoJob

SaveJob(h) ==
  /\ Creating(h)
  /\ LET ticket == Head(handlers[h].left)
     IN /\ ticket.printer \in flow.active
        /\ jobs' = Append(jobs, [ticket |-> ticket, status |-> "queued", attempts |-> 0])
        /\ handlers' = [handlers EXCEPT
             ![h] = [left |-> Tail(handlers[h].left), saved |-> Len(jobs) + 1]]
  /\ UNCHANGED <<flow, begun, admin, link, wire, shelf, upsets>>

\* A printer that is switched off makes createFromWorkflow throw, which ends the
\* handler.
AbortPrinting(h) ==
  /\ Creating(h)
  /\ Head(handlers[h].left).printer \notin flow.active
  /\ handlers' = [handlers EXCEPT ![h] = Quiet]
  /\ UNCHANGED <<flow, jobs, begun, admin, link, wire, shelf, upsets>>

\* sendPrintJobToAgent: to the room of the agent, where somebody may be or not,
\* or without an agent to everybody.
Delivery(j) ==
  IF AgentFor(j) = None THEN {Msg(a, j, "broadcast") : a \in {b \in Agents : InRoom(b)}}
  ELSE {Msg(a, j, "job") : a \in {b \in {AgentFor(j)} : InRoom(b)}}

Dispatch(h) ==
  /\ handlers[h].saved # NoJob
  /\ wire' = wire \cup Delivery(handlers[h].saved)
  /\ handlers' = [handlers EXCEPT ![h].saved = NoJob]
  /\ UNCHANGED <<flow, jobs, begun, admin, link, shelf, upsets>>

-----------------------------------------------------------------------------
(* Retrying and cancelling: the job is read, checked, changed and saved    *)

\* save() of the entity that was read.
SaveEntity(j, status, attempts) ==
  jobs' = [jobs EXCEPT ![j].status = status, ![j].attempts = attempts]

Retryable(job) == job.status = "failed" /\ job.attempts < MaxAttempts
Cancellable(job) == job.status # "completed"

ReadJob(op, j) ==
  /\ admin = Idle /\ Upset
  /\ IF op = "retry" THEN Retryable(jobs[j]) ELSE Cancellable(jobs[j])
  /\ admin' = [op |-> op, job |-> j, attempts |-> jobs[j].attempts]
  /\ UNCHANGED <<flow, jobs, begun, handlers, link, wire, shelf>>

SaveRetry ==
  /\ admin.op = "retry"
  /\ SaveEntity(admin.job, "queued", admin.attempts + 1)
  /\ admin' = [op |-> "resend", job |-> admin.job]
  /\ UNCHANGED <<flow, begun, handlers, link, wire, shelf, upsets>>

Resend ==
  /\ admin.op = "resend"
  /\ wire' = wire \cup Delivery(admin.job)
  /\ admin' = Idle
  /\ UNCHANGED <<flow, jobs, begun, handlers, link, shelf, upsets>>

SaveCancel ==
  /\ admin.op = "cancel"
  /\ SaveEntity(admin.job, "failed", admin.attempts)
  /\ admin' = Idle
  /\ UNCHANGED <<flow, begun, handlers, link, wire, shelf, upsets>>

-----------------------------------------------------------------------------
(* Answers of the agents                                                   *)

AlwaysPrinting(job) == [job EXCEPT !.status = "printing"]

\* markJobPrinting, a guarded UPDATE.
MarkedPrinting(job) ==
  IF job.status = "queued" THEN [job EXCEPT !.status = "printing"] ELSE job

ReceiveAck(m) ==
  /\ m.is = "ack"
  /\ jobs' = [jobs EXCEPT ![m.job] = MarkedPrinting(@)]
  /\ wire' = wire \ {m}
  /\ UNCHANGED <<flow, begun, handlers, admin, link, shelf, upsets>>

\* updateJobStatus, not guarded.
ReceiveOutcome(m) ==
  /\ m.is \in {"completed", "failed"}
  /\ SetStatus(m.job, m.is)
  /\ wire' = wire \ {m}
  /\ UNCHANGED <<flow, begun, handlers, admin, link, shelf, upsets>>

-----------------------------------------------------------------------------
(* Connections                                                             *)

\* handleConnection joins the rooms before it reads what is to be replayed.
Join(a) ==
  /\ link[a] = "off"
  /\ link' = [link EXCEPT ![a] = "joined"]
  /\ UNCHANGED <<flow, jobs, begun, handlers, admin, wire, shelf, upsets>>

JobsOf(a, status) == {j \in DOMAIN jobs : AgentFor(j) = a /\ jobs[j].status = status}

\* One job less than the limit.
FewerOldest(due) == {j \in due : Cardinality({i \in due : i <= j}) < ReplayLimit}

\* getQueuedJobsForDevice: the oldest ones.
Oldest(due) == {j \in due : Cardinality({i \in due : i <= j}) <= ReplayLimit}

\* stale: the jobs that have been PRINTING for two minutes.  What changes between
\* the query and the sending makes no difference: the agent gets the same job.
Replay(a) ==
  /\ link[a] = "joined"
  /\ \E stale \in SUBSET JobsOf(a, "printing") :
       wire' = wire \cup {Msg(a, j, "job") : j \in Oldest(JobsOf(a, "queued") \cup stale)}
  /\ link' = [link EXCEPT ![a] = "on"]
  /\ UNCHANGED <<flow, jobs, begun, handlers, admin, shelf, upsets>>

\* Answers that have reached the server may still be handled.
Disconnect(a) ==
  /\ InRoom(a) /\ Upset
  /\ link' = [link EXCEPT ![a] = "off"]
  /\ \E kept \in SUBSET {m \in wire : m.agent = a /\ m.is \in AgentMessages} :
       wire' = {m \in wire : m.agent # a} \cup kept
  /\ UNCHANGED <<flow, jobs, begun, handlers, admin, shelf>>

\* An acknowledgement after the ten seconds of the gateway.
AckTooLate(m) ==
  /\ m.is = "ack" /\ Upset
  /\ wire' = wire \ {m}
  /\ UNCHANGED <<flow, jobs, begun, handlers, admin, link, shelf>>

\* The API stops and starts again.
Restart ==
  /\ Upset
  /\ handlers' = [h \in Handlers |-> Quiet]
  /\ admin' = Idle
  /\ link' = [a \in Agents |-> "off"]
  /\ wire' = {}
  /\ UNCHANGED <<flow, jobs, begun, shelf>>

-----------------------------------------------------------------------------
(* The agent: a job it has queued or printed is not queued again, a failed *)
(* one is.                                                                 *)

Queue(a, j) ==
  shelf' = [shelf EXCEPT ![a][j] = IF @ \in {"unknown", "failed"} THEN "waiting" ELSE @]

Accept(m) ==
  /\ m.is = "job"
  /\ Queue(m.agent, m.job)
  /\ wire' = (wire \ {m}) \cup {Msg(m.agent, m.job, "ack")}
  /\ UNCHANGED <<flow, jobs, begun, handlers, admin, link, upsets>>

AcceptBroadcast(m) ==
  /\ m.is = "broadcast"
  /\ IF jobs[m.job].ticket.printer \in Serves[m.agent] THEN Queue(m.agent, m.job)
     ELSE UNCHANGED shelf
  /\ wire' = wire \ {m}
  /\ UNCHANGED <<flow, jobs, begun, handlers, admin, link, upsets>>

\* The outcome gets lost if the agent is not connected.
PrintJob(a, j) ==
  /\ shelf[a][j] = "waiting"
  /\ \E outcome \in {"completed", "failed"} :
       /\ shelf' = [shelf EXCEPT ![a][j] =
            IF outcome = "completed" THEN "printed" ELSE "failed"]
       /\ wire' = IF InRoom(a) THEN wire \cup {Msg(a, j, outcome)} ELSE wire
  /\ UNCHANGED <<flow, jobs, begun, handlers, admin, link, upsets>>

-----------------------------------------------------------------------------
Printing == \E h \in Handlers : SaveJob(h) \/ AbortPrinting(h) \/ Dispatch(h)

Administration == SaveRetry \/ Resend \/ SaveCancel

Answers == \E m \in wire : ReceiveAck(m) \/ ReceiveOutcome(m)

Agent(a) ==
  \/ Join(a) \/ Replay(a)
  \/ \E m \in wire : m.agent = a /\ (Accept(m) \/ AcceptBroadcast(m))

Requests ==
  \/ OrderCreated \/ PaymentReceived \/ CreateManually
  \/ \E j \in DOMAIN jobs, op \in {"retry", "cancel"} : ReadJob(op, j)

Faults ==
  \/ \E a \in Agents : Disconnect(a)
  \/ \E m \in wire : AckTooLate(m)
  \/ Restart

Next ==
  \/ Printing \/ Administration \/ Answers \/ Requests \/ Faults
  \/ \E a \in Agents : Agent(a) \/ \E j \in JobIds : PrintJob(a, j)

Spec == Init /\ [][Next]_vars

\* The API goes on with what it began, and an agent keeps connecting and takes
\* what it is sent.
FairSpec ==
  /\ Spec
  /\ WF_vars(Printing) /\ WF_vars(Administration)
  /\ \A a \in Agents : WF_vars(Agent(a))

-----------------------------------------------------------------------------
(* What is checked.                                                        *)

Pending(j) ==
  \/ \E h \in Handlers : handlers[h].saved = j
  \/ admin.op = "resend" /\ admin.job = j

\* Nothing is forgotten: a job still QUEUED whose agent is connected and has got
\* its replay is about to be sent, is on its way, or the agent has it, or the
\* agent's failure is on its way back.
NothingForgotten ==
  \A j \in DOMAIN jobs :
    LET a == AgentFor(j)
    IN jobs[j].status = "queued" /\ a # None /\ link[a] = "on" =>
         \/ Pending(j)
         \/ Msg(a, j, "job") \in wire
         \/ shelf[a][j] \in {"waiting", "printed"}
         \/ Msg(a, j, "failed") \in wire

\* Each cook gets only his own lines, and none of them on a second ticket: one routing
\* of the order puts no line on two kitchen tickets, whatever the mode, and a ticket
\* that is split by line or by station shows the lines of one station and comes out
\* where that station prints (createFromWorkflow).  A line may be on no ticket, when
\* nobody prints for it; and what OrdersService.create prints at the stations beside
\* this routing is not part of it.
LinesReachTheirStation ==
  LET Kitchen == {n \in DOMAIN jobs : jobs[n].ticket.kind = "kitchen"}
  IN  /\ \A i, j \in Kitchen : i # j => jobs[i].ticket.lines \cap jobs[j].ticket.lines = {}
      /\ flow.mode # "per_order" =>
           \A n \in Kitchen :
             LET t == jobs[n].ticket
             IN  /\ Cardinality({flow.lines[i] : i \in t.lines}) = 1
                 /\ \A i \in t.lines :
                      StationPrinter(flow, i) # None => t.printer = StationPrinter(flow, i)

\* A late acknowledgement never takes back an outcome ("Guarded so a late ack
\* can never regress a job that already completed or failed").
LateAckNeverRegresses ==
  [][\A j \in DOMAIN jobs :
       jobs[j].status \in {"completed", "failed"} => jobs'[j].status # "printing"]_vars

\* Jobs are delivered in the end, whatever was lost on the way: none stays QUEUED
\* without its agent knowing of it once the orders and the upsets are over.
QueuedIsDelivered ==
  []<>(\A j \in DOMAIN jobs :
         jobs[j].status = "queued" /\ AgentFor(j) # None =>
           shelf[AgentFor(j)][j] # "unknown")
=============================================================================
