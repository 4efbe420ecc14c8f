----------------------------- MODULE StudioDelivery -----------------------------
(***************************************************************************)
(* Workflow Studio: a domain event enters an outbox in the transaction     *)
(* that emits it, sweeps of studio-outbox.job claim it under a five-minute *)
(* lease, and executeAndRecord runs every active workflow frozen into it,  *)
(* fenced by a sixty-second claim on the run.  Operators cancel runs,      *)
(* review runs and retry dead deliveries while this goes on.               *)
(*                                                                         *)
(* A worker is one sweep in progress: two instances of the API, or a sweep *)
(* that outlasts the 30-second period, make two.  It is cut at every       *)
(* transaction.  Lease and worker tokens are fresh UUIDs; a worker that is *)
(* in one sweep at a time is told apart from the others by its name alone. *)
(*                                                                         *)
(* Time: Tick moves the clock of every run by one unit, in which claims,   *)
(* the time limit and the review age are measured.  The lease and the      *)
(* back-off end whenever they like (LeaseExpires), so also under a live    *)
(* worker.  Entitlement is read where `active` is: losing it is pausing    *)
(* every workflow.  Trigger and condition nodes are nodes with no effect.  *)
(***************************************************************************)
EXTENDS Integers

CONSTANTS
    Events,       \* domain events whose type triggers workflows
    Workflows,    \* workflow_studio_apps of the tenant
    Targeted,     \* workflows narrowed to particular shipments, this one included
    Workers,      \* sweeps that may be in progress at once
    Nodes,        \* number of nodes of each workflow
    MaxFailures,  \* failed attempts before the one that makes a delivery dead: 7
    Claim,        \* ticks a worker claim lasts: 60 s
    TimeLimit,    \* STUDIO_EXECUTION_LIMITS.durationMs, in ticks: 5 min
    ReviewAfter,  \* age at which a RUNNING run may be reviewed, in ticks: 30 min
    NoWorker      \* no lease

ASSUME StudioConstants ==
    /\ Targeted \subseteq Workflows
    /\ {Nodes, Claim, TimeLimit} \subseteq Nat \ {0}
    /\ MaxFailures \in Nat
    /\ ReviewAfter \in Nat
    /\ ReviewAfter >= TimeLimit + 5 * (Claim - 1)
    /\ NoWorker \notin Workers

Runs == Events \X Workflows

VARIABLES
    active,       \* workflows whose status is ACTIVE
    delivery,     \* studio_event_outbox.status, "none" before the row exists
    attempts,     \* its attempts, counted up to MaxFailures + 1
    lease,        \* its lease_id
    due,          \* deliveries whose available_at has passed
    snapshot,     \* workflow_snapshots, frozen when the event was emitted
    interrupted,  \* history: workflows not active at some time since then
    status,       \* workflow_studio_runs.status, "none" before the row exists
    token,        \* worker_token
    ttl,          \* ticks to worker_expires_at
    age,          \* ticks since created_at, counted up to ReviewAfter
    cancelled,    \* runs with a cancellation
    reviewed,     \* runs with a reconciliation
    executed,     \* history: nodes that were executed, <<run, node>>
    repeated,     \* history: nodes that were executed more than once
    pc,           \* where each sweep is
    event,        \* the delivery it has claimed
    todo,         \* the workflows it has still to run
    run,          \* the run it is executing
    node,         \* the node it is at
    nodeFailed,   \* workers whose executeWorkflow has set `failed`
    failed        \* workers whose deliverStudioEvent has set `deliveryFailed`

outboxVars == <<delivery, attempts, lease, due, snapshot, interrupted>>
claimVars  == <<status, token, ttl, age>>
effectVars == <<executed, repeated>>
runVars    == <<claimVars, cancelled, reviewed, effectVars>>
execVars   == <<run, node, nodeFailed>>
sweepVars  == <<pc, event, todo, failed, execVars>>
vars == <<active, outboxVars, runVars, sweepVars>>

DeliveryStatus == {"none", "pending", "processing", "delivered", "dead"}
RunStatus == {"none", "RUNNING", "SUCCESS", "FAILED"}  \* FAILED is PARTIAL too
Finished  == {"SUCCESS", "FAILED"}
SweepPc   == {"idle", "select", "next", "begin", "node", "authorise",
              "acting", "checkpoint", "finish", "settle"}

Init ==
    /\ active      = Workflows
    /\ delivery    = [e \in Events |-> "none"]
    /\ attempts    = [e \in Events |-> 0]
    /\ lease       = [e \in Events |-> NoWorker]
    /\ due         = {}
    /\ snapshot    = [e \in Events |-> {}]
    /\ interrupted = [e \in Events |-> {}]
    /\ status      = [x \in Runs |-> "none"]
    /\ token       = [x \in Runs |-> NoWorker]
    /\ ttl         = [x \in Runs |-> 0]
    /\ age         = [x \in Runs |-> 0]
    /\ cancelled   = {}
    /\ reviewed    = {}
    /\ executed    = {}
    /\ repeated    = {}
    /\ pc          = [p \in Workers |-> "idle"]
    /\ event       \in [Workers -> Events]
    /\ todo        = [p \in Workers |-> {}]
    /\ run         \in [Workers -> Runs]
    /\ node        = [p \in Workers |-> 1]
    /\ nodeFailed  = {}
    /\ failed      = {}

\* A counter that nothing tells apart beyond its bound stops there.
UpTo(bound, n) == IF n < bound THEN n ELSE bound

Goto(p, at) == pc' = [pc EXCEPT ![p] = at]

\* The local variables of a sweep go out of scope.
SweepEnds(p) ==
    /\ Goto(p, "idle")
    /\ todo' = [todo EXCEPT ![p] = {}]
    /\ failed' = failed \ {p}
    /\ node' = [node EXCEPT ![p] = 1]
    /\ nodeFailed' = nodeFailed \ {p}
    /\ UNCHANGED <<event, run>>
--------------------------------------------------------------------------------
(* The tenant: workflows are paused and resumed, events are emitted        *)

Pause(w) ==
    /\ w \in active
    /\ active' = active \ {w}
    /\ interrupted' = [e \in Events |-> IF delivery[e] = "none"
                                        THEN {} ELSE interrupted[e] \cup {w}]
    /\ UNCHANGED <<delivery, attempts, lease, due, snapshot, runVars, sweepVars>>

Resume(w) ==
    /\ w \notin active
    /\ active' = active \cup {w}
    /\ UNCHANGED <<outboxVars, runVars, sweepVars>>

\* The event, its outbox row and the frozen graphs commit with the mutation
\* they are about.
Emit(e) ==
    /\ delivery[e] = "none"
    /\ delivery' = [delivery EXCEPT ![e] = "pending"]
    /\ due' = due \cup {e}
    /\ snapshot' = [snapshot EXCEPT ![e] = active]
    /\ UNCHANGED <<active, attempts, lease, interrupted, runVars, sweepVars>>
--------------------------------------------------------------------------------
(* The sweep: claim a delivery and choose the workflows                    *)

\* A mutated Due: a delivery whose sweep died is never claimed again.
DueIfPending(e) == delivery[e] = "pending" /\ e \in due

Due(e) == delivery[e] \in {"pending", "processing"} /\ e \in due

\* FOR UPDATE SKIP LOCKED; the stale list of due ids is checked again here.
ClaimDelivery(p, e) ==
    /\ pc[p] = "idle"
    /\ Due(e)
    /\ delivery' = [delivery EXCEPT ![e] = "processing"]
    /\ lease' = [lease EXCEPT ![e] = p]
    /\ attempts' = [attempts EXCEPT ![e] = UpTo(MaxFailures + 1, @ + 1)]
    /\ due' = due \ {e}
    /\ event' = [event EXCEPT ![p] = e]
    /\ failed' = failed \ {p}
    /\ Goto(p, "select")
    /\ UNCHANGED <<active, snapshot, interrupted, runVars, todo, execVars>>

\* The frozen workflows that are still active.
Runnable(e) == snapshot[e] \cap active

\* deliverStudioEvent reads the active workflows, and the shipment when one of
\* them is targeted; a failed read of the shipment skips the targeted ones.
SelectWorkflows(p) ==
    /\ pc[p] = "select"
    /\ \/ \E skipped \in {{}, Targeted} :
             /\ todo' = [todo EXCEPT ![p] = Runnable(event[p]) \ skipped]
             /\ Goto(p, "next")
             /\ UNCHANGED failed
       \/ /\ failed' = failed \cup {p}  \* the read throws
          /\ Goto(p, "settle")
          /\ UNCHANGED todo
    /\ UNCHANGED <<active, outboxVars, runVars, event, execVars>>

\* A mutated NewRun: no unique index on (workflow_id, domain_event_id).
NewRunAlways(x) == TRUE

NewRun(x) == status[x] = "none"

RunOf(p, w) == <<event[p], w>>

\* INSERT ... ON CONFLICT DO NOTHING RETURNING id.
InsertRun(p, x) ==
    /\ NewRun(x)
    /\ status' = [status EXCEPT ![x] = "RUNNING"]
    /\ token' = [token EXCEPT ![x] = p]
    /\ ttl' = [ttl EXCEPT ![x] = Claim]
    /\ age' = [age EXCEPT ![x] = 0]

NextWorkflow(p, w) ==
    /\ pc[p] = "next"
    /\ w \in todo[p]
    /\ todo' = [todo EXCEPT ![p] = @ \ {w}]
    /\ UNCHANGED <<active, outboxVars, cancelled, reviewed, effectVars, event>>

StartRun(p, w) ==
    /\ NextWorkflow(p, w)
    /\ InsertRun(p, RunOf(p, w))
    /\ run' = [run EXCEPT ![p] = RunOf(p, w)]
    /\ node' = [node EXCEPT ![p] = 1]
    /\ nodeFailed' = nodeFailed \ {p}
    /\ Goto(p, "begin")
    /\ UNCHANGED failed

\* A redelivered event: the workflow has its run already.
RunExists(p, w) ==
    /\ NextWorkflow(p, w)
    /\ ~NewRun(RunOf(p, w))
    /\ UNCHANGED <<claimVars, pc, failed, execVars>>

\* The insert throws before or after its commit; executeAndRecord throws, and
\* the other workflows still get their turn.
InsertFails(p, w) ==
    /\ NextWorkflow(p, w)
    /\ failed' = failed \cup {p}
    /\ UNCHANGED <<claimVars, pc, execVars>>

InsertUnacknowledged(p, w) ==
    /\ NextWorkflow(p, w)
    /\ InsertRun(p, RunOf(p, w))
    /\ failed' = failed \cup {p}
    /\ UNCHANGED <<pc, execVars>>

AllTried(p) ==
    /\ pc[p] = "next"
    /\ todo[p] = {}
    /\ Goto(p, "settle")
    /\ UNCHANGED <<active, outboxVars, runVars, event, todo, failed, execVars>>
--------------------------------------------------------------------------------
(* executeAndRecord and executeWorkflow, under the worker claim            *)

\* A mutated ClaimHeld: worker_expires_at is not in the WHERE clause.
ClaimHeldUnfenced(p) == status[run[p]] = "RUNNING" /\ token[run[p]] = p

\* The WHERE clause of guardedUpdate and of the final update.
ClaimHeld(p) ==
    /\ status[run[p]] = "RUNNING"
    /\ token[run[p]] = p
    /\ ttl[run[p]] > 0

RenewClaim(p) == ttl' = [ttl EXCEPT ![run[p]] = Claim]

\* executeAndRecord throws; the sweep goes on with the next workflow.
LoseRun(p) ==
    /\ Goto(p, "next")
    /\ failed' = failed \cup {p}

\* The graph is validated and the context loaded; a failure is a FAILED result.
BeginRun(p) ==
    /\ pc[p] = "begin"
    /\ \/ /\ Goto(p, "node")
          /\ UNCHANGED nodeFailed
       \/ /\ Goto(p, "finish")
          /\ nodeFailed' = nodeFailed \cup {p}
    /\ UNCHANGED <<active, outboxVars, runVars, event, todo, failed, run, node>>

\* What beforeStep and checkBoundary look at.
MayStep(p) == run[p] \notin cancelled /\ age[run[p]] < TimeLimit

FailNode(p) ==
    /\ nodeFailed' = nodeFailed \cup {p}
    /\ Goto(p, "checkpoint")

\* The header of a forEach fails outside runNode, so without a checkpoint.
FailLoop(p) ==
    /\ nodeFailed' = nodeFailed \cup {p}
    /\ Goto(p, "finish")

\* beforeStep, the limits and the checks of the node.  A trigger or condition
\* node, and the header of a forEach, have nothing to execute; an action node
\* looks at the row once more.
BeforeStep(p) ==
    /\ pc[p] = "node"
    /\ \/ /\ ClaimHeld(p)
          /\ RenewClaim(p)
          /\ \/ /\ MayStep(p)
                /\ Goto(p, "authorise") \/ Goto(p, "checkpoint")
                /\ UNCHANGED nodeFailed
             \/ FailNode(p)  \* cancelled, out of time, or the node is invalid
             \/ FailLoop(p)
       \/ /\ FailNode(p) \/ FailLoop(p)  \* the claim is lost or the update throws
          /\ UNCHANGED ttl
    /\ UNCHANGED <<active, outboxVars, status, token, age, cancelled, reviewed,
                   effectVars, event, todo, failed, run, node>>

\* A mutated MayAct: beforeAction does not look at the cancellation.
MayActAlways(p) == TRUE

MayAct(p) == run[p] \notin cancelled

\* beforeAction: a guarded update that returns the cancellation.
BeforeAction(p) ==
    /\ pc[p] = "authorise"
    /\ \/ /\ ClaimHeld(p)
          /\ RenewClaim(p)
          /\ \/ MayAct(p) /\ Goto(p, "acting") /\ UNCHANGED nodeFailed
             \/ ~MayAct(p) /\ FailNode(p)
       \/ FailNode(p) /\ UNCHANGED ttl
    /\ UNCHANGED <<active, outboxVars, status, token, age, cancelled, reviewed,
                   effectVars, event, todo, failed, run, node>>

\* action.execute: its effect takes place, and it may still report a failure.
Execute(p) ==
    /\ pc[p] = "acting"
    /\ executed' = executed \cup {<<run[p], node[p]>>}
    /\ repeated' = repeated \cup ({<<run[p], node[p]>>} \cap executed)
    /\ nodeFailed' \in {nodeFailed, nodeFailed \cup {p}}
    /\ Goto(p, "checkpoint")
    /\ UNCHANGED <<active, outboxVars, claimVars, cancelled, reviewed,
                   event, todo, failed, run, node>>

\* The checkpoint in the finally block.  A failed node, the last node, and a
\* condition that does not match end the run; a failed checkpoint escapes.
Checkpoint(p) ==
    /\ pc[p] = "checkpoint"
    /\ \/ /\ ClaimHeld(p)
          /\ RenewClaim(p)
          /\ \/ /\ p \notin nodeFailed /\ node[p] < Nodes
                /\ node' = [node EXCEPT ![p] = @ + 1]
                /\ Goto(p, "node")
             \/ /\ Goto(p, "finish")
                /\ UNCHANGED node
          /\ UNCHANGED failed
       \/ /\ LoseRun(p)
          /\ UNCHANGED <<ttl, node>>
    /\ UNCHANGED <<active, outboxVars, status, token, age, cancelled, reviewed,
                   effectVars, event, todo, run, nodeFailed>>

\* The final update, under the same guard.  Its acknowledgement may be lost.
FinishRun(p) ==
    /\ pc[p] = "finish"
    /\ \/ /\ ClaimHeld(p)
          /\ status' = [status EXCEPT ![run[p]] =
                           IF p \in nodeFailed THEN "FAILED" ELSE "SUCCESS"]
          /\ ttl' = [ttl EXCEPT ![run[p]] = 0]
          /\ \/ Goto(p, "next") /\ UNCHANGED failed
             \/ LoseRun(p)
       \/ /\ LoseRun(p)
          /\ UNCHANGED <<status, ttl>>
    /\ UNCHANGED <<active, outboxVars, token, age, cancelled, reviewed,
                   effectVars, event, todo, execVars>>
--------------------------------------------------------------------------------
(* The end of a sweep, crashes and time                                    *)

\* A mutated LeaseHeld: WHERE lease_id = lease is left out.
LeaseHeldByAny(p) == TRUE

LeaseHeld(p) == lease[event[p]] = p

\* Mutated Outcomes: a failed run is not a failed delivery; the status 'failed'
\* of the other outboxes, which the CHECK of migration 592 does not know.
OutcomeIgnoringFailure(p) == "delivered"
OutcomeFailed(p) == IF p \in failed THEN "failed" ELSE "delivered"

\* claimed.row.attempts >= 7 is compared before the claim's own increment; as
\* long as the lease is held attempts has not moved on.
Outcome(p) ==
    CASE p \notin failed                        -> "delivered"
      [] attempts[event[p]] > MaxFailures  -> "dead"
      [] OTHER                             -> "pending"

Settle(p) ==
    LET e == event[p] IN
    /\ pc[p] = "settle"
    /\ \/ /\ LeaseHeld(p)
          /\ delivery' = [delivery EXCEPT ![e] = Outcome(p)]
          /\ lease' = [lease EXCEPT ![e] = NoWorker]
          /\ due' = due \ {e}
       \/ /\ ~LeaseHeld(p)
          /\ UNCHANGED <<delivery, lease, due>>
    /\ SweepEnds(p)
    /\ UNCHANGED <<active, attempts, snapshot, interrupted, runVars>>

\* The process dies, or a statement of the sweep outside every try throws.
Crash(p) ==
    /\ pc[p] # "idle"
    /\ SweepEnds(p)
    /\ UNCHANGED <<active, outboxVars, runVars>>

\* available_at passes: the back-off of a pending delivery, or the lease.
LeaseExpires(e) ==
    /\ delivery[e] \in {"pending", "processing"}
    /\ e \notin due
    /\ due' = due \cup {e}
    /\ UNCHANGED <<active, delivery, attempts, lease, snapshot, interrupted,
                   runVars, sweepVars>>

Tick ==
    /\ \E x \in Runs : status[x] = "RUNNING" /\ age[x] < ReviewAfter
    /\ age' = [x \in Runs |-> IF status[x] = "RUNNING"
                              THEN UpTo(ReviewAfter, age[x] + 1) ELSE age[x]]
    /\ ttl' = [x \in Runs |-> IF ttl[x] > 0 THEN ttl[x] - 1 ELSE 0]
    /\ UNCHANGED <<active, outboxVars, status, token, cancelled, reviewed,
                   effectVars, sweepVars>>
--------------------------------------------------------------------------------
(* The operator                                                            *)

Cancel(x) ==
    /\ status[x] = "RUNNING"
    /\ x \notin cancelled
    /\ cancelled' = cancelled \cup {x}
    /\ UNCHANGED <<active, outboxVars, claimVars, reviewed, effectVars, sweepVars>>

\* A mutated Reviewable: a RUNNING run may be reviewed while its worker lives.
ReviewableAnyTime(x) == status[x] \in {"RUNNING", "FAILED"}

Reviewable(x) ==
    \/ status[x] = "FAILED"
    \/ status[x] = "RUNNING" /\ age[x] >= ReviewAfter

Reconcile(x) ==
    /\ x \notin reviewed
    /\ Reviewable(x)
    /\ reviewed' = reviewed \cup {x}
    /\ UNCHANGED <<active, outboxVars, claimVars, cancelled, effectVars, sweepVars>>

\* Runs of the event whose effects nobody can vouch for.
Uncertain(e) ==
    {w \in Workflows : \/ status[<<e, w>>] = "RUNNING"
                       \/ status[<<e, w>>] = "FAILED" /\ <<e, w>> \notin reviewed}

Retry(e) ==
    /\ delivery[e] = "dead"
    /\ Uncertain(e) = {}
    /\ delivery' = [delivery EXCEPT ![e] = "pending"]
    /\ attempts' = [attempts EXCEPT ![e] = 0]
    /\ due' = due \cup {e}
    /\ lease' = [lease EXCEPT ![e] = NoWorker]
    /\ UNCHANGED <<active, snapshot, interrupted, runVars, sweepVars>>
--------------------------------------------------------------------------------
RunStep(p) ==
    \/ BeginRun(p) \/ BeforeStep(p) \/ BeforeAction(p) \/ Execute(p)
    \/ Checkpoint(p) \/ FinishRun(p)

TryWorkflow(p, w) ==
    \/ StartRun(p, w) \/ RunExists(p, w)
    \/ InsertFails(p, w) \/ InsertUnacknowledged(p, w)

SweepStep(p) ==
    \/ SelectWorkflows(p) \/ AllTried(p) \/ RunStep(p) \/ Settle(p)
    \/ \E w \in Workflows : TryWorkflow(p, w)

Next ==
    \/ \E w \in Workflows : Pause(w) \/ Resume(w)
    \/ \E e \in Events : Emit(e) \/ LeaseExpires(e) \/ Retry(e)
    \/ \E p \in Workers, e \in Events : ClaimDelivery(p, e)
    \/ \E p \in Workers : SweepStep(p) \/ Crash(p)
    \/ \E x \in Runs : Cancel(x) \/ Reconcile(x)
    \/ Tick

Spec == Init /\ [][Next]_vars

\* The sweep runs every 30 seconds; a sweep in progress goes on; time passes.
Fairness ==
    /\ \A p \in Workers : WF_vars(SweepStep(p))
    /\ WF_vars(\E p \in Workers, e \in Events : ClaimDelivery(p, e))
    /\ \A e \in Events : WF_vars(LeaseExpires(e))

FairSpec == Spec /\ Fairness
--------------------------------------------------------------------------------
OutboxType ==
    /\ active \subseteq Workflows
    /\ delivery \in [Events -> DeliveryStatus]
    /\ attempts \in [Events -> 0..(MaxFailures + 1)]
    /\ lease \in [Events -> Workers \cup {NoWorker}]
    /\ due \subseteq Events
    /\ snapshot \in [Events -> SUBSET Workflows]
    /\ interrupted \in [Events -> SUBSET Workflows]

RunType ==
    /\ status \in [Runs -> RunStatus]
    /\ token \in [Runs -> Workers \cup {NoWorker}]
    /\ ttl \in [Runs -> 0..Claim]
    /\ age \in [Runs -> 0..ReviewAfter]
    /\ cancelled \subseteq Runs
    /\ reviewed \subseteq Runs
    /\ executed \subseteq Runs \X (1..Nodes)
    /\ repeated \subseteq executed

SweepType ==
    /\ pc \in [Workers -> SweepPc]
    /\ event \in [Workers -> Events]
    /\ todo \in [Workers -> SUBSET Workflows]
    /\ run \in [Workers -> Runs]
    /\ node \in [Workers -> 1..Nodes]
    /\ nodeFailed \subseteq Workers
    /\ failed \subseteq Workers

TypeOK == OutboxType /\ RunType /\ SweepType

\* No node of a workflow is executed twice for one event, whatever sweeps
\* overlap, leases expire, processes die and operators retry.
EffectOnce == repeated = {}

StayedActive(e) == snapshot[e] \ (Targeted \cup interrupted[e])

\* A delivered event has a run for every frozen workflow that stayed active
\* and is not targeted: no failure or crash in between makes one go missing.
DeliveredIsComplete ==
    \A e \in Events : delivery[e] = "delivered" =>
        \A w \in StayedActive(e) : status[<<e, w>>] # "none"

\* Once a cancellation is committed no further node of the run begins.
CancelStopsRun ==
    [][\A p \in Workers : run[p] \in cancelled =>
          ~(pc[p] # "acting" /\ pc'[p] = "acting")]_vars

\* A review speaks of a run that is over: from then on its record does not
\* change and no further node of it begins, though its worker may be alive.
ReviewedIsOver ==
    [][\A x \in reviewed :
          /\ status'[x] = status[x]
          /\ \A p \in Workers :
                run[p] = x => ~(pc[p] # "acting" /\ pc'[p] = "acting")]_vars

\* A sweep that lost its lease cannot undo what a later one settled: delivered
\* is final, and dead is left only through an operator's retry.
SettledDelivery ==
    [][\A e \in Events :
          /\ delivery[e] = "delivered" => delivery'[e] = "delivered"
          /\ delivery[e] = "dead" /\ delivery'[e] # "dead" => attempts'[e] = 0]_vars

\* If processes stop dying and leases stop expiring under live sweeps, every
\* emitted event is delivered or declared dead.
Live(e) == lease[e] # NoWorker /\ pc[lease[e]] # "idle" /\ event[lease[e]] = e

Fault ==
    \/ \E p \in Workers : Crash(p)
    \/ \E e \in Events : Live(e) /\ LeaseExpires(e)

EventuallySettled ==
    <>[][~Fault]_vars =>
        \A e \in Events : delivery[e] = "pending" ~> delivery[e] \in {"delivered", "dead"}

\* studio.subscribers.ts: the targeting context is null only when the event's
\* entity is not a shipment of the tenant -- so an event about a shipment that
\* a targeted workflow matches is not delivered without a run of it.
TargetedIsDelivered ==
    \A e \in Events : delivery[e] = "delivered" =>
        \A w \in snapshot[e] \ interrupted[e] : status[<<e, w>>] # "none"
--------------------------------------------------------------------------------
(* The parts of the inductive invariant that are not properties above      *)

Executing == {"begin", "node", "authorise", "acting", "checkpoint", "finish"}

\* A sweep executes a run that it inserted itself, so no two execute the same.
RunOwner ==
    \A p \in Workers : pc[p] \in Executing =>
        token[run[p]] = p /\ status[run[p]] # "none"

\* A run has executed no node that its worker has yet to reach.
NodesAhead ==
    /\ \A x \in Runs, n \in 1..Nodes :
          <<x, n>> \in executed => status[x] # "none"
    /\ \A p \in Workers, n \in 1..Nodes :
          /\ pc[p] \in {"begin", "node", "authorise", "acting"}
             /\ <<run[p], n>> \in executed => n < node[p]
          /\ pc[p] = "checkpoint"
             /\ <<run[p], n>> \in executed => n <= node[p]

\* How old a run can be when the claim its worker holds ends: each guarded
\* update buys one more claim, and the time limit stops new nodes.
LastAge(p) ==
    CASE pc[p] = "begin" -> Claim
      [] pc[p] = "node" -> TimeLimit + 3 * (Claim - 1)
      [] pc[p] = "authorise" -> TimeLimit + Claim - 1
      [] pc[p] = "acting" -> TimeLimit + 2 * (Claim - 1)
      [] pc[p] = "checkpoint" /\ p \notin nodeFailed -> TimeLimit + 2 * (Claim - 1)
      [] pc[p] = "checkpoint" /\ p \in nodeFailed -> TimeLimit + 4 * (Claim - 1)
      [] OTHER -> TimeLimit + 5 * (Claim - 1)

ClaimInTime ==
    \A p \in Workers : pc[p] \in Executing /\ ttl[run[p]] > 0 =>
        age[run[p]] + ttl[run[p]] <= LastAge(p)

\* A reviewed run has failed, or is past the age at which its worker can act.
ReviewedAge ==
    \A x \in reviewed : \/ status[x] = "FAILED"
                        \/ status[x] = "RUNNING" /\ age[x] >= ReviewAfter

\* A lease is held on a delivery in processing, and a sweep that has seen no
\* failure has started, or has still to start, every workflow that is due.
LeasedIsProcessing ==
    \A e \in Events : lease[e] # NoWorker => delivery[e] = "processing"

NothingSkipped ==
    /\ \A e \in Events : delivery[e] # "none" => StayedActive(e) \subseteq active
    /\ \A p \in Workers :
          /\ pc[p] # "idle" => delivery[event[p]] # "none"
          /\ pc[p] = "settle" => p \in failed \/ todo[p] = {}
          /\ pc[p] \notin {"idle", "select"} /\ p \notin failed =>
                \A w \in StayedActive(event[p]) \ todo[p] :
                    status[<<event[p], w>>] # "none"

IndInv ==
    /\ TypeOK
    /\ EffectOnce
    /\ DeliveredIsComplete
    /\ RunOwner
    /\ NodesAhead
    /\ ClaimInTime
    /\ ReviewedAge
    /\ LeasedIsProcessing
    /\ NothingSkipped
================================================================================
