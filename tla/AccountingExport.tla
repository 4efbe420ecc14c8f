---------------------------- MODULE AccountingExport ----------------------------
(***************************************************************************)
(* The export of invoices, bills and payments to one accounting provider.  *)
(* The transaction that issues a document queues a task for the connected  *)
(* organisation; sweeps claim due tasks, check their destination, and send *)
(* the document in one transaction that holds the advisory lock of the     *)
(* provider around the POST.  That transaction's log row is the only       *)
(* evidence of the outcome: it is lost when the process dies or the commit *)
(* fails after the provider has answered.                                  *)
(*                                                                         *)
(* An exporter is one call of processAccountingSyncTask; overlapping       *)
(* sweeps, or two instances of the API, make several.  It is cut at every  *)
(* transaction and around the POST.  Time is a set: a task is ripe when    *)
(* next_attempt_at has come, or when its RUNNING claim is five minutes old *)
(* -- which may be under a live exporter.                                  *)
(***************************************************************************)
EXTENDS Integers

CONSTANTS
    Documents,     \* invoices and bills
    Payments,      \* their payments
    PaidDocument,  \* the document each payment is for
    Unsupported,   \* kinds the provider's adapter does not export
    Reviewable,    \* kinds reconcileXeroInvoice reads back
    Orgs,          \* organisations of the provider
    NoOrg,         \* not connected, or connection.status = ERROR
    Exporters,     \* calls of processAccountingSyncTask in progress
    NoTask,        \* an idle exporter has none
    Nobody,        \* the advisory lock is free
    ExportAttempts \* attempts before a failed preflight is final: 5

Entities == Documents \cup Payments
Tasks    == Entities \X Orgs

ASSUME ExportConstants ==
    /\ PaidDocument \in [Payments -> Documents]
    /\ Documents \cap Payments = {}
    /\ NoOrg \notin Orgs
    /\ NoTask \notin Tasks
    /\ Nobody \notin Exporters
    /\ ExportAttempts \in Nat \ {0}

VARIABLES
    connection,  \* the organisation connected now
    task,        \* finance_accounting_outbox.status, "none" before the row exists
    tries,       \* its attempts
    ripe,        \* tasks whose waiting time is over
    log,         \* kinds of accounting_sync_logs rows of each entity
    lock,        \* holder of the accounting-sync advisory lock
    at,          \* where each exporter is
    mine,        \* the task it has claimed
    claim,       \* attempts as its claim returned them
    dest,        \* the organisation its access token belongs to
    verdict,     \* the log row it is about to commit, or the status to settle
    posts,       \* history: POSTs of each task, counted up to 2
    accepted     \* history: what the provider holds, <<entity, organisation>>

rowVars      == <<task, tries, ripe>>
exporterVars == <<at, mine, claim, dest, verdict>>
worldVars    == <<posts, accepted>>
exportVars   == <<connection, rowVars, log, lock, exporterVars, worldVars>>

TaskStatus == {"none", "PENDING", "RUNNING", "RETRY", "RECONCILE", "FAILED", "SUCCESS"}
LogKind    == {"success", "unknown", "failed"}  \* unknown: RECONCILIATION_REQUIRED
ExporterAt == {"idle", "check", "source", "wait", "post", "commit", "read", "settle"}

ExportInit ==
    /\ connection = NoOrg
    /\ task     = [t \in Tasks |-> "none"]
    /\ tries    = [t \in Tasks |-> 0]
    /\ ripe     = {}
    /\ log      = [e \in Entities |-> {}]
    /\ lock     = Nobody
    /\ at       = [w \in Exporters |-> "idle"]
    /\ mine     = [w \in Exporters |-> NoTask]
    /\ claim    = [w \in Exporters |-> 0]
    /\ dest     = [w \in Exporters |-> NoOrg]
    /\ verdict  = [w \in Exporters |-> "none"]
    /\ posts    = [t \in Tasks |-> 0]
    /\ accepted = {}

Entity(t) == t[1]
Org(t)    == t[2]

Step(w, to) == at' = [at EXCEPT ![w] = to]

Released(w) == IF lock = w THEN Nobody ELSE lock

\* The call is over, and its local variables with it.
Return(w) ==
    /\ Step(w, "idle")
    /\ mine' = [mine EXCEPT ![w] = NoTask]
    /\ claim' = [claim EXCEPT ![w] = 0]
    /\ dest' = [dest EXCEPT ![w] = NoOrg]
    /\ verdict' = [verdict EXCEPT ![w] = "none"]
--------------------------------------------------------------------------------
(* The workspace: a connection comes and goes, documents are issued        *)

Connect(o) ==
    /\ connection = NoOrg
    /\ connection' = o
    /\ UNCHANGED <<rowVars, log, lock, exporterVars, worldVars>>

Disconnect ==
    /\ connection # NoOrg
    /\ connection' = NoOrg
    /\ UNCHANGED <<rowVars, log, lock, exporterVars, worldVars>>

\* On conflict do nothing: one row for an entity and an organisation.
EnqueueAccountingSync(e) ==
    /\ connection # NoOrg
    /\ LET t == <<e, connection>> IN
          /\ task[t] = "none"
          /\ task' = [task EXCEPT ![t] = "PENDING"]
          /\ ripe' = ripe \cup {t}
    /\ UNCHANGED <<connection, tries, log, lock, exporterVars, worldVars>>
--------------------------------------------------------------------------------
(* The claim                                                               *)

TimePasses(t) ==
    /\ task[t] \in {"PENDING", "RETRY", "RUNNING"}
    /\ t \notin ripe
    /\ ripe' = ripe \cup {t}
    /\ UNCHANGED <<connection, task, tries, log, lock, exporterVars, worldVars>>

ClaimTask(w, t) ==
    /\ at[w] = "idle"
    /\ task[t] \in {"PENDING", "RETRY"}
    /\ t \in ripe
    /\ task' = [task EXCEPT ![t] = "RUNNING"]
    /\ tries' = [tries EXCEPT ![t] = @ + 1]
    /\ ripe' = ripe \ {t}
    /\ mine' = [mine EXCEPT ![w] = t]
    /\ claim' = [claim EXCEPT ![w] = tries[t] + 1]
    /\ Step(w, "check")
    /\ UNCHANGED <<connection, log, lock, dest, verdict, worldVars>>

\* A mutated ExpiredStatus: what was not confirmed is sent again.
ExpiredStatusRetries(e) == IF "success" \in log[e] THEN "SUCCESS" ELSE "RETRY"

ExpiredStatus(e) == IF "success" \in log[e] THEN "SUCCESS" ELSE "RECONCILE"

\* A mutated Expired: the last attempt is left alone.
ExpiredWithAttempts(t) == task[t] = "RUNNING" /\ t \in ripe /\ tries[t] < ExportAttempts

\* A RUNNING row whose claim is five minutes old might have reached the
\* provider before the process stopped.
Expired(t) == task[t] = "RUNNING" /\ t \in ripe

ExpireClaim(t) ==
    /\ Expired(t)
    /\ task' = [task EXCEPT ![t] = ExpiredStatus(Entity(t))]
    /\ UNCHANGED <<connection, tries, ripe, log, lock, exporterVars, worldVars>>
--------------------------------------------------------------------------------
(* The delivery                                                            *)

CheckDestination(w) ==
    /\ at[w] = "check"
    /\ \/ /\ connection = Org(mine[w])
          /\ Step(w, "source")
          /\ UNCHANGED verdict
       \/ \* another organisation, no Core Finance, or a query that failed
          /\ Step(w, "settle")
          /\ verdict' = [verdict EXCEPT ![w] = "RECONCILE"]
    /\ UNCHANGED <<connection, rowVars, log, lock, mine, claim, dest, worldVars>>

\* syncInvoice returns without a word when nothing is connected any more.
ReadSource(w) ==
    /\ at[w] = "source"
    /\ Step(w, IF connection = NoOrg THEN "read" ELSE "wait")
    /\ UNCHANGED <<connection, rowVars, log, lock, mine, claim, dest, verdict, worldVars>>

AlreadySynced(e) == log[e] \cap {"success", "unknown"} # {}

\* A mutated Preflight: a payment does not wait for its document.
PreflightOfDocuments(e) == e \notin Unsupported /\ connection # NoOrg

\* What is checked before the provider is written to.
Preflight(e) ==
    /\ e \notin Unsupported
    /\ e \in Payments => "success" \in log[PaidDocument[e]]
    /\ connection # NoOrg

SkipSynced(w) ==
    /\ at[w] = "wait"
    /\ lock = Nobody
    /\ AlreadySynced(Entity(mine[w]))
    /\ Step(w, "read")
    /\ UNCHANGED <<connection, rowVars, log, lock, mine, claim, dest, verdict, worldVars>>

\* A preflight fails, or the token refresh does: the refusal of a refresh puts
\* the connection in error.
FailPreflight(w) ==
    /\ at[w] = "wait"
    /\ lock = Nobody
    /\ ~AlreadySynced(Entity(mine[w]))
    /\ log' = [log EXCEPT ![Entity(mine[w])] = @ \cup {"failed"}]
    /\ connection' \in IF Preflight(Entity(mine[w])) THEN {connection, NoOrg}
                                                     ELSE {connection}
    /\ Step(w, "read")
    /\ UNCHANGED <<rowVars, lock, mine, claim, dest, verdict, worldVars>>

TakeLock(w) ==
    /\ at[w] = "wait"
    /\ lock = Nobody
    /\ ~AlreadySynced(Entity(mine[w]))
    /\ Preflight(Entity(mine[w]))
    /\ lock' = w
    /\ dest' = [dest EXCEPT ![w] = connection]
    /\ Step(w, "post")
    /\ UNCHANGED <<connection, rowVars, log, mine, claim, verdict, worldVars>>

\* The POST: accepted and answered, accepted without a usable answer (a
\* timeout, no document id), or not accepted.
Post(w) ==
    /\ at[w] = "post"
    /\ \E answer \in {"success", "unknown"}, there \in BOOLEAN :
          /\ answer = "success" => there
          /\ verdict' = [verdict EXCEPT ![w] = answer]
          /\ accepted' = IF there THEN accepted \cup {<<Entity(mine[w]), dest[w]>>}
                                  ELSE accepted
    /\ posts' = [posts EXCEPT ![mine[w]] = IF @ = 0 THEN 1 ELSE 2]
    /\ Step(w, "commit")
    /\ UNCHANGED <<connection, rowVars, log, lock, mine, claim, dest>>

CommitLog(w) ==
    /\ at[w] = "commit"
    /\ log' = [log EXCEPT ![Entity(mine[w])] = @ \cup {verdict[w]}]
    /\ lock' = Released(w)
    /\ dest' = [dest EXCEPT ![w] = NoOrg]
    /\ verdict' = [verdict EXCEPT ![w] = "none"]
    /\ Step(w, "read")
    /\ UNCHANGED <<connection, rowVars, mine, claim, worldVars>>

\* The transaction around the POST fails to commit: its log row is gone.
SyncThrows(w) ==
    /\ at[w] \in {"source", "wait", "post", "commit", "read"}
    /\ lock' = Released(w)
    /\ verdict' = [verdict EXCEPT ![w] = "RECONCILE"]
    /\ dest' = [dest EXCEPT ![w] = NoOrg]
    /\ Step(w, "settle")
    /\ UNCHANGED <<connection, rowVars, log, mine, claim, worldVars>>

\* A mutated Outcome: what the log says goes into the row as it is.
OutcomeAsLogged(w) ==
    LET e == Entity(mine[w]) IN
    IF "success" \in log[e] THEN "SUCCESS"
    ELSE IF "unknown" \in log[e] THEN "unknown" ELSE "FAILED"

Outcome(w) ==
    LET e == Entity(mine[w]) IN
    CASE "success" \in log[e] -> "SUCCESS"
      [] "success" \notin log[e] /\ "unknown" \in log[e] -> "RECONCILE"
      [] log[e] = {"failed"} /\ e \notin Unsupported /\ claim[w] < ExportAttempts -> "RETRY"
      [] OTHER -> "FAILED"

ReadOutcome(w) ==
    /\ at[w] = "read"
    /\ verdict' = [verdict EXCEPT ![w] = Outcome(w)]
    /\ Step(w, "settle")
    /\ UNCHANGED <<connection, rowVars, log, lock, mine, claim, dest, worldVars>>

\* A mutated StillMine: a late result is written whatever the row says.
StillMineAnyway(w) == TRUE

StillMine(w) == task[mine[w]] = "RUNNING" /\ tries[mine[w]] = claim[w]

Settle(w) ==
    /\ at[w] = "settle"
    /\ IF StillMine(w)
          THEN /\ task' = [task EXCEPT ![mine[w]] = verdict[w]]
               /\ ripe' = ripe \ {mine[w]}
          ELSE UNCHANGED <<task, ripe>>
    /\ Return(w)
    /\ UNCHANGED <<connection, tries, log, lock, worldVars>>

\* The process dies: its transaction rolls back, the claim stays.
ExporterDies(w) ==
    /\ at[w] # "idle"
    /\ lock' = Released(w)
    /\ Return(w)
    /\ UNCHANGED <<connection, rowVars, log, worldVars>>
--------------------------------------------------------------------------------
(* The operator                                                            *)

RetryDelivery(t) ==
    /\ task[t] = "FAILED"
    /\ Entity(t) \notin Unsupported
    /\ connection = Org(t)
    /\ task' = [task EXCEPT ![t] = "PENDING"]
    /\ tries' = [tries EXCEPT ![t] = 0]
    /\ ripe' = ripe \cup {t}
    /\ UNCHANGED <<connection, log, lock, exporterVars, worldVars>>

\* A mutated Evidence: the operator's word is enough.
EvidenceOfOperator(t) == connection = Org(t)

\* The provider record, read back from the organisation of the task.
Evidence(t) == connection = Org(t) /\ t \in accepted

ReconcileXeroInvoice(t) ==
    /\ task[t] = "RECONCILE"
    /\ Entity(t) \in Reviewable
    /\ lock = Nobody
    /\ Evidence(t)
    /\ log' = [log EXCEPT ![Entity(t)] = @ \cup {"success"}]
    /\ task' = [task EXCEPT ![t] = "SUCCESS"]
    /\ UNCHANGED <<connection, tries, ripe, lock, exporterVars, worldVars>>
--------------------------------------------------------------------------------
ExporterStep(w) ==
    \/ CheckDestination(w) \/ ReadSource(w) \/ SkipSynced(w) \/ FailPreflight(w)
    \/ TakeLock(w) \/ Post(w) \/ CommitLog(w) \/ ReadOutcome(w) \/ Settle(w)

ExportNext ==
    \/ \E o \in Orgs : Connect(o)
    \/ Disconnect
    \/ \E e \in Entities : EnqueueAccountingSync(e)
    \/ \E t \in Tasks : TimePasses(t) \/ ExpireClaim(t)
    \/ \E w \in Exporters, t \in Tasks : ClaimTask(w, t)
    \/ \E w \in Exporters : ExporterStep(w) \/ SyncThrows(w) \/ ExporterDies(w)
    \/ \E t \in Tasks : RetryDelivery(t) \/ ReconcileXeroInvoice(t)

ExportSpec == ExportInit /\ [][ExportNext]_exportVars

\* A sweep every minute walks through all due tasks, time passes, and the
\* database grants the advisory lock in the order it is asked for.
ExportFairness ==
    /\ \A t \in Tasks : /\ WF_exportVars(TimePasses(t))
                        /\ WF_exportVars(ExpireClaim(t))
                        /\ WF_exportVars(\E w \in Exporters : ClaimTask(w, t))
    /\ \A w \in Exporters : SF_exportVars(ExporterStep(w))
--------------------------------------------------------------------------------
ExportTypeOK ==
    /\ connection \in Orgs \cup {NoOrg}
    /\ task \in [Tasks -> TaskStatus]
    /\ tries \in [Tasks -> Nat]
    /\ ripe \subseteq Tasks
    /\ log \in [Entities -> SUBSET LogKind]
    /\ lock \in Exporters \cup {Nobody}
    /\ at \in [Exporters -> ExporterAt]
    /\ mine \in [Exporters -> Tasks \cup {NoTask}]
    /\ claim \in [Exporters -> Nat]
    /\ dest \in [Exporters -> Orgs \cup {NoOrg}]
    /\ verdict \in [Exporters -> TaskStatus \cup LogKind]
    /\ posts \in [Tasks -> 0..2]
    /\ accepted \subseteq Tasks

\* A task is submitted to the provider at most once, through every claim that
\* expires, process that dies, commit that fails and retry of the operator.
SubmittedOnce == \A t \in Tasks : posts[t] <= 1

\* The provider holds the document, in one organisation or another.
Accepted(e) == \E o \in Orgs : <<e, o>> \in accepted

\* A delivery is called SUCCESS only when the provider really holds the
\* document: an expired claim or a reconciliation never makes it up.
SuccessIsTrue ==
    \A t \in Tasks : task[t] = "SUCCESS" => Accepted(Entity(t))

\* The provider never sees a payment whose document it has not accepted.
PaymentFollowsDocument ==
    \A p \in Payments : Accepted(p) => Accepted(PaidDocument[p])

\* A delivery whose outcome is unknown stays quarantined: no late result of the
\* exporter it was taken from releases it, only a record the provider shows.
QuarantineHolds ==
    [][\A t \in Tasks : task[t] = "RECONCILE" /\ task'[t] # "RECONCILE" =>
          task'[t] = "SUCCESS" /\ t \in accepted]_exportVars

\* Every queued delivery comes to an end an operator can see.
Undecided(t) == task[t] \in {"PENDING", "RETRY", "RUNNING"}

ExportSettles == \A t \in Tasks : Undecided(t) ~> ~Undecided(t)
--------------------------------------------------------------------------------
(* The parts of the inductive invariant                                    *)

Busy(w) == at[w] # "idle"

\* A task has one exporter at a time, and none when it can be claimed.
OneExporter ==
    /\ \A v, w \in Exporters : Busy(v) /\ Busy(w) /\ mine[v] = mine[w] => v = w
    /\ \A w \in Exporters : Busy(w) => /\ mine[w] \in Tasks
                                      /\ task[mine[w]] \in {"RUNNING", "RECONCILE", "SUCCESS"}

\* What was submitted is never claimable again: the exporter that submitted it
\* carries the evidence, or the task is out of its hands.
SubmittedIsKnown ==
    /\ \A t \in Tasks : posts[t] = 1 => task[t] \in {"RUNNING", "RECONCILE", "SUCCESS"}
    /\ \A w \in Exporters :
          /\ at[w] \in {"check", "source", "wait", "post"} => posts[mine[w]] = 0
          /\ at[w] = "commit" => verdict[w] \in {"success", "unknown"}
          /\ at[w] = "read" /\ posts[mine[w]] = 1 => AlreadySynced(Entity(mine[w]))
          /\ at[w] = "settle" => verdict[w] \in {"SUCCESS", "RETRY", "RECONCILE", "FAILED"}
          /\ at[w] = "settle" /\ posts[mine[w]] = 1 => verdict[w] \in {"SUCCESS", "RECONCILE"}

\* A success in the log, on its way to it or on its way to the row is true.
EvidenceIsTrue ==
    /\ \A e \in Entities : "success" \in log[e] => Accepted(e)
    /\ \A w \in Exporters :
          /\ at[w] = "post" => dest[w] \in Orgs
          /\ at[w] = "post" /\ Entity(mine[w]) \in Payments =>
                Accepted(PaidDocument[Entity(mine[w])])
          /\ (at[w] = "commit" /\ verdict[w] = "success")
                \/ (at[w] = "settle" /\ verdict[w] = "SUCCESS") =>
                Accepted(Entity(mine[w]))

ExportInv ==
    /\ ExportTypeOK
    /\ SubmittedOnce
    /\ SuccessIsTrue
    /\ PaymentFollowsDocument
    /\ OneExporter
    /\ SubmittedIsKnown
    /\ EvidenceIsTrue
================================================================================
