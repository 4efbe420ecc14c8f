----------------------------- MODULE Outboxes_Proofs -----------------------------
(***************************************************************************)
(* The two outboxes whose rows end up at somebody else's service: the      *)
(* accounting export and the mail, for any number of documents, messages,  *)
(* organisations, exporters and senders.                                   *)
(*                                                                         *)
(* ExportInv is inductive.  Its heart is SubmittedIsKnown: a task that was *)
(* submitted is in the hands of the exporter that submitted it, which      *)
(* carries the evidence from the answer to the log, to the verdict and to  *)
(* the row, or it is out of everybody's hands.                             *)
(*                                                                         *)
(* In the mail outbox, while no lease has run out under a sender, who      *)
(* holds an envelope holds its claim (ClaimIsTheirs); so an envelope that  *)
(* is free, or whose sender has not had its answer, was not taken by the   *)
(* provider yet (TakenByOne).                                              *)
(*                                                                         *)
(* One lemma for each conjunct of an invariant goes through the actions.   *)
(***************************************************************************)
EXTENDS AccountingExport, MailOutbox, TLAPS

--------------------------------------------------------------------------------
(* The accounting export                                                   *)

\* The parts of a task, and the task of an entity and an organisation.
LEMMA TaskParts ==
    /\ \A t \in Tasks : Entity(t) \in Entities /\ Org(t) \in Orgs /\ t = <<Entity(t), Org(t)>>
    /\ \A e \in Entities, o \in Orgs : <<e, o>> \in Tasks
BY DEF Tasks, Entity, Org

\* What an exporter may find, and what it makes of it.
LEMMA VerdictTypes ==
    /\ \A e \in Entities : ExpiredStatus(e) \in {"SUCCESS", "RECONCILE"}
    /\ \A w \in Exporters : Outcome(w) \in {"SUCCESS", "RECONCILE", "RETRY", "FAILED"}
BY DEF ExpiredStatus, Outcome

\* Busy exporters have a task, and the variables keep their types.
LEMMA ExportTypeStep == ExportInv /\ [ExportNext]_exportVars => ExportTypeOK'
<1> SUFFICES ASSUME ExportInv, [ExportNext]_exportVars PROVE ExportTypeOK'
  OBVIOUS
<1> USE ExportConstants, TaskParts, VerdictTypes
    DEF ExportInv, ExportTypeOK, rowVars, exporterVars, worldVars, TaskStatus,
        LogKind, ExporterAt, OneExporter, Busy
<1>1. ASSUME NEW o \in Orgs, Connect(o) PROVE ExportTypeOK'
  BY <1>1 DEF Connect
<1>2. CASE Disconnect
  BY <1>2 DEF Disconnect
<1>3. ASSUME NEW e \in Entities, EnqueueAccountingSync(e) PROVE ExportTypeOK'
  BY <1>3 DEF EnqueueAccountingSync
<1>4. ASSUME NEW t \in Tasks, TimePasses(t) PROVE ExportTypeOK'
  BY <1>4 DEF TimePasses
<1>5. ASSUME NEW t \in Tasks, ExpireClaim(t) PROVE ExportTypeOK'
  BY <1>5 DEF ExpireClaim, Expired
<1>6. ASSUME NEW w \in Exporters, NEW t \in Tasks, ClaimTask(w, t) PROVE ExportTypeOK'
  BY <1>6 DEF ClaimTask, Step
<1>7. ASSUME NEW w \in Exporters, CheckDestination(w) PROVE ExportTypeOK'
  BY <1>7, ZenonT(30) DEF CheckDestination, Step
<1>8. ASSUME NEW w \in Exporters, ReadSource(w) PROVE ExportTypeOK'
  BY <1>8 DEF ReadSource, Step
<1>9. ASSUME NEW w \in Exporters, SkipSynced(w) PROVE ExportTypeOK'
  BY <1>9 DEF SkipSynced, Step
<1>10. ASSUME NEW w \in Exporters, FailPreflight(w) PROVE ExportTypeOK'
  BY <1>10 DEF FailPreflight, Step
<1>11. ASSUME NEW w \in Exporters, TakeLock(w) PROVE ExportTypeOK'
  BY <1>11 DEF TakeLock, Step
<1>12. ASSUME NEW w \in Exporters, Post(w) PROVE ExportTypeOK'
  BY <1>12 DEF Post, Step, EvidenceIsTrue
<1>13. ASSUME NEW w \in Exporters, CommitLog(w) PROVE ExportTypeOK'
  BY <1>13 DEF CommitLog, Step, Released, SubmittedIsKnown
<1>14. ASSUME NEW w \in Exporters, SyncThrows(w) PROVE ExportTypeOK'
  BY <1>14 DEF SyncThrows, Step, Released
<1>15. ASSUME NEW w \in Exporters, ReadOutcome(w) PROVE ExportTypeOK'
  BY <1>15 DEF ReadOutcome, Step
<1>16. ASSUME NEW w \in Exporters, Settle(w) PROVE ExportTypeOK'
  BY <1>16 DEF Settle, Step, Return, SubmittedIsKnown
<1>17. ASSUME NEW w \in Exporters, ExporterDies(w) PROVE ExportTypeOK'
  BY <1>17 DEF ExporterDies, Step, Return, Released
<1>18. ASSUME NEW t \in Tasks, RetryDelivery(t) PROVE ExportTypeOK'
  BY <1>18 DEF RetryDelivery
<1>19. ASSUME NEW t \in Tasks, ReconcileXeroInvoice(t) PROVE ExportTypeOK'
  BY <1>19 DEF ReconcileXeroInvoice
<1>20. CASE UNCHANGED exportVars
  BY <1>20 DEF exportVars
<1> QED
  BY <1>1, <1>2, <1>3, <1>4, <1>5, <1>6, <1>7, <1>8, <1>9, <1>10, <1>11, <1>12,
     <1>13, <1>14, <1>15, <1>16, <1>17, <1>18, <1>19, <1>20
  DEF ExportNext, ExporterStep

\* The provider never loses what it has accepted.
LEMMA AcceptedGrows ==
    ExportTypeOK /\ [ExportNext]_exportVars => \A e : Accepted(e) => Accepted(e)'
<1> SUFFICES ASSUME ExportTypeOK, [ExportNext]_exportVars
             PROVE  accepted \subseteq accepted'
  BY DEF Accepted
<1>1. ASSUME NEW w \in Exporters, Post(w) PROVE accepted \subseteq accepted'
  BY <1>1 DEF Post
<1>2. CASE UNCHANGED accepted
  BY <1>2
<1> QED
  BY <1>1, <1>2 DEF ExportNext, ExporterStep, exportVars, worldVars, Connect,
      Disconnect, EnqueueAccountingSync, TimePasses, ExpireClaim, ClaimTask,
      CheckDestination, ReadSource, SkipSynced, FailPreflight, TakeLock, CommitLog,
      SyncThrows, ReadOutcome, Settle, ExporterDies, RetryDelivery,
      ReconcileXeroInvoice

\* A task the provider holds is an accepted entity.
LEMMA HeldIsAccepted == \A t \in accepted : t \in Tasks => Accepted(Entity(t))
<1> SUFFICES ASSUME NEW t \in accepted, t \in Tasks PROVE Accepted(Entity(t))
  OBVIOUS
<1>1. Org(t) \in Orgs /\ <<Entity(t), Org(t)>> \in accepted
  BY TaskParts
<1> QED
  BY <1>1 DEF Accepted

\* A POST either puts its document there or leaves everything as it is.
LEMMA PostAccepts ==
    ASSUME NEW w \in Exporters, ExportInv, Post(w)
    PROVE  /\ \A e : Accepted(e)' => Accepted(e) \/ e = Entity(mine[w])
           /\ verdict'[w] \in {"success", "unknown"}
           /\ verdict'[w] = "success" => Accepted(Entity(mine[w]))'
<1>1. mine[w] \in Tasks /\ dest[w] \in Orgs /\ verdict \in [Exporters -> TaskStatus \cup LogKind]
  BY DEF Post, ExportInv, OneExporter, Busy, EvidenceIsTrue, ExportTypeOK
<1>2. PICK answer \in {"success", "unknown"}, there \in BOOLEAN :
         /\ answer = "success" => there
         /\ verdict' = [verdict EXCEPT ![w] = answer]
         /\ accepted' = IF there THEN accepted \cup {<<Entity(mine[w]), dest[w]>>}
                                 ELSE accepted
  BY DEF Post
<1>3. \A e : Accepted(e)' => Accepted(e) \/ e = Entity(mine[w])
  BY <1>2 DEF Accepted
<1>4. there => Accepted(Entity(mine[w]))'
  BY <1>1, <1>2 DEF Accepted, Post
<1> QED
  BY <1>1, <1>2, <1>3, <1>4

\* An exporter submits a task that was not submitted.
LEMMA SubmittedOnceStep ==
    ExportInv /\ ExportTypeOK' /\ [ExportNext]_exportVars => SubmittedOnce'
<1> SUFFICES ASSUME ExportInv, ExportTypeOK', [ExportNext]_exportVars
             PROVE  SubmittedOnce'
  OBVIOUS
<1> USE ExportConstants
    DEF ExportInv, ExportTypeOK, SubmittedOnce, OneExporter, SubmittedIsKnown, Busy,
        rowVars, exporterVars, worldVars
<1>1. ASSUME NEW w \in Exporters, Post(w) PROVE SubmittedOnce'
  BY <1>1 DEF Post, Step
<1>2. CASE UNCHANGED posts
  BY <1>2
<1> HIDE DEF ExportInv, ExportTypeOK
<1> QED
  BY <1>1, <1>2
  DEF ExportNext, ExporterStep, exportVars, Connect, Disconnect,
      EnqueueAccountingSync, TimePasses, ExpireClaim, ClaimTask, CheckDestination,
      ReadSource, SkipSynced, FailPreflight, TakeLock, CommitLog, SyncThrows,
      ReadOutcome, Settle, ExporterDies, RetryDelivery, ReconcileXeroInvoice

\* SUCCESS comes from the log, from the verdict, or from the record of the provider.
LEMMA SuccessIsTrueStep ==
    ExportInv /\ ExportTypeOK' /\ [ExportNext]_exportVars => SuccessIsTrue'
<1> SUFFICES ASSUME ExportInv, ExportTypeOK', [ExportNext]_exportVars
             PROVE  SuccessIsTrue'
  OBVIOUS
<1>0. \A e : Accepted(e) => Accepted(e)'
  BY AcceptedGrows DEF ExportInv
<1> USE ExportConstants, TaskParts, VerdictTypes, <1>0
    DEF ExportInv, ExportTypeOK, SuccessIsTrue, OneExporter, EvidenceIsTrue, Busy,
        rowVars, exporterVars, worldVars
<1>1. ASSUME NEW e \in Entities, EnqueueAccountingSync(e) PROVE SuccessIsTrue'
  BY <1>1 DEF EnqueueAccountingSync
<1>2. ASSUME NEW t \in Tasks, ExpireClaim(t) PROVE SuccessIsTrue'
  BY <1>2 DEF ExpireClaim, Expired, ExpiredStatus
<1>3. ASSUME NEW w \in Exporters, NEW t \in Tasks, ClaimTask(w, t) PROVE SuccessIsTrue'
  BY <1>3 DEF ClaimTask, Step
<1>4. ASSUME NEW w \in Exporters, Post(w) PROVE SuccessIsTrue'
  BY <1>4 DEF Post, Step
<1>5. ASSUME NEW w \in Exporters, Settle(w) PROVE SuccessIsTrue'
  BY <1>5 DEF Settle, Step, Return, StillMine
<1>6. ASSUME NEW t \in Tasks, RetryDelivery(t) PROVE SuccessIsTrue'
  BY <1>6 DEF RetryDelivery
<1>7. ASSUME NEW t \in Tasks, ReconcileXeroInvoice(t) PROVE SuccessIsTrue'
  <2>1. Accepted(Entity(t))
    BY <1>7, HeldIsAccepted DEF ReconcileXeroInvoice, Evidence
  <2> QED
    BY <1>7, <2>1 DEF ReconcileXeroInvoice
<1>8. CASE UNCHANGED <<task, accepted>>
  BY <1>8, <1>0
<1> HIDE DEF ExportInv, ExportTypeOK
<1> QED
  BY <1>1, <1>2, <1>3, <1>4, <1>5, <1>6, <1>7, <1>8
  DEF ExportNext, ExporterStep, exportVars, Connect, Disconnect, TimePasses,
      CheckDestination, ReadSource, SkipSynced, FailPreflight, TakeLock, CommitLog,
      SyncThrows, ReadOutcome, ExporterDies

\* A payment is submitted while the provider holds its document.
LEMMA PaymentFollowsDocumentStep ==
    ExportInv /\ ExportTypeOK' /\ [ExportNext]_exportVars => PaymentFollowsDocument'
<1> SUFFICES ASSUME ExportInv, ExportTypeOK', [ExportNext]_exportVars
             PROVE  PaymentFollowsDocument'
  OBVIOUS
<1>0. \A e : Accepted(e) => Accepted(e)'
  BY AcceptedGrows DEF ExportInv
<1> USE ExportConstants, TaskParts, <1>0
    DEF ExportInv, ExportTypeOK, PaymentFollowsDocument, OneExporter,
        EvidenceIsTrue, Busy, Entities, rowVars, exporterVars, worldVars
<1>1. ASSUME NEW w \in Exporters, Post(w) PROVE PaymentFollowsDocument'
  <2>1. \A e : Accepted(e)' => Accepted(e) \/ e = Entity(mine[w])
    BY <1>1, PostAccepts
  <2>2. Entity(mine[w]) \in Payments => Accepted(PaidDocument[Entity(mine[w])])
    BY <1>1 DEF Post
  <2> QED
    BY <2>1, <2>2
<1>2. CASE UNCHANGED accepted
  BY <1>2 DEF Accepted
<1> HIDE DEF ExportInv, ExportTypeOK
<1> QED
  BY <1>1, <1>2
  DEF ExportNext, ExporterStep, exportVars, Connect, Disconnect,
      EnqueueAccountingSync, TimePasses, ExpireClaim, ClaimTask, CheckDestination,
      ReadSource, SkipSynced, FailPreflight, TakeLock, CommitLog, SyncThrows,
      ReadOutcome, Settle, ExporterDies, RetryDelivery, ReconcileXeroInvoice

\* A claim takes a task nobody works on, and no row returns to the queue under an exporter.
LEMMA OneExporterStep ==
    ExportInv /\ ExportTypeOK' /\ [ExportNext]_exportVars => OneExporter'
<1> SUFFICES ASSUME ExportInv, ExportTypeOK', [ExportNext]_exportVars
             PROVE  OneExporter'
  OBVIOUS
<1> USE ExportConstants, VerdictTypes, TaskParts
    DEF ExportInv, ExportTypeOK, OneExporter, Busy, rowVars, exporterVars, worldVars
<1>1. ASSUME NEW e \in Entities, EnqueueAccountingSync(e) PROVE OneExporter'
  BY <1>1 DEF EnqueueAccountingSync
<1>2. ASSUME NEW t \in Tasks, ExpireClaim(t) PROVE OneExporter'
  BY <1>2 DEF ExpireClaim, Expired
<1>3. ASSUME NEW w \in Exporters, NEW t \in Tasks, ClaimTask(w, t) PROVE OneExporter'
  BY <1>3, SMTT(30) DEF ClaimTask, Step
<1>4. ASSUME NEW w \in Exporters, CheckDestination(w) PROVE OneExporter'
  <2>1. UNCHANGED <<task, mine>> /\ Busy(w) /\ \A v \in Exporters : Busy(v)' => Busy(v)
    BY <1>4 DEF CheckDestination, Step
  <2> QED
    BY <2>1
<1>5. ASSUME NEW w \in Exporters, ReadSource(w) PROVE OneExporter'
  BY <1>5 DEF ReadSource, Step
<1>6. ASSUME NEW w \in Exporters, SkipSynced(w) PROVE OneExporter'
  BY <1>6 DEF SkipSynced, Step
<1>7. ASSUME NEW w \in Exporters, FailPreflight(w) PROVE OneExporter'
  BY <1>7 DEF FailPreflight, Step
<1>8. ASSUME NEW w \in Exporters, TakeLock(w) PROVE OneExporter'
  BY <1>8 DEF TakeLock, Step
<1>9. ASSUME NEW w \in Exporters, Post(w) PROVE OneExporter'
  BY <1>9 DEF Post, Step
<1>10. ASSUME NEW w \in Exporters, CommitLog(w) PROVE OneExporter'
  BY <1>10 DEF CommitLog, Step, Released
<1>11. ASSUME NEW w \in Exporters, SyncThrows(w) PROVE OneExporter'
  BY <1>11 DEF SyncThrows, Step, Released
<1>12. ASSUME NEW w \in Exporters, ReadOutcome(w) PROVE OneExporter'
  BY <1>12 DEF ReadOutcome, Step
<1>13. ASSUME NEW w \in Exporters, Settle(w) PROVE OneExporter'
  BY <1>13 DEF Settle, Step, Return
<1>14. ASSUME NEW w \in Exporters, ExporterDies(w) PROVE OneExporter'
  BY <1>14 DEF ExporterDies, Step, Return, Released
<1>15. ASSUME NEW t \in Tasks, RetryDelivery(t) PROVE OneExporter'
  BY <1>15 DEF RetryDelivery
<1>16. ASSUME NEW t \in Tasks, ReconcileXeroInvoice(t) PROVE OneExporter'
  BY <1>16 DEF ReconcileXeroInvoice
<1>17. CASE UNCHANGED <<task, at, mine>>
  BY <1>17
<1> HIDE DEF ExportInv, ExportTypeOK
<1> QED
  BY <1>1, <1>2, <1>3, <1>4, <1>5, <1>6, <1>7, <1>8, <1>9, <1>10, <1>11, <1>12,
     <1>13, <1>14, <1>15, <1>16, <1>17
  DEF ExportNext, ExporterStep, exportVars, Connect, Disconnect, TimePasses

\* The evidence goes from the answer to the log, to the verdict and to the row.
LEMMA SubmittedIsKnownStep ==
    ExportInv /\ ExportTypeOK' /\ [ExportNext]_exportVars => SubmittedIsKnown'
<1> SUFFICES ASSUME ExportInv, ExportTypeOK', [ExportNext]_exportVars
             PROVE  SubmittedIsKnown'
  OBVIOUS
<1> USE ExportConstants, VerdictTypes, TaskParts
    DEF ExportInv, ExportTypeOK, OneExporter, SubmittedOnce, SubmittedIsKnown,
        AlreadySynced, Busy, rowVars, exporterVars, worldVars
<1>1. ASSUME NEW e \in Entities, EnqueueAccountingSync(e) PROVE SubmittedIsKnown'
  BY <1>1 DEF EnqueueAccountingSync
<1>2. ASSUME NEW t \in Tasks, ExpireClaim(t) PROVE SubmittedIsKnown'
  BY <1>2 DEF ExpireClaim, Expired
<1>3. ASSUME NEW w \in Exporters, NEW t \in Tasks, ClaimTask(w, t) PROVE SubmittedIsKnown'
  BY <1>3, SMTT(30) DEF ClaimTask, Step
<1>4. ASSUME NEW w \in Exporters, CheckDestination(w) PROVE SubmittedIsKnown'
  BY <1>4 DEF CheckDestination, Step
<1>5. ASSUME NEW w \in Exporters, ReadSource(w) PROVE SubmittedIsKnown'
  BY <1>5 DEF ReadSource, Step
<1>6. ASSUME NEW w \in Exporters, SkipSynced(w) PROVE SubmittedIsKnown'
  BY <1>6 DEF SkipSynced, Step
<1>7. ASSUME NEW w \in Exporters, FailPreflight(w) PROVE SubmittedIsKnown'
  BY <1>7 DEF FailPreflight, Step
<1>8. ASSUME NEW w \in Exporters, TakeLock(w) PROVE SubmittedIsKnown'
  BY <1>8 DEF TakeLock, Step
<1>9. ASSUME NEW w \in Exporters, Post(w) PROVE SubmittedIsKnown'
  BY <1>9 DEF Post, Step
<1>10. ASSUME NEW w \in Exporters, CommitLog(w) PROVE SubmittedIsKnown'
  <2>1. /\ UNCHANGED <<task, mine, posts>>
        /\ at' = [at EXCEPT ![w] = "read"]
        /\ \A v \in Exporters \ {w} : verdict'[v] = verdict[v]
    BY <1>10 DEF CommitLog, Step
  <2>2. verdict[w] \in {"success", "unknown"} /\ mine[w] \in Tasks
    BY <1>10 DEF CommitLog
  <2>3. AlreadySynced(Entity(mine[w]))'
    BY <1>10, <2>1, <2>2 DEF CommitLog
  <2>4. \A e \in Entities : AlreadySynced(e) => AlreadySynced(e)'
    BY <1>10 DEF CommitLog
  <2> QED
    BY <2>1, <2>3, <2>4, ZenonT(30)
<1>11. ASSUME NEW w \in Exporters, SyncThrows(w) PROVE SubmittedIsKnown'
  BY <1>11 DEF SyncThrows, Step, Released
<1>12. ASSUME NEW w \in Exporters, ReadOutcome(w) PROVE SubmittedIsKnown'
  BY <1>12 DEF ReadOutcome, Step, Outcome
<1>13. ASSUME NEW w \in Exporters, Settle(w) PROVE SubmittedIsKnown'
  <2>1. /\ UNCHANGED <<posts, log>>
        /\ at' = [at EXCEPT ![w] = "idle"]
        /\ \A v \in Exporters \ {w} : verdict'[v] = verdict[v] /\ mine'[v] = mine[v]
    BY <1>13 DEF Settle, Step, Return
  <2>2. \A t \in Tasks : task'[t] = task[t] \/ (t = mine[w] /\ task'[t] = verdict[w])
    BY <1>13 DEF Settle
  <2>3. at[w] = "settle" /\ mine[w] \in Tasks
    BY <1>13 DEF Settle
  <2>4. posts[mine[w]] = 1 => verdict[w] \in {"SUCCESS", "RECONCILE"}
    BY <2>3
  <2>5. \A t \in Tasks : posts'[t] = 1 => task'[t] \in {"RUNNING", "RECONCILE", "SUCCESS"}
    BY <2>1, <2>2, <2>4
  <2>6. \A v \in Exporters \ {w} :
           at'[v] = at[v] /\ mine'[v] = mine[v] /\ verdict'[v] = verdict[v]
    BY <2>1
  <2>7. \A e : AlreadySynced(e)' = AlreadySynced(e)
    BY <2>1
  <2> QED
    BY <2>1, <2>5, <2>6, <2>7
<1>14. ASSUME NEW w \in Exporters, ExporterDies(w) PROVE SubmittedIsKnown'
  BY <1>14, ZenonT(30) DEF ExporterDies, Step, Return, Released
<1>15. ASSUME NEW t \in Tasks, RetryDelivery(t) PROVE SubmittedIsKnown'
  BY <1>15 DEF RetryDelivery
<1>16. ASSUME NEW t \in Tasks, ReconcileXeroInvoice(t) PROVE SubmittedIsKnown'
  BY <1>16 DEF ReconcileXeroInvoice
<1>17. CASE UNCHANGED <<task, at, mine, posts, verdict, log>>
  BY <1>17
<1> HIDE DEF ExportInv, ExportTypeOK
<1> QED
  BY <1>1, <1>2, <1>3, <1>4, <1>5, <1>6, <1>7, <1>8, <1>9, <1>10, <1>11, <1>12,
     <1>13, <1>14, <1>15, <1>16, <1>17
  DEF ExportNext, ExporterStep, exportVars, Connect, Disconnect, TimePasses

\* What is taken for a success was accepted by the provider.
LEMMA EvidenceIsTrueStep ==
    ExportInv /\ ExportTypeOK' /\ [ExportNext]_exportVars => EvidenceIsTrue'
<1> SUFFICES ASSUME ExportInv, ExportTypeOK', [ExportNext]_exportVars
             PROVE  EvidenceIsTrue'
  OBVIOUS
<1>0. \A e : Accepted(e) => Accepted(e)'
  BY AcceptedGrows DEF ExportInv
<1> USE ExportConstants, VerdictTypes, TaskParts, <1>0
    DEF ExportInv, ExportTypeOK, OneExporter, SubmittedIsKnown, EvidenceIsTrue,
        Busy, rowVars, exporterVars, worldVars
<1>1. ASSUME NEW w \in Exporters, NEW t \in Tasks, ClaimTask(w, t) PROVE EvidenceIsTrue'
  BY <1>1 DEF ClaimTask, Step
<1>2. ASSUME NEW w \in Exporters, CheckDestination(w) PROVE EvidenceIsTrue'
  BY <1>2 DEF CheckDestination, Step
<1>3. ASSUME NEW w \in Exporters, ReadSource(w) PROVE EvidenceIsTrue'
  BY <1>3 DEF ReadSource, Step
<1>4. ASSUME NEW w \in Exporters, SkipSynced(w) PROVE EvidenceIsTrue'
  BY <1>4 DEF SkipSynced, Step
<1>5. ASSUME NEW w \in Exporters, FailPreflight(w) PROVE EvidenceIsTrue'
  BY <1>5 DEF FailPreflight, Step
<1>6. ASSUME NEW w \in Exporters, TakeLock(w) PROVE EvidenceIsTrue'
  BY <1>6 DEF TakeLock, Step, Preflight, Entities
<1>7. ASSUME NEW w \in Exporters, Post(w) PROVE EvidenceIsTrue'
  <2>1. /\ verdict'[w] \in {"success", "unknown"}
        /\ verdict'[w] = "success" => Accepted(Entity(mine[w]))'
    BY <1>7, PostAccepts
  <2>2. /\ UNCHANGED <<mine, dest, log>>
        /\ at' = [at EXCEPT ![w] = "commit"]
        /\ \A v \in Exporters \ {w} : verdict'[v] = verdict[v]
    BY <1>7 DEF Post, Step
  <2>3. \A e : Accepted(e) => Accepted(e)'
    BY <1>0
  <2> QED
    BY <2>1, <2>2, <2>3
<1>8. ASSUME NEW w \in Exporters, CommitLog(w) PROVE EvidenceIsTrue'
  BY <1>8 DEF CommitLog, Step, Released
<1>9. ASSUME NEW w \in Exporters, SyncThrows(w) PROVE EvidenceIsTrue'
  BY <1>9 DEF SyncThrows, Step, Released
<1>10. ASSUME NEW w \in Exporters, ReadOutcome(w) PROVE EvidenceIsTrue'
  BY <1>10 DEF ReadOutcome, Step, Outcome
<1>11. ASSUME NEW w \in Exporters, Settle(w) PROVE EvidenceIsTrue'
  BY <1>11 DEF Settle, Step, Return
<1>12. ASSUME NEW w \in Exporters, ExporterDies(w) PROVE EvidenceIsTrue'
  BY <1>12 DEF ExporterDies, Step, Return, Released
<1>13. ASSUME NEW t \in Tasks, ReconcileXeroInvoice(t) PROVE EvidenceIsTrue'
  <2>1. Accepted(Entity(t))
    BY <1>13, HeldIsAccepted DEF ReconcileXeroInvoice, Evidence
  <2> QED
    BY <1>13, <2>1 DEF ReconcileXeroInvoice
<1>14. CASE UNCHANGED <<at, mine, dest, verdict, log, accepted>>
  BY <1>14, <1>0
<1> HIDE DEF ExportInv, ExportTypeOK
<1> QED
  BY <1>1, <1>2, <1>3, <1>4, <1>5, <1>6, <1>7, <1>8, <1>9, <1>10, <1>11, <1>12,
     <1>13, <1>14
  DEF ExportNext, ExporterStep, exportVars, Connect, Disconnect,
      EnqueueAccountingSync, TimePasses, ExpireClaim, RetryDelivery

\* Nothing is queued, claimed or submitted at the start.
LEMMA ExportInitInv == ExportInit => ExportInv
BY ExportConstants, TaskParts
DEF ExportInit, ExportInv, ExportTypeOK, SubmittedOnce, SuccessIsTrue,
    PaymentFollowsDocument, Accepted, OneExporter, SubmittedIsKnown, EvidenceIsTrue,
    Busy, TaskStatus, LogKind, ExporterAt

\* Every state has the inductive invariant.
THEOREM ExportInvariant == ExportSpec => []ExportInv
<1>1. ExportInv /\ [ExportNext]_exportVars => ExportInv'
  BY ExportTypeStep, SubmittedOnceStep, SuccessIsTrueStep, PaymentFollowsDocumentStep,
     OneExporterStep, SubmittedIsKnownStep, EvidenceIsTrueStep
  DEF ExportInv
<1> QED
  BY ExportInitInv, <1>1, PTL DEF ExportSpec

\* Every variable keeps its type.
THEOREM ExportTypeCorrect == ExportSpec => []ExportTypeOK
BY ExportInvariant, PTL DEF ExportInv

\* No expired claim, dead process, lost log or retry submits a task again.
THEOREM SubmittedAtMostOnce == ExportSpec => []SubmittedOnce
BY ExportInvariant, PTL DEF ExportInv

\* A delivery is SUCCESS only when the provider holds the document.
THEOREM SuccessIsBelieved == ExportSpec => []SuccessIsTrue
BY ExportInvariant, PTL DEF ExportInv

\* The provider holds the document of every payment it holds.
THEOREM PaymentsFollow == ExportSpec => []PaymentFollowsDocument
BY ExportInvariant, PTL DEF ExportInv

\* Only the record of the provider ends a quarantine: the exporter it was taken
\* from finds its claim gone.
THEOREM QuarantineStays == ExportSpec => QuarantineHolds
<1> DEFINE Stays == \A t \in Tasks : task[t] = "RECONCILE" /\ task'[t] # "RECONCILE" =>
                       task'[t] = "SUCCESS" /\ t \in accepted
<1>1. ExportInv /\ [ExportNext]_exportVars => Stays
  <2> SUFFICES ASSUME ExportInv, [ExportNext]_exportVars PROVE Stays
    OBVIOUS
  <2> USE DEF ExportInv, ExportTypeOK, rowVars
  <2>1. ASSUME NEW e \in Entities, EnqueueAccountingSync(e) PROVE Stays
    BY <2>1 DEF EnqueueAccountingSync
  <2>2. ASSUME NEW t \in Tasks, ExpireClaim(t) PROVE Stays
    BY <2>2 DEF ExpireClaim, Expired
  <2>3. ASSUME NEW w \in Exporters, NEW t \in Tasks, ClaimTask(w, t) PROVE Stays
    BY <2>3 DEF ClaimTask
  <2>4. ASSUME NEW w \in Exporters, Settle(w) PROVE Stays
    BY <2>4 DEF Settle, StillMine
  <2>5. ASSUME NEW t \in Tasks, RetryDelivery(t) PROVE Stays
    BY <2>5 DEF RetryDelivery
  <2>6. ASSUME NEW t \in Tasks, ReconcileXeroInvoice(t) PROVE Stays
    BY <2>6 DEF ReconcileXeroInvoice, Evidence
  <2>7. CASE UNCHANGED task
    BY <2>7
  <2> HIDE DEF ExportInv, ExportTypeOK
  <2> QED
    BY <2>1, <2>2, <2>3, <2>4, <2>5, <2>6, <2>7
    DEF ExportNext, ExporterStep, exportVars, Connect, Disconnect, TimePasses,
        CheckDestination, ReadSource, SkipSynced, FailPreflight, TakeLock, Post,
        CommitLog, SyncThrows, ReadOutcome, ExporterDies
<1>2. ExportInv /\ [ExportNext]_exportVars => [Stays]_exportVars
  BY <1>1
<1> QED
  BY ExportInvariant, <1>2, PTL DEF ExportSpec, QuarantineHolds

--------------------------------------------------------------------------------
(* The mail outbox                                                         *)

Holder(s, r) == sender[s] # "idle" /\ holds[s] = r

\* A hand-over leaves its mark on the message.
HandOverIsMarked ==
    \A m \in Messages :
       /\ handed[m] = 0 \/ (handed[m] = 1 /\ timer[m] = "off" /\ folder[m] # "none")
       /\ handed[m] = 1 <=> envelope[m] # NoEnvelope

\* An envelope being sent has an attempt left, a new one all of them.
AttemptsLeft ==
    \A r \in Envelopes : mail[r] \in {"none", "pending", "sending"} => attempts[r] < MailAttempts

\* Only an envelope being sent is claimed, and its holder has the claim unless
\* a lease ran out.
ClaimIsTheirs ==
    /\ \A r \in Envelopes : mail[r] # "sending" => token[r] = NoSender
    /\ \A s \in Senders : /\ sender[s] # "idle" => holds[s] \in Envelopes
                          /\ sender[s] = "save" => result[s] # "none"
    /\ \A s \in Senders, r \in Envelopes :
          Holder(s, r) => (mail[r] = "sending" /\ token[r] = s) \/ r \in retaken

\* Without such a lease and without an answer that lies, the provider has not
\* taken what is not sent.
Untaken(r) ==
    \/ mail[r] \in {"none", "pending", "failed", "simulated", "cancelled"}
    \/ \E s \in Senders : Holder(s, r) /\ (sender[s] = "send" \/ result[s] # "sent")

TakenByOne ==
    \A r \in Envelopes \ (retaken \cup ambiguous) :
       /\ taken[r] <= 1
       /\ Untaken(r) => taken[r] = 0

MailInv ==
    /\ MailTypeOK
    /\ HandOverIsMarked
    /\ AttemptsLeft
    /\ ClaimIsTheirs
    /\ TakenByOne

\* Every variable keeps its type.
LEMMA MailTypeStep ==
    MailInv /\ [MailNext]_mailVars => MailTypeOK'
<1> SUFFICES ASSUME MailInv, [MailNext]_mailVars PROVE MailTypeOK'
  OBVIOUS
<1> USE MailConstants
    DEF MailInv, MailTypeOK, AttemptsLeft, ClaimIsTheirs, Folder, MailStatus,
        Holder, messageVars, outboxVars, senderVars, mailHistory
<1>1. ASSUME NEW m \in Messages, SendMessage(m) PROVE MailTypeOK'
  BY <1>1 DEF SendMessage
<1>2. ASSUME NEW m \in Messages, TimerRings(m) PROVE MailTypeOK'
  BY <1>2 DEF TimerRings
<1>3. ASSUME NEW m \in Messages, Reschedule(m) PROVE MailTypeOK'
  BY <1>3 DEF Reschedule
<1>4. ASSUME NEW m \in Messages, PatchFolder(m) PROVE MailTypeOK'
  BY <1>4 DEF PatchFolder
<1>5. ASSUME NEW m \in Messages, BulkAction(m) PROVE MailTypeOK'
  BY <1>5 DEF BulkAction
<1>6. ASSUME NEW m \in Messages, DeleteMessage(m) PROVE MailTypeOK'
  BY <1>6 DEF DeleteMessage, DeliveryStarted, Cancellable
<1>7. ASSUME NEW m \in Messages, ReturnToDrafts(m) PROVE MailTypeOK'
  BY <1>7 DEF ReturnToDrafts, Pass, StillDue, ScheduledAndDue
<1>8. ASSUME NEW m \in Messages, PassOver(m) PROVE MailTypeOK'
  BY <1>8 DEF PassOver
<1>9. CASE ListDue
  BY <1>9 DEF ListDue
<1>10. ASSUME NEW m \in Messages, NEW r \in Envelopes, HandOver(m, r) PROVE MailTypeOK'
  BY <1>10 DEF HandOver, Pass, StillDue, ScheduledAndDue, StatusAtInsert, UpToTwo
<1>11. ASSUME NEW s \in Senders, NEW r \in Envelopes, SendNow(s, r) PROVE MailTypeOK'
  BY <1>11 DEF SendNow, Begin, StatusAtInsert
<1>12. ASSUME NEW s \in Senders, NEW r \in Envelopes, ClaimMail(s, r) PROVE MailTypeOK'
  BY <1>12 DEF ClaimMail, Begin, Claimable
<1>13. ASSUME NEW r \in Envelopes, Enqueue(r) PROVE MailTypeOK'
  BY <1>13 DEF Enqueue, StatusAtInsert
<1>14. ASSUME NEW r \in Envelopes, MailTimePasses(r) PROVE MailTypeOK'
  BY <1>14 DEF MailTimePasses
<1>15. ASSUME NEW s \in Senders, Heartbeat(s) PROVE MailTypeOK'
  BY <1>15 DEF Heartbeat
<1>16. ASSUME NEW s \in Senders, Deliver(s) PROVE MailTypeOK'
  BY <1>16 DEF Deliver, UpToTwo
<1>17. ASSUME NEW s \in Senders, SaveResult(s) PROVE MailTypeOK'
  BY <1>17 DEF SaveResult, End, StillClaimed, Leaves
<1>18. ASSUME NEW s \in Senders, DropResult(s) PROVE MailTypeOK'
  BY <1>18 DEF DropResult, End
<1>19. ASSUME NEW s \in Senders, SenderDies(s) PROVE MailTypeOK'
  BY <1>19 DEF SenderDies, End
<1>20. CASE UNCHANGED mailVars
  BY <1>20 DEF mailVars
<1> HIDE DEF MailInv, MailTypeOK, AttemptsLeft, ClaimIsTheirs, Folder, MailStatus,
      Holder
<1> QED
  BY <1>1, <1>2, <1>3, <1>4, <1>5, <1>6, <1>7, <1>8, <1>9, <1>10, <1>11, <1>12,
     <1>13, <1>14, <1>15, <1>16, <1>17, <1>18, <1>19, <1>20
  DEF MailNext, mailVars, messageVars, outboxVars, senderVars, mailHistory

\* What is handed over has an envelope, and nothing sets its timer again.
LEMMA HandOverIsMarkedStep ==
    MailInv /\ MailTypeOK' /\ [MailNext]_mailVars => HandOverIsMarked'
<1> SUFFICES ASSUME MailInv, MailTypeOK', [MailNext]_mailVars PROVE HandOverIsMarked'
  OBVIOUS
<1> USE MailConstants
    DEF MailInv, MailTypeOK, HandOverIsMarked, messageVars, outboxVars, senderVars,
        mailHistory
<1>1. ASSUME NEW m \in Messages, SendMessage(m) PROVE HandOverIsMarked'
  BY <1>1 DEF SendMessage
<1>2. ASSUME NEW m \in Messages, TimerRings(m) PROVE HandOverIsMarked'
  BY <1>2 DEF TimerRings
<1>3. ASSUME NEW m \in Messages, Reschedule(m) PROVE HandOverIsMarked'
  BY <1>3 DEF Reschedule, DeliveryStarted
<1>4. ASSUME NEW m \in Messages, PatchFolder(m) PROVE HandOverIsMarked'
  BY <1>4 DEF PatchFolder
<1>5. ASSUME NEW m \in Messages, BulkAction(m) PROVE HandOverIsMarked'
  BY <1>5 DEF BulkAction
<1>6. ASSUME NEW m \in Messages, DeleteMessage(m) PROVE HandOverIsMarked'
  BY <1>6 DEF DeleteMessage, DeliveryStarted, Cancellable
<1>7. ASSUME NEW m \in Messages, ReturnToDrafts(m) PROVE HandOverIsMarked'
  BY <1>7 DEF ReturnToDrafts, Pass, StillDue, ScheduledAndDue
<1>8. ASSUME NEW m \in Messages, NEW r \in Envelopes, HandOver(m, r) PROVE HandOverIsMarked'
  BY <1>8 DEF HandOver, Pass, StillDue, ScheduledAndDue, StatusAtInsert, UpToTwo
<1>9. ASSUME NEW s \in Senders, SaveResult(s) PROVE HandOverIsMarked'
  BY <1>9 DEF SaveResult, End, StillClaimed, Leaves
<1>10. CASE UNCHANGED <<folder, timer, envelope, handed>>
  BY <1>10
<1> HIDE DEF MailInv, MailTypeOK, HandOverIsMarked
<1> QED
  BY <1>1, <1>2, <1>3, <1>4, <1>5, <1>6, <1>7, <1>8, <1>9, <1>10
  DEF MailNext, mailVars, messageVars, outboxVars, senderVars, mailHistory,
      PassOver, ListDue, SendNow, ClaimMail, Enqueue, MailTimePasses, Heartbeat,
      Deliver, DropResult, SenderDies

\* A claim leaves an attempt for its result.
LEMMA AttemptsLeftStep ==
    MailInv /\ MailTypeOK' /\ [MailNext]_mailVars => AttemptsLeft'
<1> SUFFICES ASSUME MailInv, MailTypeOK', [MailNext]_mailVars PROVE AttemptsLeft'
  OBVIOUS
<1> USE MailConstants
    DEF MailInv, MailTypeOK, AttemptsLeft, ClaimIsTheirs, messageVars, outboxVars,
        senderVars, mailHistory
<1>1. ASSUME NEW m \in Messages, DeleteMessage(m) PROVE AttemptsLeft'
  BY <1>1 DEF DeleteMessage, DeliveryStarted, Cancellable
<1>2. ASSUME NEW m \in Messages, NEW r \in Envelopes, HandOver(m, r) PROVE AttemptsLeft'
  BY <1>2 DEF HandOver, Pass, StillDue, ScheduledAndDue, StatusAtInsert, UpToTwo
<1>3. ASSUME NEW s \in Senders, NEW r \in Envelopes, SendNow(s, r) PROVE AttemptsLeft'
  BY <1>3 DEF SendNow, Begin, StatusAtInsert
<1>4. ASSUME NEW s \in Senders, NEW r \in Envelopes, ClaimMail(s, r) PROVE AttemptsLeft'
  BY <1>4 DEF ClaimMail, Begin, Claimable
<1>5. ASSUME NEW r \in Envelopes, Enqueue(r) PROVE AttemptsLeft'
  BY <1>5 DEF Enqueue, StatusAtInsert
<1>6. ASSUME NEW s \in Senders, SaveResult(s) PROVE AttemptsLeft'
  BY <1>6 DEF SaveResult, End, StillClaimed, Leaves
<1>7. CASE UNCHANGED <<mail, attempts>>
  BY <1>7
<1> HIDE DEF MailInv, MailTypeOK, AttemptsLeft, ClaimIsTheirs
<1> QED
  BY <1>1, <1>2, <1>3, <1>4, <1>5, <1>6, <1>7
  DEF MailNext, mailVars, messageVars, outboxVars, senderVars, mailHistory,
      SendMessage, TimerRings, Reschedule, PatchFolder, BulkAction, ReturnToDrafts,
      PassOver, ListDue, MailTimePasses, Heartbeat, Deliver, DropResult, SenderDies

\* A second holder means a lease that ran out.
LEMMA ClaimIsTheirsStep ==
    MailInv /\ MailTypeOK' /\ [MailNext]_mailVars => ClaimIsTheirs'
<1> SUFFICES ASSUME MailInv, MailTypeOK', [MailNext]_mailVars PROVE ClaimIsTheirs'
  OBVIOUS
<1> USE MailConstants
    DEF MailInv, MailTypeOK, ClaimIsTheirs, Holder, messageVars, outboxVars,
        senderVars, mailHistory
<1>1. ASSUME NEW m \in Messages, DeleteMessage(m) PROVE ClaimIsTheirs'
  BY <1>1 DEF DeleteMessage, DeliveryStarted, Cancellable
<1>2. ASSUME NEW m \in Messages, NEW r \in Envelopes, HandOver(m, r) PROVE ClaimIsTheirs'
  BY <1>2 DEF HandOver, Pass, StillDue, ScheduledAndDue, StatusAtInsert, UpToTwo
<1>3. ASSUME NEW s \in Senders, NEW r \in Envelopes, SendNow(s, r) PROVE ClaimIsTheirs'
  BY <1>3 DEF SendNow, Begin, StatusAtInsert
<1>4. ASSUME NEW s \in Senders, NEW r \in Envelopes, ClaimMail(s, r) PROVE ClaimIsTheirs'
  BY <1>4 DEF ClaimMail, Begin, Claimable
<1>5. ASSUME NEW r \in Envelopes, Enqueue(r) PROVE ClaimIsTheirs'
  BY <1>5 DEF Enqueue, StatusAtInsert
<1>6. ASSUME NEW s \in Senders, Deliver(s) PROVE ClaimIsTheirs'
  BY <1>6 DEF Deliver, UpToTwo
<1>7. ASSUME NEW s \in Senders, SaveResult(s) PROVE ClaimIsTheirs'
  BY <1>7 DEF SaveResult, End, StillClaimed, Leaves
<1>8. ASSUME NEW s \in Senders, DropResult(s) PROVE ClaimIsTheirs'
  BY <1>8 DEF DropResult, End
<1>9. ASSUME NEW s \in Senders, SenderDies(s) PROVE ClaimIsTheirs'
  BY <1>9 DEF SenderDies, End
<1>10. CASE UNCHANGED <<mail, token, sender, holds, result, retaken>>
  BY <1>10
<1> HIDE DEF MailInv, MailTypeOK, ClaimIsTheirs, Holder
<1> QED
  BY <1>1, <1>2, <1>3, <1>4, <1>5, <1>6, <1>7, <1>8, <1>9, <1>10
  DEF MailNext, mailVars, messageVars, outboxVars, senderVars, mailHistory,
      SendMessage, TimerRings, Reschedule, PatchFolder, BulkAction, ReturnToDrafts,
      PassOver, ListDue, MailTimePasses, Heartbeat

\* An envelope is sent by its one holder, once.
LEMMA TakenByOneStep ==
    MailInv /\ MailTypeOK' /\ [MailNext]_mailVars => TakenByOne'
<1> SUFFICES ASSUME MailInv, MailTypeOK', [MailNext]_mailVars PROVE TakenByOne'
  OBVIOUS
<1> USE MailConstants
    DEF MailInv, MailTypeOK, ClaimIsTheirs, TakenByOne, Untaken, Holder,
        messageVars, outboxVars, senderVars, mailHistory
<1>1. ASSUME NEW m \in Messages, DeleteMessage(m) PROVE TakenByOne'
  BY <1>1 DEF DeleteMessage, DeliveryStarted, Cancellable
<1>2. ASSUME NEW m \in Messages, NEW r \in Envelopes, HandOver(m, r) PROVE TakenByOne'
  BY <1>2 DEF HandOver, Pass, StillDue, ScheduledAndDue, StatusAtInsert, UpToTwo
<1>3. ASSUME NEW s \in Senders, NEW r \in Envelopes, SendNow(s, r) PROVE TakenByOne'
  BY <1>3 DEF SendNow, Begin, StatusAtInsert
<1>4. ASSUME NEW s \in Senders, NEW r \in Envelopes, ClaimMail(s, r) PROVE TakenByOne'
  BY <1>4 DEF ClaimMail, Begin, Claimable
<1>5. ASSUME NEW r \in Envelopes, Enqueue(r) PROVE TakenByOne'
  BY <1>5 DEF Enqueue, StatusAtInsert
<1>6. ASSUME NEW s \in Senders, Deliver(s) PROVE TakenByOne'
  BY <1>6 DEF Deliver, UpToTwo
<1>7. ASSUME NEW s \in Senders, SaveResult(s) PROVE TakenByOne'
  BY <1>7 DEF SaveResult, End, StillClaimed, Leaves
<1>8. ASSUME NEW s \in Senders, DropResult(s) PROVE TakenByOne'
  BY <1>8 DEF DropResult, End
<1>9. ASSUME NEW s \in Senders, SenderDies(s) PROVE TakenByOne'
  BY <1>9 DEF SenderDies, End
<1>10. CASE UNCHANGED <<mail, sender, holds, result, taken, retaken, ambiguous>>
  BY <1>10
<1> HIDE DEF MailInv, MailTypeOK, ClaimIsTheirs, TakenByOne, Untaken, Holder
<1> QED
  BY <1>1, <1>2, <1>3, <1>4, <1>5, <1>6, <1>7, <1>8, <1>9, <1>10
  DEF MailNext, mailVars, messageVars, outboxVars, senderVars, mailHistory,
      SendMessage, TimerRings, Reschedule, PatchFolder, BulkAction, ReturnToDrafts,
      PassOver, ListDue, MailTimePasses, Heartbeat

\* Nothing is composed and nothing queued at the start.
LEMMA MailInitInv == MailInit => MailInv
BY MailConstants
DEF MailInit, MailInv, MailTypeOK, HandOverIsMarked, AttemptsLeft, ClaimIsTheirs,
    TakenByOne, Untaken, Holder, Folder, MailStatus

\* Every state has the inductive invariant.
THEOREM MailInvariant == MailSpec => []MailInv
<1>1. MailInv /\ [MailNext]_mailVars => MailInv'
  BY MailTypeStep, HandOverIsMarkedStep, AttemptsLeftStep, ClaimIsTheirsStep,
     TakenByOneStep
  DEF MailInv
<1> QED
  BY MailInitInv, <1>1, PTL DEF MailSpec

\* A message is handed over at most once.
THEOREM HandedOverAtMostOnce == MailSpec => []HandedOverOnce
<1>1. MailInv => HandedOverOnce
  <2> SUFFICES ASSUME MailInv, NEW m \in Messages PROVE handed[m] <= 1
    BY DEF HandedOverOnce
  <2>1. handed[m] = 0 \/ handed[m] = 1
    BY DEF MailInv, HandOverIsMarked
  <2> QED
    BY <2>1
<1> QED
  BY MailInvariant, <1>1, PTL

\* Only a lease that ran out or an answer that lies sends an envelope twice.
THEOREM DuplicatesAreExcused == MailSpec => []DuplicatesExcused
<1>1. MailInv => DuplicatesExcused
  BY DEF MailInv, TakenByOne, DuplicatesExcused
<1> QED
  BY MailInvariant, <1>1, PTL

\* A sent envelope stays sent.
SentStays == \A r \in Envelopes : mail[r] = "sent" => mail'[r] = "sent"

\* A cancelled one is left alone by the provider.
CancelledStays ==
    \A r \in Envelopes : mail[r] = "cancelled" /\ taken'[r] # taken[r] => r \in retaken

\* A deleted message gets no envelope.
DeletedStays == \A m \in Messages : folder[m] = "deleted" => envelope'[m] = envelope[m]

\* What was sent carries no claim, and only a new, free or claimed envelope changes.
LEMMA SentStep ==
    MailInv /\ [MailNext]_mailVars => SentStays
<1> SUFFICES ASSUME MailInv, [MailNext]_mailVars PROVE SentStays
  OBVIOUS
<1> USE MailConstants
    DEF MailInv, MailTypeOK, ClaimIsTheirs, SentStays, messageVars, outboxVars,
        senderVars, mailHistory
<1>1. ASSUME NEW m \in Messages, DeleteMessage(m) PROVE SentStays
  BY <1>1 DEF DeleteMessage, DeliveryStarted, Cancellable
<1>2. ASSUME NEW m \in Messages, NEW r \in Envelopes, HandOver(m, r) PROVE SentStays
  BY <1>2 DEF HandOver, Pass, StillDue, ScheduledAndDue, StatusAtInsert, UpToTwo
<1>3. ASSUME NEW s \in Senders, NEW r \in Envelopes, SendNow(s, r) PROVE SentStays
  BY <1>3 DEF SendNow, Begin, StatusAtInsert
<1>4. ASSUME NEW s \in Senders, NEW r \in Envelopes, ClaimMail(s, r) PROVE SentStays
  BY <1>4 DEF ClaimMail, Begin, Claimable
<1>5. ASSUME NEW r \in Envelopes, Enqueue(r) PROVE SentStays
  BY <1>5 DEF Enqueue, StatusAtInsert
<1>6. ASSUME NEW s \in Senders, SaveResult(s) PROVE SentStays
  BY <1>6 DEF SaveResult, End, StillClaimed, Leaves
<1>7. CASE UNCHANGED mail
  BY <1>7
<1> HIDE DEF MailInv, MailTypeOK, ClaimIsTheirs, SentStays
<1> QED
  BY <1>1, <1>2, <1>3, <1>4, <1>5, <1>6, <1>7
  DEF MailNext, mailVars, messageVars, outboxVars, senderVars, mailHistory,
      SendMessage, TimerRings, Reschedule, PatchFolder, BulkAction, ReturnToDrafts,
      PassOver, ListDue, MailTimePasses, Heartbeat, Deliver, DropResult, SenderDies

\* Who delivers holds an envelope being sent, or one retaken.
LEMMA CancelledStep ==
    MailInv /\ [MailNext]_mailVars => CancelledStays
<1> SUFFICES ASSUME MailInv, [MailNext]_mailVars PROVE CancelledStays
  OBVIOUS
<1> USE MailConstants
    DEF MailInv, MailTypeOK, ClaimIsTheirs, Holder, CancelledStays, messageVars,
        outboxVars, senderVars, mailHistory
<1>1. ASSUME NEW s \in Senders, Deliver(s) PROVE CancelledStays
  BY <1>1 DEF Deliver, UpToTwo
<1>2. CASE UNCHANGED taken
  BY <1>2
<1> HIDE DEF MailInv, MailTypeOK, ClaimIsTheirs, Holder, CancelledStays
<1> QED
  BY <1>1, <1>2
  DEF MailNext, mailVars, messageVars, outboxVars, senderVars, mailHistory,
      SendMessage, TimerRings, Reschedule, PatchFolder, BulkAction, DeleteMessage,
      ReturnToDrafts, PassOver, ListDue, HandOver, SendNow, ClaimMail, Enqueue,
      MailTimePasses, Heartbeat, SaveResult, DropResult, SenderDies

\* The hand-over reads the folder again.
LEMMA DeletedStep ==
    MailInv /\ [MailNext]_mailVars => DeletedStays
<1> SUFFICES ASSUME MailInv, [MailNext]_mailVars PROVE DeletedStays
  OBVIOUS
<1> USE MailConstants
    DEF MailInv, MailTypeOK, DeletedStays, messageVars, outboxVars, senderVars,
        mailHistory
<1>1. ASSUME NEW m \in Messages, NEW r \in Envelopes, HandOver(m, r) PROVE DeletedStays
  BY <1>1 DEF HandOver, Pass, StillDue, ScheduledAndDue, StatusAtInsert, UpToTwo
<1>2. CASE UNCHANGED envelope
  BY <1>2
<1> HIDE DEF MailInv, MailTypeOK, DeletedStays
<1> QED
  BY <1>1, <1>2
  DEF MailNext, mailVars, messageVars, outboxVars, senderVars, mailHistory,
      SendMessage, TimerRings, Reschedule, PatchFolder, BulkAction, DeleteMessage,
      ReturnToDrafts, PassOver, ListDue, SendNow, ClaimMail, Enqueue,
      MailTimePasses, Heartbeat, Deliver, SaveResult, DropResult, SenderDies

\* A late result, claim or cancellation never changes a sent envelope.
THEOREM SentStaysSent == MailSpec => SentIsFinal
<1>1. MailInv /\ [MailNext]_mailVars => [SentStays]_mailVars
  BY SentStep
<1> QED
  BY MailInvariant, <1>1, PTL DEF MailSpec, SentIsFinal, SentStays

\* A cancelled envelope is not sent any more, but by a sender whose lease ran out.
THEOREM CancelledStaysUnsent == MailSpec => CancelHolds
<1>1. MailInv /\ [MailNext]_mailVars => [CancelledStays]_mailVars
  BY CancelledStep
<1> QED
  BY MailInvariant, <1>1, PTL DEF MailSpec, CancelHolds, CancelledStays

\* A deleted message is not handed over.
THEOREM UndoIsKept == MailSpec => UndoHolds
<1>1. MailInv /\ [MailNext]_mailVars => [DeletedStays]_mailVars
  BY DeletedStep
<1> QED
  BY MailInvariant, <1>1, PTL DEF MailSpec, UndoHolds, DeletedStays

\* Every variable keeps its type.
THEOREM MailTypeCorrect == MailSpec => []MailTypeOK
BY MailInvariant, PTL DEF MailInv
================================================================================
