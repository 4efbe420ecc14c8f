-------------------------- MODULE StudioDelivery_Proofs --------------------------
(***************************************************************************)
(* Type correctness and the safety properties of StudioDelivery for any    *)
(* number of events, workflows, sweeps and nodes, and any timing with      *)
(* ReviewAfter >= TimeLimit + 5 * (Claim - 1).                             *)
(*                                                                         *)
(* The inductive invariant says who owns a run (RunOwner), what it has     *)
(* done (NodesAhead), how old it can be when the claim ends (ClaimInTime)  *)
(* and what a sweep still owes the delivery (NothingSkipped).  One lemma   *)
(* for each of its conjuncts goes through the actions.                     *)
(***************************************************************************)
EXTENDS StudioDelivery, TLAPS

\* Every event and workflow make a run.
LEMMA RunPair == \A e \in Events, w \in Workflows : <<e, w>> \in Runs
BY DEF Runs

\* A claim is shorter than any of the bounds that LastAge adds up.
LEMMA ClaimBounds == /\ Claim <= TimeLimit + 3 * (Claim - 1)
                     /\ Claim <= TimeLimit + 5 * (Claim - 1)
BY StudioConstants

\* The outbox row keeps its types.
LEMMA OutboxTypeStep == TypeOK /\ [Next]_vars => OutboxType'
<1> SUFFICES ASSUME TypeOK, [Next]_vars PROVE OutboxType'
  OBVIOUS
<1> USE StudioConstants DEF TypeOK, OutboxType, SweepType, DeliveryStatus,
                            outboxVars, runVars, claimVars, effectVars,
                            sweepVars, execVars
<1>1. ASSUME NEW w \in Workflows, Pause(w) PROVE OutboxType'
  BY <1>1 DEF Pause
<1>2. ASSUME NEW w \in Workflows, Resume(w) PROVE OutboxType'
  BY <1>2 DEF Resume
<1>3. ASSUME NEW e \in Events, Emit(e) PROVE OutboxType'
  BY <1>3 DEF Emit
<1>4. ASSUME NEW e \in Events, LeaseExpires(e) PROVE OutboxType'
  BY <1>4 DEF LeaseExpires
<1>5. ASSUME NEW e \in Events, Retry(e) PROVE OutboxType'
  BY <1>5 DEF Retry
<1>6. ASSUME NEW p \in Workers, NEW e \in Events, ClaimDelivery(p, e)
      PROVE  OutboxType'
  BY <1>6 DEF ClaimDelivery, Goto, Due, UpTo
<1>7. ASSUME NEW p \in Workers, Settle(p) PROVE OutboxType'
  BY <1>7 DEF Settle, Goto, LeaseHeld, Outcome, SweepEnds
<1>8. CASE UNCHANGED <<active, outboxVars>>
  BY <1>8
<1> QED
  BY <1>1, <1>2, <1>3, <1>4, <1>5, <1>6, <1>7, <1>8
  DEF Next, SweepStep, TryWorkflow, RunStep, vars, SelectWorkflows, AllTried,
      StartRun, RunExists, InsertFails, InsertUnacknowledged, BeginRun,
      BeforeStep, BeforeAction, Execute, Checkpoint, FinishRun, Crash, Cancel,
      Reconcile, Tick, NextWorkflow, SweepEnds, LoseRun

\* The run rows keep their types.
LEMMA RunTypeStep == TypeOK /\ [Next]_vars => RunType'
<1> SUFFICES ASSUME TypeOK, [Next]_vars PROVE RunType'
  OBVIOUS
<1> USE StudioConstants DEF TypeOK, RunType, SweepType, RunStatus, outboxVars,
                            runVars, claimVars, effectVars, sweepVars,
                            execVars
<1>1. ASSUME NEW p \in Workers, NEW w \in Workflows, StartRun(p, w)
      PROVE  RunType'
  BY <1>1, RunPair DEF StartRun, Goto, NextWorkflow, InsertRun, NewRun, RunOf
<1>2. ASSUME NEW p \in Workers, NEW w \in Workflows, InsertUnacknowledged(p, w)
      PROVE  RunType'
  BY <1>2, RunPair DEF InsertUnacknowledged, Goto, NextWorkflow, InsertRun,
     NewRun, RunOf
<1>3. ASSUME NEW p \in Workers, BeforeStep(p) PROVE RunType'
  BY <1>3 DEF BeforeStep, Goto, ClaimHeld, MayStep, RenewClaim, FailNode, FailLoop
<1>4. ASSUME NEW p \in Workers, BeforeAction(p) PROVE RunType'
  BY <1>4 DEF BeforeAction, Goto, ClaimHeld, MayAct, RenewClaim, FailNode, FailLoop
<1>5. ASSUME NEW p \in Workers, Execute(p) PROVE RunType'
  BY <1>5 DEF Execute, Goto
<1>6. ASSUME NEW p \in Workers, Checkpoint(p) PROVE RunType'
  BY <1>6 DEF Checkpoint, Goto, ClaimHeld, RenewClaim, LoseRun
<1>7. ASSUME NEW p \in Workers, FinishRun(p) PROVE RunType'
  BY <1>7, RunPair DEF FinishRun, Goto, ClaimHeld, LoseRun
<1>8. ASSUME NEW x \in Runs, Cancel(x) PROVE RunType'
  BY <1>8 DEF Cancel
<1>9. ASSUME NEW x \in Runs, Reconcile(x) PROVE RunType'
  BY <1>9 DEF Reconcile, Reviewable
<1>10. ASSUME Tick PROVE RunType'
  BY <1>10 DEF Tick, UpTo
<1>11. CASE UNCHANGED <<runVars>>
  BY <1>11
<1> QED
  BY <1>1, <1>2, <1>3, <1>4, <1>5, <1>6, <1>7, <1>8, <1>9, <1>10, <1>11
  DEF Next, SweepStep, TryWorkflow, RunStep, vars, Pause, Resume, Emit,
      LeaseExpires, Retry, ClaimDelivery, SelectWorkflows, AllTried,
      RunExists, InsertFails, BeginRun, Settle, Crash, NextWorkflow, SweepEnds

\* The sweeps keep their types.
LEMMA SweepTypeStep == TypeOK /\ [Next]_vars => SweepType'
<1> SUFFICES ASSUME TypeOK, [Next]_vars PROVE SweepType'
  OBVIOUS
<1> USE StudioConstants DEF TypeOK, SweepType, OutboxType, SweepPc,
                            outboxVars, runVars, claimVars, effectVars,
                            sweepVars, execVars
<1>1. ASSUME NEW p \in Workers, NEW e \in Events, ClaimDelivery(p, e)
      PROVE  SweepType'
  BY <1>1 DEF ClaimDelivery, Goto, Due, UpTo
<1>2. ASSUME NEW p \in Workers, SelectWorkflows(p) PROVE SweepType'
  BY <1>2 DEF SelectWorkflows, Goto, Runnable
<1>3. ASSUME NEW p \in Workers, AllTried(p) PROVE SweepType'
  BY <1>3 DEF AllTried, Goto
<1>4. ASSUME NEW p \in Workers, NEW w \in Workflows, StartRun(p, w)
      PROVE  SweepType'
  BY <1>4, RunPair DEF StartRun, Goto, NextWorkflow, InsertRun, NewRun, RunOf
<1>5. ASSUME NEW p \in Workers, NEW w \in Workflows, RunExists(p, w)
      PROVE  SweepType'
  BY <1>5, RunPair DEF RunExists, Goto, NextWorkflow, NewRun, RunOf
<1>6. ASSUME NEW p \in Workers, NEW w \in Workflows, InsertFails(p, w)
      PROVE  SweepType'
  BY <1>6 DEF InsertFails, Goto, NextWorkflow
<1>7. ASSUME NEW p \in Workers, NEW w \in Workflows, InsertUnacknowledged(p, w)
      PROVE  SweepType'
  BY <1>7, RunPair DEF InsertUnacknowledged, Goto, NextWorkflow, InsertRun,
     NewRun, RunOf
<1>8. ASSUME NEW p \in Workers, BeginRun(p) PROVE SweepType'
  BY <1>8 DEF BeginRun, Goto
<1>9. ASSUME NEW p \in Workers, BeforeStep(p) PROVE SweepType'
  BY <1>9 DEF BeforeStep, Goto, ClaimHeld, MayStep, RenewClaim, FailNode, FailLoop
<1>10. ASSUME NEW p \in Workers, BeforeAction(p) PROVE SweepType'
  BY <1>10 DEF BeforeAction, Goto, ClaimHeld, MayAct, RenewClaim, FailNode, FailLoop
<1>11. ASSUME NEW p \in Workers, Execute(p) PROVE SweepType'
  BY <1>11 DEF Execute, Goto
<1>12. ASSUME NEW p \in Workers, Checkpoint(p) PROVE SweepType'
  BY <1>12 DEF Checkpoint, Goto, ClaimHeld, RenewClaim, LoseRun
<1>13. ASSUME NEW p \in Workers, FinishRun(p) PROVE SweepType'
  BY <1>13, RunPair DEF FinishRun, Goto, ClaimHeld, LoseRun
<1>14. ASSUME NEW p \in Workers, Settle(p) PROVE SweepType'
  BY <1>14 DEF Settle, Goto, LeaseHeld, Outcome, SweepEnds
<1>15. ASSUME NEW p \in Workers, Crash(p) PROVE SweepType'
  BY <1>15 DEF Crash, Goto, SweepEnds
<1>16. CASE UNCHANGED <<sweepVars>>
  BY <1>16
<1> QED
  BY <1>1, <1>2, <1>3, <1>4, <1>5, <1>6, <1>7, <1>8, <1>9, <1>10, <1>11,
     <1>12, <1>13, <1>14, <1>15, <1>16
  DEF Next, SweepStep, TryWorkflow, RunStep, vars, Pause, Resume, Emit,
      LeaseExpires, Retry, Cancel, Reconcile, Tick

\* A node is executed only by the owner of its run, and only once.
LEMMA EffectOnceStep == IndInv /\ TypeOK' /\ [Next]_vars => EffectOnce'
<1> SUFFICES ASSUME IndInv, TypeOK', [Next]_vars PROVE EffectOnce'
  OBVIOUS
<1> USE StudioConstants DEF IndInv, TypeOK, EffectOnce, NodesAhead, SweepType,
                            RunType, outboxVars, runVars, claimVars,
                            effectVars, sweepVars, execVars
<1>1. ASSUME NEW p \in Workers, Execute(p) PROVE EffectOnce'
  BY <1>1 DEF Execute, Goto
<1>2. CASE UNCHANGED <<repeated>>
  BY <1>2
<1> HIDE DEF IndInv, TypeOK, NodesAhead, SweepType, RunType
<1> QED
  BY <1>1, <1>2
  DEF Next, SweepStep, TryWorkflow, RunStep, vars, Pause, Resume, Emit,
      LeaseExpires, Retry, ClaimDelivery, SelectWorkflows, AllTried, StartRun,
      RunExists, InsertFails, InsertUnacknowledged, BeginRun, BeforeStep,
      BeforeAction, Checkpoint, FinishRun, Settle, Crash, Cancel, Reconcile,
      Tick, NextWorkflow, SweepEnds, LoseRun

\* A delivery settled without a failure has every run it is due.
LEMMA DeliveredIsCompleteStep == IndInv /\ TypeOK' /\ [Next]_vars => DeliveredIsComplete'
<1> SUFFICES ASSUME IndInv, TypeOK', [Next]_vars PROVE DeliveredIsComplete'
  OBVIOUS
<1> USE StudioConstants DEF IndInv, TypeOK, DeliveredIsComplete,
                            LeasedIsProcessing, NothingSkipped, StayedActive,
                            SweepType, OutboxType, RunType, RunStatus,
                            outboxVars, runVars, claimVars, effectVars,
                            sweepVars, execVars
<1>1. ASSUME NEW w \in Workflows, Pause(w) PROVE DeliveredIsComplete'
  BY <1>1 DEF Pause
<1>2. ASSUME NEW e \in Events, Emit(e) PROVE DeliveredIsComplete'
  BY <1>2 DEF Emit
<1>3. ASSUME NEW e \in Events, Retry(e) PROVE DeliveredIsComplete'
  BY <1>3 DEF Retry
<1>4. ASSUME NEW p \in Workers, NEW e \in Events, ClaimDelivery(p, e)
      PROVE  DeliveredIsComplete'
  BY <1>4 DEF ClaimDelivery, Goto, Due, UpTo
<1>5. ASSUME NEW p \in Workers, NEW w \in Workflows, StartRun(p, w)
      PROVE  DeliveredIsComplete'
  BY <1>5, RunPair DEF StartRun, Goto, NextWorkflow, InsertRun, NewRun, RunOf
<1>6. ASSUME NEW p \in Workers, NEW w \in Workflows, InsertUnacknowledged(p, w)
      PROVE  DeliveredIsComplete'
  BY <1>6, RunPair DEF InsertUnacknowledged, Goto, NextWorkflow, InsertRun,
     NewRun, RunOf
<1>7. ASSUME NEW p \in Workers, FinishRun(p) PROVE DeliveredIsComplete'
  <2>1. ASSUME NEW x \in Runs, status[x] # "none" PROVE status'[x] # "none"
    <3>1. \/ status' = [status EXCEPT ![run[p]] = "FAILED"]
          \/ status' = [status EXCEPT ![run[p]] = "SUCCESS"]
          \/ status' = status
      BY <1>7, RunPair DEF FinishRun
    <3> HIDE DEF DeliveredIsComplete, NothingSkipped, LeasedIsProcessing
    <3> QED
      BY <2>1, <3>1
  <2>2. UNCHANGED <<delivery, snapshot, interrupted>>
    BY <1>7, RunPair DEF FinishRun
  <2> QED
    BY <2>1, <2>2, RunPair
<1>8. ASSUME NEW p \in Workers, Settle(p) PROVE DeliveredIsComplete'
  BY <1>8 DEF Settle, Goto, LeaseHeld, Outcome, SweepEnds
<1>9. CASE UNCHANGED <<delivery, snapshot, interrupted, status>>
  BY <1>9
<1> QED
  BY <1>1, <1>2, <1>3, <1>4, <1>5, <1>6, <1>7, <1>8, <1>9
  DEF Next, SweepStep, TryWorkflow, RunStep, vars, Resume, LeaseExpires,
      SelectWorkflows, AllTried, RunExists, InsertFails, BeginRun, BeforeStep,
      BeforeAction, Execute, Checkpoint, Crash, Cancel, Reconcile, Tick,
      NextWorkflow, SweepEnds, LoseRun

\* A run is executed by the sweep that inserted it.
LEMMA RunOwnerStep == IndInv /\ TypeOK' /\ [Next]_vars => RunOwner'
<1> SUFFICES ASSUME IndInv, TypeOK', [Next]_vars PROVE RunOwner'
  OBVIOUS
<1> USE StudioConstants DEF IndInv, TypeOK, RunOwner, SweepType, RunType,
                            SweepPc, RunStatus, Executing, outboxVars,
                            runVars, claimVars, effectVars, sweepVars,
                            execVars
<1>1. ASSUME NEW p \in Workers, NEW e \in Events, ClaimDelivery(p, e)
      PROVE  RunOwner'
  BY <1>1 DEF ClaimDelivery, Goto, Due, UpTo
<1>2. ASSUME NEW p \in Workers, SelectWorkflows(p) PROVE RunOwner'
  BY <1>2 DEF SelectWorkflows, Goto, Runnable
<1>3. ASSUME NEW p \in Workers, AllTried(p) PROVE RunOwner'
  BY <1>3 DEF AllTried, Goto
<1>4. ASSUME NEW p \in Workers, NEW w \in Workflows, StartRun(p, w)
      PROVE  RunOwner'
  <2> DEFINE x == RunOf(p, w)
  <2>1. /\ x \in Runs /\ status[x] = "none"
        /\ status' = [status EXCEPT ![x] = "RUNNING"]
        /\ token' = [token EXCEPT ![x] = p]
        /\ run' = [run EXCEPT ![p] = x] /\ pc' = [pc EXCEPT ![p] = "begin"]
    BY <1>4, RunPair DEF StartRun, Goto, NextWorkflow, InsertRun, NewRun, RunOf
  <2>2. token'[run'[p]] = p /\ status'[run'[p]] # "none"
    BY <2>1
  <2>3. ASSUME NEW q \in Workers, q # p, pc'[q] \in Executing
        PROVE  token'[run'[q]] = q /\ status'[run'[q]] # "none"
    <3>1. pc[q] = pc'[q] /\ run'[q] = run[q]
      BY <2>1, <2>3
    <3>2. token[run[q]] = q /\ status[run[q]] # "none" /\ run[q] \in Runs
      BY <2>3, <3>1
    <3> QED
      BY <2>1, <3>1, <3>2
  <2> QED
    BY <2>2, <2>3
<1>5. ASSUME NEW p \in Workers, NEW w \in Workflows, InsertUnacknowledged(p, w)
      PROVE  RunOwner'
  BY <1>5, RunPair DEF InsertUnacknowledged, Goto, NextWorkflow, InsertRun,
     NewRun, RunOf
<1>6. ASSUME NEW p \in Workers, BeginRun(p) PROVE RunOwner'
  BY <1>6 DEF BeginRun, Goto
<1>7. ASSUME NEW p \in Workers, BeforeStep(p) PROVE RunOwner'
  BY <1>7 DEF BeforeStep, Goto, ClaimHeld, MayStep, RenewClaim, FailNode, FailLoop
<1>8. ASSUME NEW p \in Workers, BeforeAction(p) PROVE RunOwner'
  BY <1>8 DEF BeforeAction, Goto, ClaimHeld, MayAct, RenewClaim, FailNode, FailLoop
<1>9. ASSUME NEW p \in Workers, Execute(p) PROVE RunOwner'
  BY <1>9 DEF Execute, Goto
<1>10. ASSUME NEW p \in Workers, Checkpoint(p) PROVE RunOwner'
  BY <1>10 DEF Checkpoint, Goto, ClaimHeld, RenewClaim, LoseRun
<1>11. ASSUME NEW p \in Workers, FinishRun(p) PROVE RunOwner'
  BY <1>11, RunPair DEF FinishRun, Goto, ClaimHeld, LoseRun
<1>12. ASSUME NEW p \in Workers, Settle(p) PROVE RunOwner'
  BY <1>12 DEF Settle, Goto, LeaseHeld, Outcome, SweepEnds
<1>13. ASSUME NEW p \in Workers, Crash(p) PROVE RunOwner'
  BY <1>13 DEF Crash, Goto, SweepEnds
<1>14. CASE UNCHANGED <<pc, run, token, status>>
  BY <1>14
<1> QED
  BY <1>1, <1>2, <1>3, <1>4, <1>5, <1>6, <1>7, <1>8, <1>9, <1>10, <1>11,
     <1>12, <1>13, <1>14
  DEF Next, SweepStep, TryWorkflow, RunStep, vars, Pause, Resume, Emit,
      LeaseExpires, Retry, RunExists, InsertFails, Cancel, Reconcile, Tick,
      NextWorkflow

\* A sweep executes the nodes of its run in order.
LEMMA NodesAheadStep == IndInv /\ TypeOK' /\ [Next]_vars => NodesAhead'
<1> SUFFICES ASSUME IndInv, TypeOK', [Next]_vars PROVE NodesAhead'
  OBVIOUS
<1> USE StudioConstants DEF IndInv, TypeOK, NodesAhead, RunOwner, SweepType,
                            RunType, SweepPc, Executing, RunStatus,
                            outboxVars, runVars, claimVars, effectVars,
                            sweepVars, execVars
<1>1. ASSUME NEW p \in Workers, NEW e \in Events, ClaimDelivery(p, e)
      PROVE  NodesAhead'
  BY <1>1 DEF ClaimDelivery, Goto, Due, UpTo
<1>2. ASSUME NEW p \in Workers, SelectWorkflows(p) PROVE NodesAhead'
  BY <1>2 DEF SelectWorkflows, Goto, Runnable
<1>3. ASSUME NEW p \in Workers, AllTried(p) PROVE NodesAhead'
  BY <1>3 DEF AllTried, Goto
<1>4. ASSUME NEW p \in Workers, NEW w \in Workflows, StartRun(p, w)
      PROVE  NodesAhead'
  <2>1. \A n \in 1..Nodes : <<RunOf(p, w), n>> \notin executed
    BY <1>4, RunPair DEF StartRun, Goto, NextWorkflow, InsertRun, NewRun, RunOf
  <2>2. ASSUME NEW q \in Workers, q # p
        PROVE  pc'[q] = pc[q] /\ run'[q] = run[q] /\ node'[q] = node[q]
    <3>1. /\ pc' = [pc EXCEPT ![p] = "begin"] /\ node' = [node EXCEPT ![p] = 1]
          /\ run' = [run EXCEPT ![p] = RunOf(p, w)]
      BY <1>4, RunPair DEF StartRun, Goto
    <3> HIDE DEF NodesAhead, RunOwner, RunType
    <3> QED
      BY <2>2, <3>1
  <2>3. run'[p] = RunOf(p, w) /\ executed' = executed
    BY <1>4, RunPair DEF StartRun, Goto, NextWorkflow, InsertRun, NewRun, RunOf
  <2>4. \A x \in Runs : status[x] # "none" => status'[x] # "none"
    BY <1>4, RunPair DEF StartRun, Goto, NextWorkflow, InsertRun, NewRun, RunOf
  <2> QED
    BY <2>1, <2>2, <2>3, <2>4
<1>5. ASSUME NEW p \in Workers, NEW w \in Workflows, InsertUnacknowledged(p, w)
      PROVE  NodesAhead'
  BY <1>5, RunPair DEF InsertUnacknowledged, Goto, NextWorkflow, InsertRun,
     NewRun, RunOf
<1>6. ASSUME NEW p \in Workers, BeginRun(p) PROVE NodesAhead'
  BY <1>6 DEF BeginRun, Goto
<1>7. ASSUME NEW p \in Workers, BeforeStep(p) PROVE NodesAhead'
  BY <1>7 DEF BeforeStep, Goto, ClaimHeld, MayStep, RenewClaim, FailNode, FailLoop
<1>8. ASSUME NEW p \in Workers, BeforeAction(p) PROVE NodesAhead'
  BY <1>8 DEF BeforeAction, Goto, ClaimHeld, MayAct, RenewClaim, FailNode, FailLoop
<1>9. ASSUME NEW p \in Workers, Execute(p) PROVE NodesAhead'
  BY <1>9 DEF Execute, Goto
<1>10. ASSUME NEW p \in Workers, Checkpoint(p) PROVE NodesAhead'
  BY <1>10 DEF Checkpoint, Goto, ClaimHeld, RenewClaim, LoseRun
<1>11. ASSUME NEW p \in Workers, FinishRun(p) PROVE NodesAhead'
  BY <1>11, RunPair DEF FinishRun, Goto, ClaimHeld, LoseRun
<1>12. ASSUME NEW p \in Workers, Settle(p) PROVE NodesAhead'
  BY <1>12 DEF Settle, Goto, LeaseHeld, Outcome, SweepEnds
<1>13. ASSUME NEW p \in Workers, Crash(p) PROVE NodesAhead'
  BY <1>13 DEF Crash, Goto, SweepEnds
<1>14. CASE UNCHANGED <<pc, run, node, status, executed>>
  BY <1>14
<1> QED
  BY <1>1, <1>2, <1>3, <1>4, <1>5, <1>6, <1>7, <1>8, <1>9, <1>10, <1>11,
     <1>12, <1>13, <1>14
  DEF Next, SweepStep, TryWorkflow, RunStep, vars, Pause, Resume, Emit,
      LeaseExpires, Retry, RunExists, InsertFails, Cancel, Reconcile, Tick,
      NextWorkflow

\* Every renewal of a claim moves its end within the bound of its place.
LEMMA ClaimInTimeStep == IndInv /\ TypeOK' /\ [Next]_vars => ClaimInTime'
<1> SUFFICES ASSUME IndInv, TypeOK', [Next]_vars PROVE ClaimInTime'
  OBVIOUS
<1> USE StudioConstants DEF IndInv, TypeOK, ClaimInTime, RunOwner, LastAge,
                            SweepType, RunType, SweepPc, Executing, RunStatus,
                            outboxVars, runVars, claimVars, effectVars,
                            sweepVars, execVars
<1>1. ASSUME NEW p \in Workers, NEW e \in Events, ClaimDelivery(p, e)
      PROVE  ClaimInTime'
  BY <1>1 DEF ClaimDelivery, Goto, Due, UpTo
<1>2. ASSUME NEW p \in Workers, SelectWorkflows(p) PROVE ClaimInTime'
  BY <1>2 DEF SelectWorkflows, Goto, Runnable
<1>3. ASSUME NEW p \in Workers, AllTried(p) PROVE ClaimInTime'
  BY <1>3 DEF AllTried, Goto
<1>4. ASSUME NEW p \in Workers, NEW w \in Workflows, StartRun(p, w)
      PROVE  ClaimInTime'
  <2> DEFINE x == RunOf(p, w)
  <2>1. /\ x \in Runs /\ status[x] = "none"
        /\ age' = [age EXCEPT ![x] = 0] /\ ttl' = [ttl EXCEPT ![x] = Claim]
    BY <1>4, RunPair DEF StartRun, Goto, NextWorkflow, InsertRun, NewRun, RunOf
  <2>2. age'[run'[p]] + ttl'[run'[p]] <= LastAge(p)'
    <3>1. pc'[p] = "begin" /\ run'[p] = x
      BY <1>4, RunPair DEF StartRun, Goto, NextWorkflow, InsertRun, NewRun,
         RunOf
    <3> QED
      BY <2>1, <3>1
  <2>3. ASSUME NEW q \in Workers, q # p, pc'[q] \in Executing, ttl'[run'[q]] > 0
        PROVE  age'[run'[q]] + ttl'[run'[q]] <= LastAge(q)'
    <3>1. pc'[q] = pc[q] /\ run'[q] = run[q] /\ (q \in nodeFailed' <=> q \in nodeFailed)
      BY <1>4, <2>3 DEF StartRun, Goto, NextWorkflow, InsertRun, NewRun, RunOf
    <3>2. run[q] # x
      BY <2>1, <2>3, <3>1
    <3> QED
      BY <2>1, <2>3, <3>1, <3>2
  <2> QED
    BY <2>2, <2>3
<1>5. ASSUME NEW p \in Workers, NEW w \in Workflows, InsertUnacknowledged(p, w)
      PROVE  ClaimInTime'
  <2> DEFINE x == RunOf(p, w)
  <2>1. /\ x \in Runs /\ status[x] = "none"
        /\ age' = [age EXCEPT ![x] = 0] /\ ttl' = [ttl EXCEPT ![x] = Claim]
    BY <1>5, RunPair DEF InsertUnacknowledged, Goto, NextWorkflow, InsertRun,
       NewRun, RunOf
  <2>2. UNCHANGED <<pc, run, nodeFailed>>
    BY <1>5, RunPair DEF InsertUnacknowledged, Goto, NextWorkflow, InsertRun,
       NewRun, RunOf
  <2>3. ASSUME NEW q \in Workers, pc[q] \in Executing PROVE run[q] # x
    BY <2>1, <2>3
  <2> QED
    BY <2>1, <2>2, <2>3
<1>6. ASSUME NEW p \in Workers, BeginRun(p) PROVE ClaimInTime'
  <2>1. /\ Claim <= TimeLimit + 3 * (Claim - 1)
        /\ Claim <= TimeLimit + 5 * (Claim - 1)
    BY ClaimBounds
  <2>2. UNCHANGED <<age, ttl, run>>
    BY <1>6 DEF BeginRun, Goto
  <2>3. ASSUME NEW q \in Workers, q # p
        PROVE  LastAge(q)' = LastAge(q) /\ pc'[q] = pc[q]
    <3>1. pc'[q] = pc[q]
      <4>1. pc' = [pc EXCEPT ![p] = "node"] \/ pc' = [pc EXCEPT ![p] = "finish"]
        BY <1>6 DEF BeginRun, Goto
      <4> HIDE DEF ClaimInTime, RunOwner, RunType
      <4> QED
        BY <2>3, <4>1
    <3>2. nodeFailed' = nodeFailed \/ nodeFailed' = nodeFailed \cup {p}
      BY <1>6 DEF BeginRun
    <3>3. CASE q \in nodeFailed
      BY <3>1, <3>2, <3>3
    <3>4. CASE q \notin nodeFailed
      BY <2>3, <3>1, <3>2, <3>4
    <3> QED
      BY <3>3, <3>4
  <2>4. pc[p] = "begin" /\ pc'[p] \in {"node", "finish"}
    BY <1>6 DEF BeginRun, Goto
  <2>5. LastAge(p) = Claim /\ Claim <= LastAge(p)'
    BY <2>1, <2>4
  <2> QED
    BY <2>2, <2>3, <2>4, <2>5
<1>7. ASSUME NEW p \in Workers, BeforeStep(p) PROVE ClaimInTime'
  BY <1>7 DEF BeforeStep, Goto, ClaimHeld, MayStep, RenewClaim, FailNode, FailLoop
<1>8. ASSUME NEW p \in Workers, BeforeAction(p) PROVE ClaimInTime'
  BY <1>8 DEF BeforeAction, Goto, ClaimHeld, MayAct, RenewClaim, FailNode, FailLoop
<1>9. ASSUME NEW p \in Workers, Execute(p) PROVE ClaimInTime'
  BY <1>9 DEF Execute, Goto
<1>10. ASSUME NEW p \in Workers, Checkpoint(p) PROVE ClaimInTime'
  BY <1>10, SMTT(30) DEF Checkpoint, Goto, ClaimHeld, RenewClaim, LoseRun
<1>11. ASSUME NEW p \in Workers, FinishRun(p) PROVE ClaimInTime'
  BY <1>11, RunPair DEF FinishRun, Goto, ClaimHeld, LoseRun
<1>12. ASSUME NEW p \in Workers, Settle(p) PROVE ClaimInTime'
  BY <1>12 DEF Settle, Goto, LeaseHeld, Outcome, SweepEnds
<1>13. ASSUME NEW p \in Workers, Crash(p) PROVE ClaimInTime'
  BY <1>13 DEF Crash, Goto, SweepEnds
<1>14. ASSUME Tick PROVE ClaimInTime'
  BY <1>14 DEF Tick, UpTo
<1>15. CASE UNCHANGED <<pc, run, nodeFailed, ttl, age>>
  BY <1>15
<1> QED
  BY <1>1, <1>2, <1>3, <1>4, <1>5, <1>6, <1>7, <1>8, <1>9, <1>10, <1>11,
     <1>12, <1>13, <1>14, <1>15
  DEF Next, SweepStep, TryWorkflow, RunStep, vars, Pause, Resume, Emit,
      LeaseExpires, Retry, RunExists, InsertFails, Cancel, Reconcile,
      NextWorkflow

\* No sweep finishes a run after it was reviewed.
LEMMA ReviewedAgeStep == IndInv /\ TypeOK' /\ [Next]_vars => ReviewedAge'
<1> SUFFICES ASSUME IndInv, TypeOK', [Next]_vars PROVE ReviewedAge'
  OBVIOUS
<1> USE StudioConstants DEF IndInv, TypeOK, ReviewedAge, RunOwner,
                            ClaimInTime, LastAge, SweepType, RunType,
                            Executing, RunStatus, outboxVars, runVars,
                            claimVars, effectVars, sweepVars, execVars
<1>1. ASSUME NEW p \in Workers, NEW w \in Workflows, StartRun(p, w)
      PROVE  ReviewedAge'
  BY <1>1, RunPair DEF StartRun, Goto, NextWorkflow, InsertRun, NewRun, RunOf
<1>2. ASSUME NEW p \in Workers, NEW w \in Workflows, InsertUnacknowledged(p, w)
      PROVE  ReviewedAge'
  BY <1>2, RunPair DEF InsertUnacknowledged, Goto, NextWorkflow, InsertRun,
     NewRun, RunOf
<1>3. ASSUME NEW p \in Workers, FinishRun(p) PROVE ReviewedAge'
  BY <1>3, RunPair DEF FinishRun, Goto, ClaimHeld, LoseRun
<1>4. ASSUME NEW x \in Runs, Reconcile(x) PROVE ReviewedAge'
  BY <1>4 DEF Reconcile, Reviewable
<1>5. ASSUME Tick PROVE ReviewedAge'
  BY <1>5 DEF Tick, UpTo
<1>6. CASE UNCHANGED <<reviewed, status, age>>
  BY <1>6
<1> QED
  BY <1>1, <1>2, <1>3, <1>4, <1>5, <1>6
  DEF Next, SweepStep, TryWorkflow, RunStep, vars, Pause, Resume, Emit,
      LeaseExpires, Retry, ClaimDelivery, SelectWorkflows, AllTried,
      RunExists, InsertFails, BeginRun, BeforeStep, BeforeAction, Execute,
      Checkpoint, Settle, Crash, Cancel, NextWorkflow, SweepEnds, LoseRun

\* Only a delivery in processing has a lease.
LEMMA LeasedIsProcessingStep == IndInv /\ TypeOK' /\ [Next]_vars => LeasedIsProcessing'
<1> SUFFICES ASSUME IndInv, TypeOK', [Next]_vars PROVE LeasedIsProcessing'
  OBVIOUS
<1> USE StudioConstants DEF IndInv, TypeOK, LeasedIsProcessing, OutboxType,
                            SweepType, outboxVars, runVars, claimVars,
                            effectVars, sweepVars, execVars
<1>1. ASSUME NEW e \in Events, Emit(e) PROVE LeasedIsProcessing'
  BY <1>1 DEF Emit
<1>2. ASSUME NEW e \in Events, Retry(e) PROVE LeasedIsProcessing'
  BY <1>2 DEF Retry
<1>3. ASSUME NEW p \in Workers, NEW e \in Events, ClaimDelivery(p, e)
      PROVE  LeasedIsProcessing'
  BY <1>3 DEF ClaimDelivery, Goto, Due, UpTo
<1>4. ASSUME NEW p \in Workers, Settle(p) PROVE LeasedIsProcessing'
  BY <1>4 DEF Settle, Goto, LeaseHeld, Outcome, SweepEnds
<1>5. CASE UNCHANGED <<lease, delivery>>
  BY <1>5
<1> QED
  BY <1>1, <1>2, <1>3, <1>4, <1>5
  DEF Next, SweepStep, TryWorkflow, RunStep, vars, Pause, Resume,
      LeaseExpires, SelectWorkflows, AllTried, StartRun, RunExists,
      InsertFails, InsertUnacknowledged, BeginRun, BeforeStep, BeforeAction,
      Execute, Checkpoint, FinishRun, Crash, Cancel, Reconcile, Tick,
      NextWorkflow, SweepEnds, LoseRun

\* No workflow drops out of a sweep unnoticed.
LEMMA NothingSkippedStep == IndInv /\ TypeOK' /\ [Next]_vars => NothingSkipped'
<1> SUFFICES ASSUME IndInv, TypeOK', [Next]_vars PROVE NothingSkipped'
  OBVIOUS
<1> USE StudioConstants DEF IndInv, TypeOK, NothingSkipped, StayedActive,
                            SweepType, OutboxType, RunType, SweepPc,
                            RunStatus, outboxVars, runVars, claimVars,
                            effectVars, sweepVars, execVars
<1>1. ASSUME NEW w \in Workflows, Pause(w) PROVE NothingSkipped'
  BY <1>1 DEF Pause
<1>2. ASSUME NEW w \in Workflows, Resume(w) PROVE NothingSkipped'
  BY <1>2 DEF Resume
<1>3. ASSUME NEW e \in Events, Emit(e) PROVE NothingSkipped'
  BY <1>3 DEF Emit
<1>4. ASSUME NEW e \in Events, Retry(e) PROVE NothingSkipped'
  BY <1>4 DEF Retry
<1>5. ASSUME NEW p \in Workers, NEW e \in Events, ClaimDelivery(p, e)
      PROVE  NothingSkipped'
  BY <1>5 DEF ClaimDelivery, Goto, Due, UpTo
<1>6. ASSUME NEW p \in Workers, SelectWorkflows(p) PROVE NothingSkipped'
  BY <1>6 DEF SelectWorkflows, Goto, Runnable
<1>7. ASSUME NEW p \in Workers, AllTried(p) PROVE NothingSkipped'
  BY <1>7 DEF AllTried, Goto
<1>8. ASSUME NEW p \in Workers, NEW w \in Workflows, StartRun(p, w)
      PROVE  NothingSkipped'
  BY <1>8, RunPair DEF StartRun, Goto, NextWorkflow, InsertRun, NewRun, RunOf
<1>9. ASSUME NEW p \in Workers, NEW w \in Workflows, RunExists(p, w)
      PROVE  NothingSkipped'
  BY <1>9, RunPair DEF RunExists, Goto, NextWorkflow, NewRun, RunOf
<1>10. ASSUME NEW p \in Workers, NEW w \in Workflows, InsertFails(p, w)
       PROVE  NothingSkipped'
  BY <1>10 DEF InsertFails, Goto, NextWorkflow
<1>11. ASSUME NEW p \in Workers, NEW w \in Workflows, InsertUnacknowledged(p, w)
       PROVE  NothingSkipped'
  BY <1>11, RunPair DEF InsertUnacknowledged, Goto, NextWorkflow, InsertRun,
     NewRun, RunOf
<1>12. ASSUME NEW p \in Workers, BeginRun(p) PROVE NothingSkipped'
  BY <1>12 DEF BeginRun, Goto
<1>13. ASSUME NEW p \in Workers, BeforeStep(p) PROVE NothingSkipped'
  BY <1>13 DEF BeforeStep, Goto, ClaimHeld, MayStep, RenewClaim, FailNode, FailLoop
<1>14. ASSUME NEW p \in Workers, BeforeAction(p) PROVE NothingSkipped'
  BY <1>14 DEF BeforeAction, Goto, ClaimHeld, MayAct, RenewClaim, FailNode, FailLoop
<1>15. ASSUME NEW p \in Workers, Execute(p) PROVE NothingSkipped'
  BY <1>15 DEF Execute, Goto
<1>16. ASSUME NEW p \in Workers, Checkpoint(p) PROVE NothingSkipped'
  BY <1>16 DEF Checkpoint, Goto, ClaimHeld, RenewClaim, LoseRun
<1>17. ASSUME NEW p \in Workers, FinishRun(p) PROVE NothingSkipped'
  BY <1>17, RunPair DEF FinishRun, Goto, ClaimHeld, LoseRun
<1>18. ASSUME NEW p \in Workers, Settle(p) PROVE NothingSkipped'
  BY <1>18 DEF Settle, Goto, LeaseHeld, Outcome, SweepEnds
<1>19. ASSUME NEW p \in Workers, Crash(p) PROVE NothingSkipped'
  BY <1>19 DEF Crash, Goto, SweepEnds
<1>20. CASE UNCHANGED <<active, outboxVars, status, pc, event, todo, failed>>
  BY <1>20
<1>21. ASSUME NEW e \in Events, LeaseExpires(e) PROVE NothingSkipped'
  BY <1>20, <1>21 DEF LeaseExpires
<1>22. ASSUME NEW x \in Runs, Cancel(x) \/ Reconcile(x) PROVE NothingSkipped'
  BY <1>20, <1>22 DEF Cancel, Reconcile
<1>23. CASE Tick \/ UNCHANGED vars
  BY <1>20, <1>23 DEF Tick, vars
<1> HIDE StudioConstants DEF IndInv, TypeOK, NothingSkipped, StayedActive, SweepType,
                             OutboxType, RunType
<1>24. ASSUME NEW p \in Workers, SweepStep(p) PROVE NothingSkipped'
  BY <1>6, <1>7, <1>8, <1>9, <1>10, <1>11, <1>12, <1>13, <1>14, <1>15, <1>16,
     <1>17, <1>18, <1>24 DEF SweepStep, TryWorkflow, RunStep
<1> QED
  BY <1>1, <1>2, <1>3, <1>4, <1>5, <1>19, <1>21, <1>22, <1>23, <1>24 DEF Next

\* The initial state satisfies the inductive invariant.
LEMMA IndInit == Init => IndInv
<1> SUFFICES ASSUME Init PROVE IndInv
  OBVIOUS
<1> USE StudioConstants DEF Init
<1>1. OutboxType
  BY DEF OutboxType, DeliveryStatus
<1>2. RunType
  BY DEF RunType, RunStatus
<1>3. SweepType
  BY DEF SweepType, SweepPc
<1>4. /\ EffectOnce /\ DeliveredIsComplete /\ RunOwner /\ NodesAhead
      /\ ClaimInTime /\ ReviewedAge /\ LeasedIsProcessing /\ NothingSkipped
  BY DEF EffectOnce, DeliveredIsComplete, RunOwner, NodesAhead, ClaimInTime,
         ReviewedAge, LeasedIsProcessing, NothingSkipped, Executing
<1> QED
  BY <1>1, <1>2, <1>3, <1>4 DEF IndInv, TypeOK

\* Every reachable state satisfies the inductive invariant.
LEMMA Inductive == Spec => []IndInv
<1>1. TypeOK /\ [Next]_vars => TypeOK'
  BY OutboxTypeStep, RunTypeStep, SweepTypeStep DEF TypeOK
<1>2. IndInv /\ [Next]_vars => IndInv'
  BY <1>1, EffectOnceStep, DeliveredIsCompleteStep, RunOwnerStep,
     NodesAheadStep,
     ClaimInTimeStep, ReviewedAgeStep, LeasedIsProcessingStep, NothingSkippedStep
  DEF IndInv
<1> QED
  BY <1>2, IndInit, PTL DEF Spec

\* The variables keep their types: only the statuses of the schema are written.
THEOREM TypeCorrect == Spec => []TypeOK
BY Inductive, PTL DEF IndInv

\* No node is executed twice for one event, whatever expires, dies or retries.
THEOREM EffectsHappenOnce == Spec => []EffectOnce
BY Inductive, PTL DEF IndInv

\* A delivered event has a run of every frozen workflow that stayed active.
THEOREM DeliveryIsComplete == Spec => []DeliveredIsComplete
BY Inductive, PTL DEF IndInv

\* Only BeforeAction takes a sweep to "acting", and it leaves run[p] alone.
LEMMA ActingIsAuthorised ==
    ASSUME NEW p \in Workers, TypeOK, Next, pc[p] # "acting", pc'[p] = "acting"
    PROVE  pc[p] = "authorise" /\ ClaimHeld(p) /\ MayAct(p)
<1> USE DEF TypeOK, SweepType, outboxVars, runVars, sweepVars, execVars
<1>1. ASSUME NEW q \in Workers, BeforeAction(q)
      PROVE  pc[p] = "authorise" /\ ClaimHeld(p) /\ MayAct(p)
  BY <1>1 DEF BeforeAction, FailNode, FailLoop, Goto
<1>2. ASSUME NEW q \in Workers, NEW e \in Events, ClaimDelivery(q, e)
      PROVE  FALSE
  BY <1>2 DEF ClaimDelivery, Goto
<1>3. ASSUME NEW q \in Workers, NEW w \in Workflows, TryWorkflow(q, w)
      PROVE  FALSE
  BY <1>3 DEF TryWorkflow, StartRun, RunExists, InsertFails,
              InsertUnacknowledged, NextWorkflow, Goto
<1>4. ASSUME NEW q \in Workers,
             \/ SelectWorkflows(q) \/ AllTried(q) \/ BeginRun(q) \/ BeforeStep(q)
             \/ Execute(q) \/ Checkpoint(q) \/ FinishRun(q) \/ Settle(q) \/ Crash(q)
      PROVE  FALSE
  BY <1>4 DEF SelectWorkflows, AllTried, BeginRun, BeforeStep, FailNode, FailLoop,
              Execute, Checkpoint, FinishRun, Settle, Crash, SweepEnds, LoseRun, Goto
<1>5. CASE UNCHANGED pc
  BY <1>5
<1> QED
  BY <1>1, <1>2, <1>3, <1>4, <1>5
  DEF Next, SweepStep, RunStep, Pause, Resume, Emit, LeaseExpires, Retry,
      Cancel, Reconcile, Tick

\* Once a cancellation is committed no further node of the run begins.
THEOREM CancellationStopsRun == Spec => CancelStopsRun
<1> DEFINE Stops == \A p \in Workers : run[p] \in cancelled =>
                       ~(pc[p] # "acting" /\ pc'[p] = "acting")
<1>1. IndInv /\ [Next]_vars => [Stops]_vars
  BY ActingIsAuthorised DEF IndInv, MayAct
<1> QED
  BY <1>1, Inductive, PTL DEF Spec, CancelStopsRun

\* A review is of a run that is over: nothing of it changes or begins any more.
THEOREM ReviewIsFinal == Spec => ReviewedIsOver
<1> DEFINE Over == \A x \in reviewed :
              /\ status'[x] = status[x]
              /\ \A p \in Workers :
                    run[p] = x => ~(pc[p] # "acting" /\ pc'[p] = "acting")
<1>1. ASSUME IndInv, Next, NEW x \in reviewed, NEW p \in Workers, run[p] = x,
             pc[p] # "acting", pc'[p] = "acting"
      PROVE  FALSE
  <2>1. pc[p] = "authorise" /\ ClaimHeld(p)
    BY <1>1, ActingIsAuthorised DEF IndInv
  <2>2. age[x] >= ReviewAfter /\ ttl[x] > 0
    BY <1>1, <2>1 DEF IndInv, ReviewedAge, ClaimHeld
  <2>3. age[x] + ttl[x] <= TimeLimit + Claim - 1
    BY <1>1, <2>1, <2>2 DEF IndInv, ClaimInTime, LastAge, Executing
  <2> QED
    BY <1>1, <2>2, <2>3, StudioConstants DEF IndInv, TypeOK, RunType
<1>2. ASSUME IndInv, Next, NEW x \in reviewed PROVE status'[x] = status[x]
  <2> USE StudioConstants DEF IndInv, TypeOK, RunType, SweepType, ReviewedAge
  <2>1. ASSUME NEW p \in Workers, FinishRun(p) PROVE status'[x] = status[x]
    <3>1. CASE run[p] = x /\ ClaimHeld(p)
      <4>1. status[x] = "RUNNING" /\ age[x] >= ReviewAfter /\ ttl[x] > 0
        BY <1>2, <3>1 DEF ClaimHeld
      <4>2. age[x] + ttl[x] <= TimeLimit + 5 * (Claim - 1)
        BY <1>2, <2>1, <3>1, <4>1 DEF ClaimInTime, LastAge, Executing, FinishRun
      <4> QED
        BY <1>2, <4>1, <4>2
    <3>2. CASE ~(run[p] = x /\ ClaimHeld(p))
      BY <1>2, <2>1, <3>2 DEF FinishRun, claimVars
    <3> QED
      BY <3>1, <3>2
  <2>2. ASSUME NEW p \in Workers, NEW w \in Workflows, TryWorkflow(p, w)
        PROVE  status'[x] = status[x]
    BY <1>2, <2>2, RunPair DEF TryWorkflow, StartRun, RunExists, InsertFails,
       InsertUnacknowledged, InsertRun, NewRun, RunOf, claimVars
  <2>3. CASE UNCHANGED status
    BY <2>3
  <2> QED
    BY <1>2, <2>1, <2>2, <2>3
    DEF Next, SweepStep, RunStep, Pause, Resume, Emit, LeaseExpires, Retry,
        ClaimDelivery, SelectWorkflows, AllTried, BeginRun, BeforeStep, BeforeAction,
        Execute, Checkpoint, Settle, Crash, Cancel, Reconcile, Tick, runVars, claimVars
<1>3. IndInv /\ [Next]_vars => [Over]_vars
  BY <1>1, <1>2
<1> QED
  BY <1>3, Inductive, PTL DEF Spec, ReviewedIsOver

\* A sweep that lost its lease cannot undo what a later one settled.
THEOREM DeliverySettledOnce == Spec => SettledDelivery
<1> DEFINE Keeps == \A e \in Events :
              /\ delivery[e] = "delivered" => delivery'[e] = "delivered"
              /\ delivery[e] = "dead" /\ delivery'[e] # "dead" => attempts'[e] = 0
<1>1. IndInv /\ Next => Keeps
  <2> SUFFICES ASSUME IndInv, Next PROVE Keeps
    OBVIOUS
  <2> USE StudioConstants DEF IndInv, TypeOK, OutboxType, SweepType, LeasedIsProcessing
  <2>1. ASSUME NEW e \in Events, Emit(e) PROVE Keeps
    BY <2>1 DEF Emit
  <2>2. ASSUME NEW e \in Events, Retry(e) PROVE Keeps
    BY <2>2 DEF Retry
  <2>3. ASSUME NEW p \in Workers, NEW e \in Events, ClaimDelivery(p, e) PROVE Keeps
    BY <2>3 DEF ClaimDelivery, Due
  <2>4. ASSUME NEW p \in Workers, Settle(p) PROVE Keeps
    BY <2>4 DEF Settle, LeaseHeld
  <2>5. CASE UNCHANGED delivery
    BY <2>5
  <2> QED
    BY <2>1, <2>2, <2>3, <2>4, <2>5
    DEF Next, SweepStep, TryWorkflow, StartRun, RunExists, InsertFails,
        InsertUnacknowledged, NextWorkflow, RunStep, Pause, Resume, LeaseExpires,
        SelectWorkflows, AllTried, BeginRun, BeforeStep, BeforeAction, Execute,
        Checkpoint, FinishRun, Crash, Cancel, Reconcile, Tick, outboxVars
<1>2. IndInv /\ [Next]_vars => [Keeps]_vars
  BY <1>1
<1> QED
  BY <1>2, Inductive, PTL DEF Spec, SettledDelivery
================================================================================
