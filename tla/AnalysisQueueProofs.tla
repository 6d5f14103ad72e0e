-------------------------- MODULE AnalysisQueueProofs --------------------------
(***************************************************************************)
(* Proofs about AnalysisQueue, for every number of games, workers and      *)
(* versions, every bound and every set of faults.                          *)
(***************************************************************************)
EXTENDS AnalysisQueue, TLAPS

\* The statuses, states and records the type lemmas expand.
LEMMA QueuedRowType ==
  ASSUME TypeOK, clock < MaxRequests, NEW id \in Nat, NEW h \in Hashes
  PROVE  QueuedRow(id, h) \in Row /\ clock + 1 \in 0..MaxRequests /\ clock + 1 \in Nat
BY QueueAssumption DEF TypeOK, QueuedRow, Row, Statuses

\* Inserting and resetting keep the table typed.
LEMMA InsertRowType ==
  ASSUME TypeOK, NEW g \in Games, NEW h \in Hashes, InsertRow(g, h)
  PROVE  /\ row' \in [Games -> Row \cup {NoRow}]
         /\ clock' \in 0..MaxRequests
         /\ unsent' \subseteq Games
<1>1. clock + 1 \in Nat /\ clock < MaxRequests
  BY QueueAssumption DEF TypeOK, InsertRow
<1>2. QueuedRow(clock + 1, h) \in Row /\ clock + 1 \in 0..MaxRequests
  BY <1>1, QueuedRowType
<1>3. QED
  BY <1>2 DEF TypeOK, InsertRow

LEMMA ResetRowType ==
  ASSUME TypeOK, NEW g \in Games, NEW h \in Hashes, row[g] # NoRow, ResetRow(g, h)
  PROVE  /\ row' \in [Games -> Row \cup {NoRow}]
         /\ clock' \in 0..MaxRequests
         /\ unsent' \subseteq Games
<1>1. row[g].id \in Nat /\ clock < MaxRequests
  BY DEF TypeOK, ResetRow, Row
<1>2. QueuedRow(row[g].id, h) \in Row /\ clock + 1 \in 0..MaxRequests
  BY <1>1, QueuedRowType
<1>3. QED
  BY <1>2 DEF TypeOK, ResetRow

\* The rows workers write are rows.
LEMMA ChangedRowTypes ==
  ASSUME NEW r \in Row, NEW e \in Nat, NEW s \in Statuses
  PROVE  /\ [r EXCEPT !.status = s] \in Row
         /\ [r EXCEPT !.status = s, !.attempts = r.attempts + 1] \in Row
         /\ [r EXCEPT !.status = s, !.payload = e] \in Row
         /\ [r EXCEPT !.status = s, !.due = FALSE] \in Row
<1>1. [r EXCEPT !.status = s] \in Row
  BY DEF Row
<1>2. [r EXCEPT !.status = s, !.attempts = r.attempts + 1] \in Row
  <2>1. r.attempts + 1 \in Nat
    BY DEF Row
  <2>2. ASSUME NEW n \in Nat PROVE [r EXCEPT !.status = s, !.attempts = n] \in Row
    BY DEF Row
  <2>3. QED
    BY <2>1, <2>2
<1>3. [r EXCEPT !.status = s, !.payload = e] \in Row
  BY DEF Row
<1>4. [r EXCEPT !.status = s, !.due = FALSE] \in Row
  BY DEF Row
<1>5. QED
  BY <1>1, <1>2, <1>3, <1>4

LEMMA WrittenRowTypes ==
  ASSUME TypeOK, NEW w \in Workers, job[w] \in Job, RowPresent(w)
  PROVE  ClaimedRow(w) \in Row /\ SucceededRow(w) \in Row /\ FailedRow(w) \in Row
<1>1. row[job[w].game] \in Row /\ job[w].epoch \in Nat
  BY DEF TypeOK, RowPresent, Job
<1>2. {"queued", "running", "succeeded", "failed"} \subseteq Statuses
  BY DEF Statuses
<1>3. ClaimedRow(w) \in Row
  BY <1>1, <1>2, ChangedRowTypes DEF ClaimedRow
<1>4. SucceededRow(w) \in Row
  BY <1>1, <1>2, ChangedRowTypes DEF SucceededRow
<1>5. FailedRow(w) \in Row
  BY <1>1, <1>2, ChangedRowTypes DEF FailedRow
<1>6. QED
  BY <1>3, <1>4, <1>5

\* An update by id writes the given row or none, and only an unlocked row.
LEMMA UpdateByIdType ==
  ASSUME TypeOK, NEW w \in Workers, job[w] \in Job, NEW r,
         RowPresent(w) => r \in Row, UpdateById(w, r)
  PROVE  /\ row' \in [Games -> Row \cup {NoRow}]
         /\ \A g \in Games : lock[g] # Free => row'[g] = row[g]
<1>1. job[w].game \in Games
  BY DEF Job
<1>2. QED
  BY <1>1 DEF TypeOK, UpdateById

\* Types, locks and claims are preserved together: a claim's row is a record
\* only because its lock keeps everybody else away from it.
ClaimInv == TypeOK /\ RowsHaveGames /\ JobsTyped /\ LocksHeld /\ ClaimsFresh

LEMMA ClaimInvInit == Init => ClaimInv
  BY QueueAssumption, NullAssumption
     DEF Init, ClaimInv, TypeOK, RowsHaveGames, JobsTyped, LocksHeld, ClaimsFresh, Active, WorkerStates

\* A locked row exists.
LEMMA LockedPresent ==
  ASSUME ClaimInv, NEW g \in Games, lock[g] # Free
  PROVE  row[g] # NoRow
BY QueueAssumption DEF ClaimInv, TypeOK, LocksHeld, ClaimsFresh, RowPresent

\* Server steps change rows only while these are not locked, and no worker state.
LEMMA ServerKeepsClaims ==
  ASSUME ClaimInv, TypeOK', RowsHaveGames',
         UNCHANGED <<lock, pc, job>>,
         \A g \in Games : lock[g] # Free => row'[g] = row[g]
  PROVE  ClaimInv'
<1>1. JobsTyped' /\ LocksHeld'
  BY DEF ClaimInv, JobsTyped, LocksHeld, Active
<1>2. ClaimsFresh'
  <2> SUFFICES ASSUME NEW w \in Workers, pc[w] = "claiming"
               PROVE  /\ lock[job[w].game] = w
                      /\ RowPresent(w)'
                      /\ row'[job[w].game].status = "queued"
                      /\ row'[job[w].game].requested = job[w].epoch
                      /\ row'[job[w].game].attempts + 1 = job[w].attempt
    BY DEF ClaimsFresh
  <2>1. job[w] \in Job /\ lock[job[w].game] = w
    BY DEF ClaimInv, JobsTyped, ClaimsFresh
  <2>2. row'[job[w].game] = row[job[w].game]
    BY <2>1, QueueAssumption DEF Job
  <2>3. QED
    BY <2>1, <2>2 DEF ClaimInv, ClaimsFresh, RowPresent
<1>3. QED
  BY <1>1, <1>2 DEF ClaimInv

LEMMA ServerStepClaims ==
  ASSUME ClaimInv, ServerStep
  PROVE  ClaimInv'
<1> USE DEF ClaimInv
<1>1. ASSUME NEW g \in Games, NEW h \in Hashes, UploadNew(g, h)
      PROVE  ClaimInv'
  <2>1. row[g] = NoRow /\ lock[g] = Free
    BY <1>1, LockedPresent DEF UploadNew, RowsHaveGames
  <2>2. TypeOK'
    BY <1>1, InsertRowType DEF UploadNew, TypeOK
  <2>3. RowsHaveGames' /\ \A k \in Games : lock[k] # Free => row'[k] = row[k]
    BY <1>1, <2>1, QueueAssumption DEF UploadNew, InsertRow, TypeOK, RowsHaveGames, Exists
  <2>4. QED
    BY <1>1, <2>2, <2>3, ServerKeepsClaims DEF UploadNew
<1>2. ASSUME NEW g \in Games, NEW h \in Hashes, UploadAgain(g, h)
      PROVE  ClaimInv'
  <2>1. TypeOK'
    BY <1>2, InsertRowType, ResetRowType DEF UploadAgain, TypeOK
  <2>2. RowsHaveGames' /\ \A k \in Games : lock[k] # Free => row'[k] = row[k]
    BY <1>2, QueueAssumption
       DEF UploadAgain, InsertRow, ResetRow, TypeOK, RowsHaveGames, Exists
  <2>3. QED
    BY <1>2, <2>1, <2>2, ServerKeepsClaims DEF UploadAgain
<1>3. ASSUME NEW g \in Games, NEW h \in Hashes, ParseLocal(g, h)
      PROVE  ClaimInv'
  <2>1. TypeOK' /\ RowsHaveGames'
    BY <1>3, QueueAssumption DEF ParseLocal, TypeOK, RowsHaveGames, Exists
  <2>2. QED
    BY <1>3, <2>1, ServerKeepsClaims DEF ParseLocal
<1>4. ASSUME NEW g \in Games, DeleteGame(g)
      PROVE  ClaimInv'
  <2>1. TypeOK' /\ RowsHaveGames' /\ \A k \in Games : lock[k] # Free => row'[k] = row[k]
    BY <1>4 DEF DeleteGame, TypeOK, RowsHaveGames, Exists
  <2>2. QED
    BY <1>4, <2>1, ServerKeepsClaims DEF DeleteGame
<1>5. ASSUME NEW g \in Games, SeasonEnqueue(g)
      PROVE  ClaimInv'
  <2>1. view[g] \in Hashes
    BY <1>5 DEF SeasonEnqueue, TypeOK
  <2>2. TypeOK'
    BY <1>5, <2>1, InsertRowType DEF SeasonEnqueue, TypeOK
  <2>3. RowsHaveGames' /\ \A k \in Games : lock[k] # Free => row'[k] = row[k]
    BY <1>5, LockedPresent DEF SeasonEnqueue, InsertRow, TypeOK, RowsHaveGames, Exists
  <2>4. QED
    BY <1>5, <2>2, <2>3, ServerKeepsClaims DEF SeasonEnqueue
<1>6. ASSUME NEW g \in Games, SendNotify(g) \/ LoseNotify(g)
      PROVE  ClaimInv'
  <2>1. TypeOK' /\ RowsHaveGames'
    BY <1>6 DEF SendNotify, LoseNotify, TypeOK, RowsHaveGames, Exists
  <2>2. QED
    BY <1>6, <2>1, ServerKeepsClaims DEF SendNotify, LoseNotify
<1>7. ASSUME SeasonRead \/ SeasonAbort
      PROVE  ClaimInv'
  <2>1. TypeOK' /\ RowsHaveGames'
    BY <1>7 DEF SeasonRead, SeasonAbort, TypeOK, RowsHaveGames, Exists
  <2>2. QED
    BY <1>7, <2>1, ServerKeepsClaims DEF SeasonRead, SeasonAbort
<1>8. ASSUME NEW v \in Versions, Deploy(v)
      PROVE  ClaimInv'
  <2>1. TypeOK' /\ RowsHaveGames'
    BY <1>8 DEF Deploy, TypeOK, RowsHaveGames, Exists
  <2>2. QED
    BY <1>8, <2>1, ServerKeepsClaims DEF Deploy
<1>9. QED
  BY <1>1, <1>2, <1>3, <1>4, <1>5, <1>6, <1>7, <1>8 DEF ServerStep

\* A report frees no lock and touches no locked row.
LEMMA ReportKeepsClaims ==
  ASSUME ClaimInv, NEW w \in Workers, NEW r, job[w] \in Job,
         UpdateById(w, r), RowPresent(w) => r \in Row,
         pc' = [pc EXCEPT ![w] = "idle"], job' = [job EXCEPT ![w] = NoJob],
         UNCHANGED <<serverVars, lock, signal, faults>>,
         pc[w] # "claiming"
  PROVE  ClaimInv'
<1> USE DEF ClaimInv
<1>1. TypeOK' /\ \A g \in Games : lock[g] # Free => row'[g] = row[g]
  BY UpdateByIdType DEF TypeOK, WorkerStates, serverVars
<1>2. RowsHaveGames'
  BY DEF UpdateById, RowPresent, RowsHaveGames, Exists, serverVars, TypeOK, Job
<1>3. JobsTyped' /\ LocksHeld'
  BY DEF JobsTyped, LocksHeld, Active, TypeOK
<1>4. ClaimsFresh'
  BY <1>1, QueueAssumption DEF ClaimsFresh, JobsTyped, Job, RowPresent, TypeOK
<1>5. QED
  BY <1>1, <1>2, <1>3, <1>4

\* Giving up a job releases at most the locks of that worker.
LEMMA ReleaseKeepsClaims ==
  ASSUME ClaimInv, TypeOK', RowsHaveGames', NEW w \in Workers,
         pc' = [pc EXCEPT ![w] = "down"] \/ pc' = [pc EXCEPT ![w] = "waiting"]
           \/ pc' = [pc EXCEPT ![w] = "idle"],
         job' = [job EXCEPT ![w] = NoJob], row' = row,
         lock' = LocksReleased(w)
  PROVE  ClaimInv'
<1> USE DEF ClaimInv
<1>1. JobsTyped'
  BY DEF JobsTyped, Active, TypeOK
<1>2. LocksHeld'
  BY QueueAssumption DEF LocksHeld, LocksReleased, TypeOK
<1>3. ClaimsFresh'
  BY QueueAssumption DEF ClaimsFresh, LocksReleased, RowPresent, TypeOK, JobsTyped, Job
<1>4. QED
  BY <1>1, <1>2, <1>3

\* Worker and fault steps.
LEMMA WorkerStepClaims ==
  ASSUME ClaimInv, NEW w \in Workers, WorkerStep(w) \/ FaultStep(w)
  PROVE  ClaimInv'
<1> USE DEF ClaimInv
<1>1. ASSUME NEW g \in Games, ClaimLock(w, g)
      PROVE  ClaimInv'
  <2>1. /\ job'[w] = [game |-> g, id |-> row[g].id, hash |-> row[g].hash,
                      attempt |-> row[g].attempts + 1, epoch |-> row[g].requested]
        /\ \A v \in Workers \ {w} : job'[v] = job[v]
    BY <1>1 DEF ClaimLock, TypeOK
  <2>2. row[g] \in Row /\ row[g].status = "queued" /\ lock[g] = Free
    BY <1>1 DEF ClaimLock, NextJob, Claimable, TypeOK
  <2>3. job'[w] \in Job
    BY <2>1, <2>2 DEF Job, Row
  <2>4. TypeOK' /\ RowsHaveGames'
    BY <1>1, <2>3 DEF ClaimLock, TypeOK, WorkerStates, serverVars, RowsHaveGames, Exists
  <2>5. JobsTyped' /\ LocksHeld'
    BY <1>1, <2>1, <2>2, <2>3, QueueAssumption DEF ClaimLock, JobsTyped, LocksHeld, Active, TypeOK
  <2>6. ClaimsFresh'
    <3> SUFFICES ASSUME NEW v \in Workers, pc'[v] = "claiming"
                 PROVE  /\ lock'[job'[v].game] = v
                        /\ RowPresent(v)'
                        /\ row'[job'[v].game].status = "queued"
                        /\ row'[job'[v].game].requested = job'[v].epoch
                        /\ row'[job'[v].game].attempts + 1 = job'[v].attempt
      BY DEF ClaimsFresh
    <3>1. CASE v = w
      BY <1>1, <2>1, <2>2, <3>1, NullAssumption DEF ClaimLock, RowPresent, TypeOK
    <3>2. CASE v # w
      <4>1. pc[v] = "claiming" /\ job'[v] = job[v] /\ lock[job[v].game] = v
        BY <1>1, <2>1, <3>2 DEF ClaimLock, TypeOK, ClaimsFresh
      <4>2. job[v].game # g /\ job[v].game \in Games
        BY <4>1, <2>2, QueueAssumption DEF JobsTyped, Job
      <4>3. QED
        BY <1>1, <4>1, <4>2 DEF ClaimLock, ClaimsFresh, RowPresent, TypeOK
    <3>3. QED
      BY <3>1, <3>2
  <2>7. QED
    BY <2>4, <2>5, <2>6
<1>2. ASSUME ClaimNothing(w)
      PROVE  ClaimInv'
  <2>1. TypeOK' /\ RowsHaveGames'
    BY <1>2 DEF ClaimNothing, TypeOK, WorkerStates, serverVars, RowsHaveGames, Exists
  <2>2. QED
    BY <1>2, <2>1 DEF ClaimNothing, TypeOK, JobsTyped, LocksHeld, ClaimsFresh, Active, RowPresent
<1>3. ASSUME ClaimCommit(w)
      PROVE  ClaimInv'
  <2>1. job[w] \in Job /\ RowPresent(w) /\ ClaimedRow(w) \in Row
    BY <1>3, WrittenRowTypes DEF ClaimCommit, JobsTyped, ClaimsFresh
  <2>2. TypeOK' /\ RowsHaveGames'
    BY <1>3, <2>1 DEF ClaimCommit, TypeOK, WorkerStates, serverVars, RowsHaveGames, Exists, Job, RowPresent
  <2>3. JobsTyped' /\ LocksHeld'
    BY <1>3, <2>1 DEF ClaimCommit, JobsTyped, LocksHeld, Active, TypeOK, Job
  <2>4. ClaimsFresh'
    BY <1>3, <2>1 DEF ClaimCommit, ClaimsFresh, RowPresent, TypeOK, Job, JobsTyped
  <2>5. QED
    BY <2>2, <2>3, <2>4
<1>4. ASSUME RunFails(w)
      PROVE  ClaimInv'
  <2>1. TypeOK' /\ RowsHaveGames'
    BY <1>4 DEF RunFails, TypeOK, WorkerStates, serverVars, RowsHaveGames, Exists
  <2>2. QED
    BY <1>4, <2>1 DEF RunFails, TypeOK, JobsTyped, LocksHeld, ClaimsFresh, Active, RowPresent
<1>5. ASSUME RunSucceeds(w) \/ MarkFailure(w)
      PROVE  ClaimInv'
  <2>1. job[w] \in Job
    BY <1>5 DEF RunSucceeds, MarkFailure, JobsTyped, Active
  <2>2. PICK r : /\ UpdateById(w, r) /\ (RowPresent(w) => r \in Row)
                 /\ pc' = [pc EXCEPT ![w] = "idle"] /\ job' = [job EXCEPT ![w] = NoJob]
                 /\ UNCHANGED <<serverVars, lock, signal, faults>>
                 /\ pc[w] # "claiming"
    BY <1>5, <2>1, WrittenRowTypes DEF RunSucceeds, MarkFailure
  <2>3. QED
    BY <2>1, <2>2, ReportKeepsClaims
<1>6. ASSUME ResultReplyLost(w)
      PROVE  ClaimInv'
  <2>1. job[w] \in Job
    BY <1>6 DEF ResultReplyLost, JobsTyped, Active
  <2>2. SucceededRow(w) \in Row \/ ~RowPresent(w)
    BY <2>1, WrittenRowTypes
  <2>3. TypeOK' /\ \A g \in Games : lock[g] # Free => row'[g] = row[g]
    BY <1>6, <2>1, <2>2, UpdateByIdType, QueueAssumption
       DEF ResultReplyLost, Fault, TypeOK, WorkerStates, serverVars
  <2>4. RowsHaveGames'
    BY <1>6, <2>1 DEF ResultReplyLost, UpdateById, RowPresent, RowsHaveGames, Exists, serverVars, TypeOK, Job
  <2>5. JobsTyped' /\ LocksHeld'
    BY <1>6 DEF ResultReplyLost, JobsTyped, LocksHeld, Active, TypeOK
  <2>6. ClaimsFresh'
    BY <1>6, <2>3, QueueAssumption DEF ResultReplyLost, ClaimsFresh, JobsTyped, Job, RowPresent, TypeOK
  <2>7. QED
    BY <2>3, <2>4, <2>5, <2>6
<1>7. ASSUME WakeUp(w) \/ Poll(w) \/ Restart(w)
      PROVE  ClaimInv'
  <2>1. TypeOK' /\ RowsHaveGames'
    BY <1>7 DEF WakeUp, Poll, Restart, TypeOK, WorkerStates, serverVars, RowsHaveGames, Exists
  <2>2. QED
    BY <1>7, <2>1 DEF WakeUp, Poll, Restart, TypeOK, JobsTyped, LocksHeld, ClaimsFresh, Active, RowPresent
<1>8. ASSUME Crash(w) \/ ClaimFails(w) \/ MarkFailureFails(w)
      PROVE  ClaimInv'
  <2>1. TypeOK' /\ RowsHaveGames'
    BY <1>8, QueueAssumption
       DEF Crash, ClaimFails, MarkFailureFails, Fault, LocksReleased, TypeOK, WorkerStates, serverVars,
           RowsHaveGames, Exists
  <2>2. lock' = LocksReleased(w)
    \* markFailure holds no lock, so none is released by forgetting the job
    BY <1>8, QueueAssumption DEF Crash, ClaimFails, MarkFailureFails, LocksReleased, LocksHeld, TypeOK
  <2>3. QED
    BY <1>8, <2>1, <2>2, ReleaseKeepsClaims DEF Crash, ClaimFails, MarkFailureFails
<1>9. ASSUME ClaimReplyLost(w)
      PROVE  ClaimInv'
  <2>1. job[w] \in Job /\ RowPresent(w) /\ ClaimedRow(w) \in Row
    BY <1>9, WrittenRowTypes DEF ClaimReplyLost, JobsTyped, ClaimsFresh
  <2>2. TypeOK' /\ RowsHaveGames'
    BY <1>9, <2>1, QueueAssumption
       DEF ClaimReplyLost, Fault, LocksReleased, TypeOK, WorkerStates, serverVars, RowsHaveGames, Exists, Job,
           RowPresent
  <2>3. JobsTyped' /\ LocksHeld'
    BY <1>9, <2>1, QueueAssumption DEF ClaimReplyLost, LocksReleased, JobsTyped, LocksHeld, Active, TypeOK, Job
  <2>4. ClaimsFresh'
    BY <1>9, <2>1, QueueAssumption
       DEF ClaimReplyLost, LocksReleased, ClaimsFresh, RowPresent, TypeOK, Job, JobsTyped
  <2>5. QED
    BY <2>2, <2>3, <2>4
<1>10. QED
  BY <1>1, <1>2, <1>3, <1>4, <1>5, <1>6, <1>7, <1>8, <1>9 DEF WorkerStep, FaultStep

\* The passing of time changes no locked row.
LEMMA BackoffClaims ==
  ASSUME ClaimInv, NEW g \in Games, BackoffElapses(g)
  PROVE  ClaimInv'
<1>1. row[g] \in Row
  BY DEF ClaimInv, TypeOK, BackoffElapses
<1>2. [row[g] EXCEPT !.due = TRUE] \in Row
  BY <1>1 DEF Row
<1>3. row' = [row EXCEPT ![g] = [row[g] EXCEPT !.due = TRUE]]
  BY DEF BackoffElapses
<1>4. TypeOK' /\ RowsHaveGames' /\ \A k \in Games : lock[k] # Free => row'[k] = row[k]
  BY <1>2, <1>3 DEF ClaimInv, BackoffElapses, TypeOK, RowsHaveGames, Exists, serverVars, workerVars
<1>5. QED
  BY <1>4, ServerKeepsClaims DEF BackoffElapses, workerVars

\* Every step, stuttering included, keeps types, locks and claims.
LEMMA NextClaims ==
  ASSUME ClaimInv, [Next]_vars
  PROVE  ClaimInv'
<1>1. CASE UNCHANGED vars
  BY <1>1 DEF vars, ClaimInv, TypeOK, RowsHaveGames, Exists, JobsTyped, LocksHeld, ClaimsFresh, Active,
              RowPresent
<1>2. CASE Next
  BY <1>2, ServerStepClaims, BackoffClaims, WorkerStepClaims DEF Next
<1>3. QED
  BY <1>1, <1>2

\* The schema's columns and the states of the worker loop keep their types in
\* every behaviour (TypeOK), because claims and locks are preserved with them.
THEOREM TypeCorrect == Spec => []TypeOK
<1>1. ClaimInv /\ [Next]_vars => ClaimInv'
  BY NextClaims
<1>2. ClaimInv => TypeOK
  BY DEF ClaimInv
<1>3. QED
  BY ClaimInvInit, <1>1, <1>2, PTL DEF Spec

-----------------------------------------------------------------------------
(***************************************************************************)
(* The rest of the inductive invariant.  A step is seen from two sides:    *)
(* what it does to the table (TableStep) and to the jobs in execution      *)
(* (JobStep).                                                              *)
(***************************************************************************)

\* g's row disappears, or keeps its identity and its request.
Kept(g) ==
  row'[g] # NoRow =>
    /\ row[g] # NoRow
    /\ row'[g].id = row[g].id /\ row'[g].requested = row[g].requested
    /\ row'[g].attempts >= row[g].attempts

\* g's row is inserted or reset: a request newer than all others.
Renewed(g) ==
  /\ clock' = clock + 1
  /\ row'[g] # NoRow /\ row'[g].requested = clock + 1
  /\ row'[g].id = clock + 1 \/ (row[g] # NoRow /\ row'[g].id = row[g].id)

RowsKept == clock' = clock /\ \A g \in Games : Kept(g)

TableStep ==
  \/ RowsKept
  \/ \E k \in Games : Renewed(k) /\ \A g \in Games \ {k} : Kept(g)

JobStep ==
  \A w \in Workers : Active(w)' => job'[w] = job[w] /\ (Active(w) \/ ClaimCommit(w))

\* A row that is not written is kept.
LEMMA SameRowKept ==
  ASSUME TypeOK, NEW g \in Games, row'[g] = row[g]
  PROVE  Kept(g)
BY DEF Kept, TypeOK, Row

\* A row written by insertion or reset is renewed.
LEMMA InsertRenews ==
  ASSUME ClaimInv, ClaimInv', NEW g \in Games, NEW h \in Hashes,
         InsertRow(g, h) \/ (row[g] # NoRow /\ ResetRow(g, h))
  PROVE  TableStep
<1>1. \A k \in Games \ {g} : Kept(k)
  BY SameRowKept DEF ClaimInv, TypeOK, InsertRow, ResetRow
<1>2. /\ clock' = clock + 1
      /\ \/ row'[g] = QueuedRow(clock + 1, h)
         \/ row[g] # NoRow /\ row'[g] = QueuedRow(row[g].id, h)
  BY DEF ClaimInv, TypeOK, InsertRow, ResetRow
<1>3. row'[g] # NoRow
  <2>1. clock < MaxRequests /\ clock + 1 \in Nat /\ (row[g] # NoRow => row[g].id \in Nat)
    BY DEF ClaimInv, TypeOK, InsertRow, ResetRow, Row
  <2>2. row'[g] \in Row
    BY <1>2, <2>1, QueuedRowType DEF ClaimInv
  <2>3. QED
    BY <2>2, NullAssumption
<1>4. Renewed(g)
  BY <1>2, <1>3 DEF Renewed, QueuedRow
<1>5. QED
  BY <1>1, <1>2, <1>4 DEF TableStep

\* Writing a row through its id keeps every row.
LEMMA UpdateKeepsRows ==
  ASSUME TypeOK, NEW w \in Workers, NEW r, clock' = clock, UpdateById(w, r),
         RowPresent(w) => /\ r.id = row[job[w].game].id
                          /\ r.requested = row[job[w].game].requested
                          /\ r.attempts = row[job[w].game].attempts
  PROVE  RowsKept
<1>1. ASSUME NEW g \in Games, row'[g] # row[g]
      PROVE  /\ g = job[w].game /\ RowPresent(w) /\ row'[g] = r
             /\ r.id = row[g].id /\ r.requested = row[g].requested /\ r.attempts = row[g].attempts
  BY <1>1 DEF UpdateById, TypeOK
<1>2. ASSUME NEW g \in Games, row'[g] # row[g]
      PROVE  Kept(g)
  <2>1. row[g] \in Row
    BY <1>1, <1>2 DEF RowPresent, TypeOK
  <2>2. row[g].attempts \in Nat
    BY <2>1 DEF Row
  <2>3. QED
    BY <1>1, <1>2, <2>1, <2>2, NullAssumption DEF Kept
<1>3. QED
  BY <1>2, SameRowKept DEF RowsKept

\* The rows a report writes keep the identity, the request and the attempts.
LEMMA ReportedRows ==
  ASSUME TypeOK, NEW w \in Workers, job[w] \in Job, RowPresent(w)
  PROVE  \A r \in {SucceededRow(w), FailedRow(w)} :
           /\ r.id = row[job[w].game].id
           /\ r.requested = row[job[w].game].requested
           /\ r.attempts = row[job[w].game].attempts
           /\ r.status # "running"
<1>1. row[job[w].game] \in Row
  BY DEF TypeOK, Job, RowPresent
<1>2. QED
  BY <1>1 DEF SucceededRow, FailedRow, Row

\* A claim keeps the row it counts up.
LEMMA ClaimKeepsRows ==
  ASSUME ClaimInv, NEW w \in Workers, pc[w] = "claiming", clock' = clock,
         row' = [row EXCEPT ![job[w].game] = ClaimedRow(w)]
  PROVE  RowsKept
<1>1. job[w] \in Job /\ RowPresent(w)
  BY DEF ClaimInv, JobsTyped, ClaimsFresh
<1>2. job[w].game \in Games /\ row[job[w].game] \in Row
  BY <1>1 DEF Job, RowPresent, ClaimInv, TypeOK
<1>3. /\ ClaimedRow(w).id = row[job[w].game].id
      /\ ClaimedRow(w).requested = row[job[w].game].requested
      /\ ClaimedRow(w).attempts >= row[job[w].game].attempts
  BY <1>2 DEF ClaimedRow, Row
<1>4. Kept(job[w].game)
  BY <1>1, <1>2, <1>3, NullAssumption DEF Kept, ClaimInv, TypeOK
<1>5. ASSUME NEW g \in Games \ {job[w].game} PROVE Kept(g)
  BY <1>2, SameRowKept DEF ClaimInv, TypeOK
<1>6. QED
  BY <1>4, <1>5 DEF RowsKept

\* Every step is a step of the table.
LEMMA NextTableStep ==
  ASSUME ClaimInv, ClaimInv', [Next]_vars
  PROVE  TableStep
<1> USE DEF ClaimInv
<1>1. ASSUME row' = row, clock' = clock PROVE TableStep
  BY <1>1, SameRowKept DEF TableStep, RowsKept
<1>2. ASSUME NEW g \in Games, NEW h \in Hashes, UploadNew(g, h) \/ UploadAgain(g, h)
      PROVE  TableStep
  BY <1>1, <1>2, InsertRenews DEF UploadNew, UploadAgain
<1>3. ASSUME NEW g \in Games, DeleteGame(g) PROVE TableStep
  <2>1. \A k \in Games \ {g} : Kept(k)
    BY <1>3, SameRowKept DEF DeleteGame, TypeOK
  <2>2. Kept(g)
    BY <1>3 DEF DeleteGame, Kept, TypeOK
  <2>3. QED
    BY <1>3, <2>1, <2>2 DEF DeleteGame, TableStep, RowsKept
<1>4. ASSUME NEW g \in Games, SeasonEnqueue(g) PROVE TableStep
  <2>1. view[g] \in Hashes
    BY <1>4 DEF SeasonEnqueue, TypeOK
  <2>2. QED
    BY <1>1, <1>4, <2>1, InsertRenews DEF SeasonEnqueue
<1>5. ASSUME NEW g \in Games, BackoffElapses(g) PROVE TableStep
  <2>1. row[g] \in Row
    BY <1>5 DEF BackoffElapses, TypeOK
  <2>2. \A k \in Games \ {g} : Kept(k)
    BY <1>5, SameRowKept DEF BackoffElapses, TypeOK
  <2>3. Kept(g)
    BY <1>5, <2>1 DEF BackoffElapses, Kept, TypeOK, Row
  <2>4. QED
    BY <1>5, <2>2, <2>3 DEF BackoffElapses, TableStep, RowsKept, serverVars
<1>6. ASSUME NEW w \in Workers, ClaimCommit(w) \/ ClaimReplyLost(w) PROVE TableStep
  BY <1>6, ClaimKeepsRows DEF ClaimCommit, ClaimReplyLost, serverVars, TableStep
<1>7. ASSUME NEW w \in Workers, RunSucceeds(w) \/ MarkFailure(w) \/ ResultReplyLost(w)
      PROVE  TableStep
  <2>1. job[w] \in Job
    BY <1>7 DEF RunSucceeds, MarkFailure, ResultReplyLost, JobsTyped, Active
  <2>2. PICK r \in {SucceededRow(w), FailedRow(w)} : UpdateById(w, r) /\ clock' = clock
    BY <1>7 DEF RunSucceeds, MarkFailure, ResultReplyLost, serverVars
  <2>3. QED
    BY <2>1, <2>2, ReportedRows, UpdateKeepsRows DEF TableStep
<1>8. CASE UNCHANGED vars
  BY <1>1, <1>8 DEF vars
<1>9. CASE ServerStep
  BY <1>1, <1>2, <1>3, <1>4, <1>9
     DEF ServerStep, ParseLocal, SendNotify, LoseNotify, SeasonRead, SeasonAbort, Deploy
<1>10. ASSUME NEW w \in Workers, WorkerStep(w) PROVE TableStep
  BY <1>1, <1>6, <1>7, <1>10
     DEF WorkerStep, ClaimLock, ClaimNothing, RunFails, WakeUp, Poll, Restart, serverVars
<1>11. ASSUME NEW w \in Workers, FaultStep(w) PROVE TableStep
  BY <1>1, <1>6, <1>7, <1>11 DEF FaultStep, Crash, ClaimFails, MarkFailureFails, serverVars
<1>12. QED
  BY <1>5, <1>8, <1>9, <1>10, <1>11 DEF Next

\* A worker executes the job it executed before, or the one it just claimed.
LEMMA NextJobStep ==
  ASSUME ClaimInv, [Next]_vars
  PROVE  JobStep
<1> SUFFICES ASSUME NEW w \in Workers, Active(w)'
             PROVE  job'[w] = job[w] /\ (Active(w) \/ ClaimCommit(w))
  BY DEF JobStep
<1>1. pc \in [Workers -> WorkerStates] /\ job \in [Workers -> Job \cup {NoJob}]
  BY DEF ClaimInv, TypeOK
<1>2. ASSUME pc' = pc, job' = job PROVE job'[w] = job[w] /\ Active(w)
  BY <1>2 DEF Active
<1>3. CASE UNCHANGED vars
  BY <1>2, <1>3 DEF vars
<1>4. CASE ServerStep \/ \E g \in Games : BackoffElapses(g)
  BY <1>2, <1>4
     DEF ServerStep, UploadNew, UploadAgain, ParseLocal, DeleteGame, SeasonRead, SeasonEnqueue, SeasonAbort,
         SendNotify, LoseNotify, Deploy, BackoffElapses, workerVars
<1>5. ASSUME NEW v \in Workers, WorkerStep(v) PROVE job'[w] = job[w] /\ (Active(w) \/ ClaimCommit(w))
  <2>1. CASE ClaimCommit(v)
    BY <1>1, <2>1 DEF ClaimCommit, Active
  <2>2. CASE ClaimNothing(v) \/ \E g \in Games : ClaimLock(v, g)
    BY <1>1, <2>2 DEF ClaimNothing, ClaimLock, Active
  <2>3. CASE RunSucceeds(v) \/ RunFails(v) \/ MarkFailure(v)
    BY <1>1, <2>3 DEF RunSucceeds, RunFails, MarkFailure, Active
  <2>4. CASE WakeUp(v) \/ Poll(v) \/ Restart(v)
    BY <1>1, <2>4 DEF WakeUp, Poll, Restart, Active
  <2>5. QED
    BY <1>5, <2>1, <2>2, <2>3, <2>4 DEF WorkerStep
<1>6. ASSUME NEW v \in Workers, FaultStep(v) PROVE job'[w] = job[w] /\ Active(w)
  <2>1. CASE Crash(v) \/ ClaimFails(v) \/ ClaimReplyLost(v)
    BY <1>1, <2>1 DEF Crash, ClaimFails, ClaimReplyLost, Active
  <2>2. CASE ResultReplyLost(v) \/ MarkFailureFails(v)
    BY <1>1, <2>2 DEF ResultReplyLost, MarkFailureFails, Active
  <2>3. QED
    BY <1>6, <2>1, <2>2 DEF FaultStep
<1>7. QED
  BY <1>3, <1>4, <1>5, <1>6 DEF Next

\* Ids stay serial.
LEMMA IdsStaySerial ==
  ASSUME TypeOK, TypeOK', IdsSerial, TableStep
  PROVE  IdsSerial'
<1>1. \A g \in Games : /\ row[g] # NoRow => row[g].id \in Nat /\ row[g].requested \in Nat
                       /\ row'[g] # NoRow => row'[g].id \in Nat /\ row'[g].requested \in Nat
  BY DEF TypeOK, Row
<1>2. clock \in Nat
  BY QueueAssumption DEF TypeOK
<1>3. CASE RowsKept
  BY <1>1, <1>2, <1>3 DEF RowsKept, Kept, IdsSerial
<1>4. ASSUME NEW k \in Games, Renewed(k), \A g \in Games \ {k} : Kept(g)
      PROVE  IdsSerial'
  BY <1>1, <1>2, <1>4 DEF Renewed, Kept, IdsSerial
<1>5. QED
  BY <1>3, <1>4 DEF TableStep

\* No job runs ahead of its row.
LEMMA JobsStayBehind ==
  ASSUME ClaimInv, ClaimInv', IdsSerial, IdsSerial', JobsBehindRow, TableStep, JobStep
  PROVE  JobsBehindRow'
<1> USE DEF ClaimInv
<1>1. SUFFICES ASSUME NEW w \in Workers, Active(w)'
               PROVE  /\ job'[w].id <= job'[w].epoch /\ job'[w].epoch <= clock'
                      /\ \A g \in Games : row'[g] # NoRow /\ row'[g].id = job'[w].id =>
                           /\ job'[w].game = g
                           /\ job'[w].epoch <= row'[g].requested
                           /\ job'[w].epoch = row'[g].requested => job'[w].attempt <= row'[g].attempts
  BY DEF JobsBehindRow
<1>2. job'[w] = job[w] /\ job[w] \in Job
  BY <1>1 DEF JobStep, JobsTyped
<1>3. job[w].id \in Nat /\ job[w].epoch \in Nat /\ job[w].attempt \in Nat /\ job[w].game \in Games
  BY <1>2 DEF Job
<1>4. \A g \in Games :
        /\ row[g] # NoRow => row[g].id \in Nat /\ row[g].requested \in Nat /\ row[g].attempts \in Nat
        /\ row'[g] # NoRow => row'[g].id \in Nat /\ row'[g].requested \in Nat /\ row'[g].attempts \in Nat
  BY DEF TypeOK, Row
<1>5. clock \in Nat
  BY QueueAssumption DEF TypeOK
<1>6. CASE Active(w)
  <2>1. /\ job[w].id <= job[w].epoch /\ job[w].epoch <= clock
        /\ \A g \in Games : row[g] # NoRow /\ row[g].id = job[w].id =>
             /\ job[w].game = g
             /\ job[w].epoch <= row[g].requested
             /\ job[w].epoch = row[g].requested => job[w].attempt <= row[g].attempts
    BY <1>6 DEF JobsBehindRow
  <2>2. ASSUME NEW g \in Games, Kept(g), row'[g] # NoRow, row'[g].id = job[w].id
        PROVE  /\ job[w].game = g
               /\ job[w].epoch <= row'[g].requested
               /\ job[w].epoch = row'[g].requested => job[w].attempt <= row'[g].attempts
    BY <1>3, <1>4, <2>1, <2>2 DEF Kept
  <2>3. ASSUME NEW g \in Games, Renewed(g), row'[g].id = job[w].id
        PROVE  /\ job[w].game = g
               /\ job[w].epoch < row'[g].requested
    BY <1>3, <1>4, <1>5, <2>1, <2>3 DEF Renewed
  <2>4. clock <= clock' /\ clock' \in Nat
    BY <1>5 DEF TableStep, RowsKept, Renewed
  <2>5. \A g \in Games : Kept(g) \/ Renewed(g)
    BY DEF TableStep, RowsKept
  <2>6. QED
    BY <1>2, <1>3, <1>4, <1>5, <2>1, <2>2, <2>3, <2>4, <2>5
<1>7. CASE ClaimCommit(w)
  <2>1. /\ RowPresent(w) /\ row[job[w].game].requested = job[w].epoch
        /\ row[job[w].game].attempts + 1 = job[w].attempt
        /\ row' = [row EXCEPT ![job[w].game] = ClaimedRow(w)] /\ clock' = clock
    BY <1>7 DEF ClaimCommit, ClaimsFresh, serverVars
  <2>2. row[job[w].game] \in Row
    BY <1>3, <2>1 DEF RowPresent, TypeOK
  <2>3. /\ row'[job[w].game].id = job[w].id
        /\ row'[job[w].game].requested = job[w].epoch
        /\ row'[job[w].game].attempts = job[w].attempt
        /\ row'[job[w].game] # NoRow
    <3>1. row'[job[w].game] = ClaimedRow(w)
      BY <1>3, <2>1 DEF TypeOK
    <3>2. ClaimedRow(w) \in Row
      BY <1>2, <2>1, WrittenRowTypes
    <3>3. /\ ClaimedRow(w).id = row[job[w].game].id
          /\ ClaimedRow(w).requested = row[job[w].game].requested
          /\ ClaimedRow(w).attempts = row[job[w].game].attempts + 1
      BY <2>2 DEF ClaimedRow, Row
    <3>4. ClaimedRow(w) # NoRow
      BY <3>2, NullAssumption
    <3>5. QED
      BY <2>1, <3>1, <3>3, <3>4 DEF RowPresent
  <2>4. \A g \in Games : row'[g] # NoRow /\ row'[g].id = job[w].id => g = job[w].game
    BY <1>3, <2>3 DEF IdsSerial
  <2>5. job[w].id <= job[w].epoch /\ job[w].epoch <= clock'
    BY <1>3, <2>3 DEF IdsSerial
  <2>6. QED
    BY <1>2, <1>3, <2>3, <2>4, <2>5
<1>8. QED
  BY <1>1, <1>6, <1>7 DEF JobStep

\* No attempt gets a second worker.
LEMMA AttemptsStayUnique ==
  ASSUME ClaimInv, JobsBehindRow, AttemptUnique, JobStep
  PROVE  AttemptUnique'
<1> USE DEF ClaimInv
<1>1. SUFFICES ASSUME NEW u \in Workers, NEW w \in Workers, u # w, Active(u)', Active(w)',
                      job'[u].id = job'[w].id, job'[u].epoch = job'[w].epoch
               PROVE  job'[u].attempt # job'[w].attempt
  BY DEF AttemptUnique
<1>2. job'[u] = job[u] /\ job'[w] = job[w]
  BY <1>1 DEF JobStep
<1>3. ASSUME NEW v \in Workers, NEW x \in Workers, ClaimCommit(v), Active(x),
             job[v].id = job[x].id, job[v].epoch = job[x].epoch
      PROVE  job[x].attempt # job[v].attempt
  <2>1. job[v] \in Job /\ job[x] \in Job
    BY <1>3 DEF JobsTyped, ClaimCommit
  <2>2. /\ RowPresent(v) /\ row[job[v].game].requested = job[v].epoch
        /\ row[job[v].game].attempts + 1 = job[v].attempt
    BY <1>3 DEF ClaimCommit, ClaimsFresh
  <2>3. job[x].attempt <= row[job[v].game].attempts
    BY <1>3, <2>1, <2>2 DEF JobsBehindRow, RowPresent, Job
  <2>4. row[job[v].game].attempts \in Nat /\ job[x].attempt \in Nat
    BY <2>1, <2>2 DEF TypeOK, RowPresent, Job, Row
  <2>5. QED
    BY <2>2, <2>3, <2>4
<1>4. ~(ClaimCommit(u) /\ ClaimCommit(w))
  BY <1>1 DEF ClaimCommit, TypeOK
<1>5. CASE Active(u) /\ Active(w)
  BY <1>1, <1>2, <1>5 DEF AttemptUnique
<1>6. CASE Active(u) /\ ClaimCommit(w)
  BY <1>1, <1>2, <1>3, <1>6
<1>7. CASE ClaimCommit(u) /\ Active(w)
  BY <1>1, <1>2, <1>3, <1>7
<1>8. QED
  BY <1>1, <1>4, <1>5, <1>6, <1>7 DEF JobStep

\* A step without a fault keeps the worker of every running row.
LEMMA OrphansStayExplained ==
  ASSUME ClaimInv, ClaimInv', OrphanNeedsFault, [Next]_vars
  PROVE  OrphanNeedsFault'
<1> USE DEF ClaimInv
<1>1. faults \in Nat
  BY QueueAssumption DEF TypeOK
\* A row that was running before the step and is not written.
<1>2. ASSUME NEW g \in Games, row[g] # NoRow, row[g].status = "running", row'[g] = row[g], faults' = faults,
             \A w \in Workers : Active(w) /\ row[job[w].game] = row[g] => Active(w)' /\ job'[w] = job[w]
      PROVE  faults' > 0 \/ \E w \in Workers : Holds(w, g)'
  BY <1>2 DEF OrphanNeedsFault, Holds
<1>3. ASSUME faults' = faults + 1 PROVE OrphanNeedsFault'
  BY <1>1, <1>3 DEF OrphanNeedsFault
<1>4. ASSUME faults' = faults, pc' = pc, job' = job,
             \A g \in Games : row'[g] = row[g] \/ row'[g] = NoRow \/ row'[g].status = "queued"
      PROVE  OrphanNeedsFault'
  BY <1>2, <1>4 DEF OrphanNeedsFault, Active
<1>5. ASSUME NEW g \in Games, NEW h \in Hashes, UploadNew(g, h) \/ UploadAgain(g, h)
      PROVE  OrphanNeedsFault'
  BY <1>4, <1>5 DEF UploadNew, UploadAgain, InsertRow, ResetRow, QueuedRow, TypeOK
<1>6. ASSUME NEW g \in Games, DeleteGame(g) \/ SeasonEnqueue(g)
      PROVE  OrphanNeedsFault'
  BY <1>4, <1>6 DEF DeleteGame, SeasonEnqueue, InsertRow, QueuedRow, TypeOK
<1>7. ASSUME NEW g \in Games, BackoffElapses(g)
      PROVE  OrphanNeedsFault'
  <2>1. row[g] \in Row
    BY <1>7 DEF BackoffElapses, TypeOK
  <2>2. [row[g] EXCEPT !.due = TRUE].status = "queued"
    BY <1>7, <2>1 DEF BackoffElapses, Row
  <2>3. row' = [row EXCEPT ![g] = [row[g] EXCEPT !.due = TRUE]]
    BY <1>7 DEF BackoffElapses
  <2>4. QED
    BY <1>4, <1>7, <2>2, <2>3 DEF BackoffElapses, workerVars, TypeOK
<1>8. CASE ServerStep
  BY <1>4, <1>5, <1>6, <1>8 DEF ServerStep, ParseLocal, SendNotify, LoseNotify, SeasonRead, SeasonAbort, Deploy
<1>9. CASE UNCHANGED vars
  BY <1>4, <1>9 DEF vars
<1>10. ASSUME NEW w \in Workers, FaultStep(w) PROVE OrphanNeedsFault'
  BY <1>3, <1>10 DEF FaultStep, Crash, ClaimFails, ClaimReplyLost, ResultReplyLost, MarkFailureFails, Fault
\* Steps of a worker that execute no job before or after.
<1>11. ASSUME NEW w \in Workers, row' = row, faults' = faults, ~Active(w), \A v \in Workers \ {w} : pc'[v] = pc[v] /\ job'[v] = job[v]
       PROVE  OrphanNeedsFault'
  BY <1>2, <1>11 DEF OrphanNeedsFault, Active
<1>12. ASSUME NEW w \in Workers,
              ClaimNothing(w) \/ WakeUp(w) \/ Poll(w) \/ Restart(w) \/ (\E g \in Games : ClaimLock(w, g))
       PROVE  OrphanNeedsFault'
  BY <1>11, <1>12 DEF ClaimNothing, WakeUp, Poll, Restart, ClaimLock, Active, TypeOK
<1>13. ASSUME NEW w \in Workers, RunFails(w) PROVE OrphanNeedsFault'
  BY <1>2, <1>13 DEF RunFails, OrphanNeedsFault, Active, TypeOK
\* A commit turns the claimed row over to its worker.
<1>14. ASSUME NEW w \in Workers, ClaimCommit(w) PROVE OrphanNeedsFault'
  <2> SUFFICES ASSUME NEW g \in Games, row'[g] # NoRow, row'[g].status = "running"
               PROVE  faults' > 0 \/ \E v \in Workers : Holds(v, g)'
    BY DEF OrphanNeedsFault
  <2>1. /\ job[w] \in Job /\ job[w].game \in Games /\ RowPresent(w)
        /\ row[job[w].game].requested = job[w].epoch
        /\ row[job[w].game].attempts + 1 = job[w].attempt
    BY <1>14 DEF ClaimCommit, JobsTyped, ClaimsFresh, Job
  <2>2. row[job[w].game] \in Row
    BY <2>1 DEF RowPresent, TypeOK
  <2>3. CASE g = job[w].game
    <3>1. row'[g] = ClaimedRow(w)
      BY <1>14, <2>3 DEF ClaimCommit, TypeOK
    <3>2. /\ ClaimedRow(w).id = job[w].id /\ ClaimedRow(w).requested = job[w].epoch
          /\ ClaimedRow(w).attempts = job[w].attempt
      BY <2>1, <2>2 DEF ClaimedRow, RowPresent, Row
    <3>3. Active(w)' /\ job'[w] = job[w]
      BY <1>14 DEF ClaimCommit, Active, TypeOK
    <3>4. Holds(w, g)'
      BY <2>3, <3>1, <3>2, <3>3 DEF Holds
    <3>5. QED
      BY <3>4
  <2>4. CASE g # job[w].game
    BY <1>2, <1>14, <2>1, <2>4 DEF ClaimCommit, serverVars, Active, TypeOK
  <2>5. QED
    BY <2>3, <2>4
\* A report ends the attempt it names, unless the row is gone or newer.
<1>15. ASSUME NEW w \in Workers, RunSucceeds(w) \/ MarkFailure(w) PROVE OrphanNeedsFault'
  <2> SUFFICES ASSUME NEW g \in Games, row'[g] # NoRow, row'[g].status = "running"
               PROVE  faults' > 0 \/ \E v \in Workers : Holds(v, g)'
    BY DEF OrphanNeedsFault
  <2>1. job[w] \in Job
    BY <1>15 DEF RunSucceeds, MarkFailure, JobsTyped, Active
  <2>2. PICK r \in {SucceededRow(w), FailedRow(w)} : UpdateById(w, r)
    BY <1>15 DEF RunSucceeds, MarkFailure
  <2>3. row'[g] = row[g] /\ ~(RowPresent(w) /\ job[w].game = g)
    BY <2>1, <2>2, ReportedRows DEF UpdateById, TypeOK, Job
  <2>4. faults' = faults /\ \A v \in Workers \ {w} : Active(v) => Active(v)' /\ job'[v] = job[v]
    BY <1>15 DEF RunSucceeds, MarkFailure, Active, TypeOK
  <2>5. faults > 0 \/ \E v \in Workers : Holds(v, g)
    BY <2>3 DEF OrphanNeedsFault
  <2>6. \A v \in Workers : Holds(v, g) => v # w
    BY <2>3 DEF Holds, RowPresent
  <2>7. QED
    BY <2>3, <2>4, <2>5, <2>6 DEF Holds
<1>16. ASSUME NEW w \in Workers, WorkerStep(w) PROVE OrphanNeedsFault'
  BY <1>12, <1>13, <1>14, <1>15, <1>16 DEF WorkerStep
<1>17. QED
  BY <1>7, <1>8, <1>9, <1>10, <1>16 DEF Next

\* The invariant of the runs, with the types.
Inv == TypeOK /\ IndInv

\* It holds initially ...
LEMMA InvInit == Init => Inv
<1> SUFFICES ASSUME Init PROVE Inv
  OBVIOUS
<1>1. ClaimInv
  BY ClaimInvInit
<1>2. IdsSerial /\ JobsBehindRow /\ AttemptUnique /\ OrphanNeedsFault
  BY DEF Init, IdsSerial, JobsBehindRow, AttemptUnique, OrphanNeedsFault, Active
<1>3. QED
  BY <1>1, <1>2 DEF Inv, IndInv, ClaimInv

\* ... and every step preserves it.
LEMMA InvNext == Inv /\ [Next]_vars => Inv'
<1> SUFFICES ASSUME Inv, [Next]_vars PROVE Inv'
  OBVIOUS
<1>1. ClaimInv /\ IdsSerial /\ JobsBehindRow /\ AttemptUnique /\ OrphanNeedsFault
  BY DEF Inv, IndInv, ClaimInv
<1>2. ClaimInv'
  BY <1>1, NextClaims
<1>3. TableStep /\ JobStep
  BY <1>1, <1>2, NextTableStep, NextJobStep
<1>4. IdsSerial'
  BY <1>1, <1>2, <1>3, IdsStaySerial DEF ClaimInv
<1>5. JobsBehindRow' /\ AttemptUnique'
  BY <1>1, <1>2, <1>3, <1>4, JobsStayBehind, AttemptsStayUnique
<1>6. OrphanNeedsFault'
  BY <1>1, <1>2, OrphansStayExplained
<1>7. QED
  BY <1>2, <1>4, <1>5, <1>6 DEF Inv, IndInv, ClaimInv

\* So it holds always.
LEMMA InvAlways == Spec => []Inv
  BY InvInit, InvNext, PTL DEF Spec

\* What the claims, the ids and the jobs at work rely on, for any workers and faults: a
\* claim in progress finds its row, ids are serial, a job never runs ahead of its row.
THEOREM QueueInvariant == Spec => []IndInv
<1>1. Inv => IndInv
  BY DEF Inv
<1>2. QED
  BY InvAlways, <1>1, PTL

\* No attempt of a request is ever executed by two workers, for any number of
\* workers and versions and whatever faults happen (the claim of claimNextJob).
THEOREM AttemptsAreUnique == Spec => []AttemptUnique
<1>1. Inv => AttemptUnique
  BY DEF Inv, IndInv
<1>2. QED
  BY InvAlways, <1>1, PTL

\* As long as no infrastructure fault happens, a running row always has a worker
\* that executes exactly its current attempt.
THEOREM OrphansNeedFaults == Spec => []OrphanNeedsFault
<1>1. Inv => OrphanNeedsFault
  BY DEF Inv, IndInv
<1>2. QED
  BY InvAlways, <1>1, PTL

-----------------------------------------------------------------------------
(***************************************************************************)
(* What holds of the analysis queue while REPLAY_ANALYZER_VERSION does not *)
(* change: no claimed row is requeued, so a row has one worker at a time,  *)
(* its attempts stay within the limit, and the table implements            *)
(* AnalysisLifecycle.                                                      *)
(***************************************************************************)


OneVersion == \A v1, v2 \in Versions : v1 = v2

\* A row is never reset: it lives and dies with one request.
RowsAreRequests == \A g \in Games : row[g] # NoRow => row[g].id = row[g].requested

JobsAreRequests == \A w \in Workers : Active(w) => job[w].id = job[w].epoch

\* A job in execution is the last attempt of its row, which still waits for its
\* report (or has it, when the reply to the report was lost).
JobsAreCurrent ==
  \A w \in Workers : Active(w) /\ RowPresent(w) =>
    /\ row[job[w].game].attempts = job[w].attempt
    /\ \/ row[job[w].game].status = "running"
       \/ row[job[w].game].status = "succeeded" /\ "resultReply" \in FaultKinds

\* A queued row has an attempt left.
QueuedHasAttempt == \A g \in Games : Queued(g) => row[g].attempts < MaxAttempts

OneInv ==
  /\ Inv
  /\ RowsAreRequests /\ JobsAreRequests /\ JobsAreCurrent
  /\ SoleRunner
  /\ AttemptsBounded /\ QueuedHasAttempt
  /\ ResultOfRequest

\* g's row after a step: gone, as it was, freshly inserted, retried later, claimed
\* by w, or reported by w.
Inserted(g) ==
  /\ row[g] = NoRow
  /\ row'[g] # NoRow /\ row'[g].status = "queued" /\ row'[g].attempts = 0
  /\ row'[g].id = clock + 1 /\ row'[g].requested = clock + 1

Elapsed(g) ==
  /\ row[g] # NoRow /\ row'[g] # NoRow
  /\ row[g].status = "queued" /\ row'[g].status = "queued"
  /\ row'[g].id = row[g].id /\ row'[g].requested = row[g].requested
  /\ row'[g].attempts = row[g].attempts

ClaimedBy(w, g) ==
  /\ pc[w] = "claiming" /\ job[w].game = g
  /\ row'[g] = ClaimedRow(w)

ReportedBy(w, g) ==
  /\ Active(w) /\ job[w].game = g /\ RowPresent(w)
  /\ \/ row'[g] = SucceededRow(w) /\ (~Active(w)' \/ "resultReply" \in FaultKinds)
     \/ row'[g] = FailedRow(w) /\ ~Active(w)'

RowStep(g) ==
  \/ row'[g] = NoRow
  \/ row'[g] = row[g]
  \/ Inserted(g)
  \/ Elapsed(g)
  \/ \E w \in Workers : ClaimedBy(w, g) \/ ReportedBy(w, g)

\* Only one game's row is written by a step.
SingleStep ==
  \E k \in Games : RowStep(k) /\ \A g \in Games \ {k} : row'[g] = row[g]

\* With one version the upsert never resets a row.
LEMMA NeverRequeues ==
  ASSUME OneVersion, TypeOK, NEW g \in Games, NEW h \in Hashes, row[g] # NoRow
  PROVE  ~Requeues(g, h)
BY DEF OneVersion, TypeOK, Requeues, Row

\* A row inserted by a handler.
LEMMA InsertedRow ==
  ASSUME ClaimInv, ClaimInv', NEW g \in Games, NEW h \in Hashes, row[g] = NoRow, InsertRow(g, h)
  PROVE  Inserted(g) /\ \A k \in Games \ {g} : row'[k] = row[k]
<1>1. row'[g] = QueuedRow(clock + 1, h) /\ \A k \in Games \ {g} : row'[k] = row[k]
  BY DEF ClaimInv, TypeOK, InsertRow
<1>2. clock + 1 \in Nat /\ clock < MaxRequests
  BY QueueAssumption DEF ClaimInv, TypeOK, InsertRow
<1>3. row'[g] \in Row
  BY <1>1, <1>2, QueuedRowType DEF ClaimInv
<1>4. row'[g] # NoRow
  BY <1>3, NullAssumption
<1>5. QED
  BY <1>1, <1>4 DEF Inserted, QueuedRow

\* Every step writes at most one row, in one of these ways.
LEMMA NextSingleStep ==
  ASSUME OneVersion, ClaimInv, ClaimInv', [Next]_vars
  PROVE  SingleStep \/ row' = row
<1> USE DEF ClaimInv
<1>1. ASSUME NEW g \in Games, NEW h \in Hashes, UploadNew(g, h) \/ UploadAgain(g, h)
      PROVE  SingleStep \/ row' = row
  <2>1. CASE UploadNew(g, h)
    <3>1. row[g] = NoRow
      BY <2>1 DEF UploadNew, RowsHaveGames
    <3>2. QED
      BY <2>1, <3>1, InsertedRow DEF UploadNew, SingleStep, RowStep
  <2>2. CASE UploadAgain(g, h)
    BY <2>2, NeverRequeues, InsertedRow DEF UploadAgain, SingleStep, RowStep
  <2>3. QED
    BY <1>1, <2>1, <2>2
<1>2. ASSUME NEW g \in Games, SeasonEnqueue(g)
      PROVE  SingleStep \/ row' = row
  <2>1. view[g] \in Hashes
    BY <1>2 DEF SeasonEnqueue, TypeOK
  <2>2. QED
    BY <1>2, <2>1, InsertedRow DEF SeasonEnqueue, SingleStep, RowStep
<1>3. ASSUME NEW g \in Games, DeleteGame(g)
      PROVE  SingleStep
  BY <1>3 DEF DeleteGame, SingleStep, RowStep, TypeOK
<1>4. ASSUME NEW g \in Games, BackoffElapses(g)
      PROVE  SingleStep
  <2>1. row[g] \in Row /\ row' = [row EXCEPT ![g] = [row[g] EXCEPT !.due = TRUE]]
    BY <1>4 DEF BackoffElapses, TypeOK
  <2>2. [row[g] EXCEPT !.due = TRUE] \in Row
    BY <2>1 DEF Row
  <2>3. /\ [row[g] EXCEPT !.due = TRUE].status = row[g].status
        /\ [row[g] EXCEPT !.due = TRUE].id = row[g].id
        /\ [row[g] EXCEPT !.due = TRUE].requested = row[g].requested
        /\ [row[g] EXCEPT !.due = TRUE].attempts = row[g].attempts
    BY <2>1 DEF Row
  <2>4. row'[g] # NoRow
    BY <2>1, <2>2, NullAssumption DEF TypeOK
  <2>5. Elapsed(g)
    BY <1>4, <2>1, <2>3, <2>4 DEF BackoffElapses, Elapsed, TypeOK
  <2>6. QED
    BY <2>1, <2>5 DEF SingleStep, RowStep, TypeOK
<1>5. ASSUME NEW w \in Workers, ClaimCommit(w) \/ ClaimReplyLost(w)
      PROVE  SingleStep
  <2>1. job[w].game \in Games
    BY <1>5 DEF ClaimCommit, ClaimReplyLost, JobsTyped, Job
  <2>2. ClaimedBy(w, job[w].game) /\ \A k \in Games \ {job[w].game} : row'[k] = row[k]
    BY <1>5, <2>1 DEF ClaimCommit, ClaimReplyLost, ClaimedBy, TypeOK
  <2>3. QED
    BY <2>1, <2>2 DEF SingleStep, RowStep
<1>6. ASSUME NEW w \in Workers, RunSucceeds(w) \/ MarkFailure(w) \/ ResultReplyLost(w)
      PROVE  SingleStep \/ row' = row
  <2>1. job[w] \in Job /\ job[w].game \in Games /\ Active(w)
    BY <1>6 DEF RunSucceeds, MarkFailure, ResultReplyLost, JobsTyped, Active, Job
  <2>2. CASE ~RowPresent(w)
    BY <1>6, <2>2 DEF RunSucceeds, MarkFailure, ResultReplyLost, UpdateById
  <2>3. CASE RowPresent(w)
    <3>1. RunSucceeds(w) \/ MarkFailure(w) => ~Active(w)'
      BY DEF RunSucceeds, MarkFailure, Active, TypeOK
    <3>2. ReportedBy(w, job[w].game) /\ \A k \in Games \ {job[w].game} : row'[k] = row[k]
      BY <1>6, <2>1, <2>3, <3>1
         DEF RunSucceeds, MarkFailure, ResultReplyLost, UpdateById, ReportedBy, Fault, TypeOK
    <3>3. QED
      BY <2>1, <3>2 DEF SingleStep, RowStep
  <2>4. QED
    BY <2>2, <2>3
<1>7. CASE ServerStep
  BY <1>1, <1>2, <1>3, <1>7 DEF ServerStep, ParseLocal, SendNotify, LoseNotify, SeasonRead, SeasonAbort, Deploy
<1>8. ASSUME NEW w \in Workers, WorkerStep(w) PROVE SingleStep \/ row' = row
  BY <1>5, <1>6, <1>8 DEF WorkerStep, ClaimLock, ClaimNothing, RunFails, WakeUp, Poll, Restart
<1>9. ASSUME NEW w \in Workers, FaultStep(w) PROVE SingleStep \/ row' = row
  BY <1>5, <1>6, <1>9 DEF FaultStep, Crash, ClaimFails, MarkFailureFails, serverVars
<1>10. CASE UNCHANGED vars
  BY <1>10 DEF vars
<1>11. QED
  BY <1>4, <1>7, <1>8, <1>9, <1>10 DEF Next

\* What the rows written by workers contain.
LEMMA WrittenFields ==
  ASSUME TypeOK, NEW w \in Workers, job[w] \in Job, RowPresent(w), NEW r, r = row[job[w].game]
  PROVE  /\ r.attempts \in Nat
         /\ ClaimedRow(w).id = r.id /\ ClaimedRow(w).requested = r.requested
         /\ ClaimedRow(w).attempts = r.attempts + 1 /\ ClaimedRow(w).status = "running"
         /\ SucceededRow(w).id = r.id /\ SucceededRow(w).requested = r.requested
         /\ SucceededRow(w).attempts = r.attempts /\ SucceededRow(w).status = "succeeded"
         /\ SucceededRow(w).payload = job[w].epoch
         /\ FailedRow(w).id = r.id /\ FailedRow(w).requested = r.requested
         /\ FailedRow(w).attempts = r.attempts
         /\ FailedRow(w).status = IF job[w].attempt < MaxAttempts THEN "queued" ELSE "failed"
<1>1. r \in Row
  BY DEF TypeOK, Job, RowPresent
<1>2. r.attempts \in Nat
  BY <1>1 DEF Row
<1>3. /\ ClaimedRow(w).id = r.id /\ ClaimedRow(w).requested = r.requested
      /\ ClaimedRow(w).attempts = r.attempts + 1 /\ ClaimedRow(w).status = "running"
  BY <1>1 DEF ClaimedRow, Row
<1>4. /\ SucceededRow(w).id = r.id /\ SucceededRow(w).requested = r.requested
      /\ SucceededRow(w).attempts = r.attempts /\ SucceededRow(w).status = "succeeded"
      /\ SucceededRow(w).payload = job[w].epoch
  BY <1>1 DEF SucceededRow, Row
<1>5. /\ FailedRow(w).id = r.id /\ FailedRow(w).requested = r.requested
      /\ FailedRow(w).attempts = r.attempts
      /\ FailedRow(w).status = IF job[w].attempt < MaxAttempts THEN "queued" ELSE "failed"
  BY <1>1 DEF FailedRow, Row
<1>6. QED
  BY <1>2, <1>3, <1>4, <1>5

\* The facts about a claim in progress, in one place.
LEMMA ClaimFacts ==
  ASSUME ClaimInv, NEW w \in Workers, pc[w] = "claiming"
  PROVE  /\ job[w] \in Job /\ job[w].game \in Games /\ RowPresent(w)
         /\ row[job[w].game].status = "queued"
         /\ row[job[w].game].requested = job[w].epoch
         /\ row[job[w].game].attempts + 1 = job[w].attempt
BY DEF ClaimInv, JobsTyped, ClaimsFresh, Job

\* A job that a claim would duplicate is not in execution.
LEMMA NoSecondRunner ==
  ASSUME OneInv, NEW w \in Workers, NEW u \in Workers, pc[w] = "claiming", Active(u)
  PROVE  job[u].id # job[w].id
<1>1. SUFFICES ASSUME job[u].id = job[w].id PROVE FALSE
  OBVIOUS
<1>2. ClaimInv /\ JobsBehindRow /\ JobsAreCurrent
  BY DEF OneInv, Inv, IndInv, ClaimInv
<1>3. /\ job[w].game \in Games /\ RowPresent(w) /\ row[job[w].game].status = "queued"
  BY <1>2, ClaimFacts
<1>4. job[u].game = job[w].game
  BY <1>1, <1>2, <1>3 DEF JobsBehindRow, RowPresent
<1>5. RowPresent(u)
  BY <1>1, <1>3, <1>4 DEF RowPresent
<1>6. QED
  BY <1>2, <1>3, <1>4, <1>5 DEF JobsAreCurrent

\* The conjuncts about rows, for a row that is written.
LEMMA RowStepKeeps ==
  ASSUME OneInv, TypeOK', NEW g \in Games, RowStep(g), row'[g] # NoRow
  PROVE  /\ row'[g].id = row'[g].requested
         /\ row'[g].attempts <= MaxAttempts
         /\ row'[g].status = "queued" => row'[g].attempts < MaxAttempts
         /\ row'[g].status = "succeeded" => row'[g].payload = row'[g].requested
<1> DEFINE Good == /\ row'[g].id = row'[g].requested
                   /\ row'[g].attempts <= MaxAttempts
                   /\ row'[g].status = "queued" => row'[g].attempts < MaxAttempts
                   /\ row'[g].status = "succeeded" => row'[g].payload = row'[g].requested
<1>1. /\ TypeOK /\ ClaimInv /\ JobsBehindRow
      /\ RowsAreRequests /\ JobsAreRequests /\ JobsAreCurrent
      /\ AttemptsBounded /\ QueuedHasAttempt /\ ResultOfRequest
  BY DEF OneInv, Inv, IndInv, ClaimInv
<1>2. MaxAttempts \in Nat /\ MaxAttempts > 0
  BY QueueAssumption
<1>3. CASE row'[g] = row[g]
  BY <1>1, <1>3 DEF RowsAreRequests, AttemptsBounded, QueuedHasAttempt, ResultOfRequest, Queued
<1>4. CASE Inserted(g)
  BY <1>2, <1>4 DEF Inserted
<1>5. CASE Elapsed(g)
  BY <1>1, <1>5 DEF Elapsed, RowsAreRequests, AttemptsBounded, QueuedHasAttempt, Queued
<1>6. ASSUME NEW w \in Workers, ClaimedBy(w, g) PROVE Good
  <2>1. /\ job[w] \in Job /\ RowPresent(w) /\ job[w].game = g /\ row[g].status = "queued"
    BY <1>1, <1>6, ClaimFacts DEF ClaimedBy
  <2>2. row[g].attempts < MaxAttempts /\ row[g].id = row[g].requested
    BY <1>1, <2>1 DEF QueuedHasAttempt, Queued, RowPresent, RowsAreRequests
  <2>3. /\ row[g].attempts \in Nat
        /\ row'[g].id = row[g].id /\ row'[g].requested = row[g].requested
        /\ row'[g].attempts = row[g].attempts + 1 /\ row'[g].status = "running"
    BY <1>1, <1>6, <2>1, WrittenFields DEF ClaimedBy
  <2>4. QED
    BY <1>2, <2>2, <2>3
<1>7. ASSUME NEW w \in Workers, ReportedBy(w, g) PROVE Good
  <2>1. /\ job[w] \in Job /\ RowPresent(w) /\ job[w].game = g /\ Active(w)
    BY <1>1, <1>7 DEF ReportedBy, ClaimInv, JobsTyped
  <2>2. /\ row[g].attempts = job[w].attempt /\ row[g].id = job[w].id
        /\ row[g].id = row[g].requested /\ job[w].id = job[w].epoch /\ row[g].attempts <= MaxAttempts
    BY <1>1, <2>1 DEF JobsAreCurrent, RowPresent, RowsAreRequests, JobsAreRequests, AttemptsBounded
  <2>3. CASE row'[g] = SucceededRow(w)
    <3>1. /\ row'[g].id = row[g].id /\ row'[g].requested = row[g].requested
          /\ row'[g].attempts = row[g].attempts /\ row'[g].status = "succeeded"
          /\ row'[g].payload = job[w].epoch
      BY <1>1, <2>1, <2>3, WrittenFields
    <3>2. QED
      BY <2>2, <3>1
  <2>4. CASE row'[g] = FailedRow(w)
    <3>1. /\ row'[g].id = row[g].id /\ row'[g].requested = row[g].requested
          /\ row'[g].attempts = row[g].attempts
          /\ row'[g].status = IF job[w].attempt < MaxAttempts THEN "queued" ELSE "failed"
      BY <1>1, <2>1, <2>4, WrittenFields
    <3>2. QED
      BY <2>2, <3>1
  <2>5. QED
    BY <1>7, <2>3, <2>4 DEF ReportedBy
<1>8. QED
  BY <1>3, <1>4, <1>5, <1>6, <1>7 DEF RowStep

\* The conjuncts about jobs in execution.
LEMMA JobsStayCurrent ==
  ASSUME OneVersion, OneInv, ClaimInv', JobStep, \A g \in Games : RowStep(g)
  PROVE  JobsAreRequests' /\ JobsAreCurrent' /\ SoleRunner'
<1>1. /\ TypeOK /\ ClaimInv /\ JobsBehindRow /\ SoleRunner
      /\ RowsAreRequests /\ JobsAreRequests /\ JobsAreCurrent
  BY DEF OneInv, Inv, IndInv, ClaimInv
<1>2. \A w \in Workers : ClaimCommit(w) => pc[w] = "claiming"
  BY DEF ClaimCommit
<1>3. JobsAreRequests'
  BY <1>1, <1>2, ClaimFacts DEF JobStep, JobsAreRequests, RowsAreRequests, RowPresent
<1>4. SoleRunner'
  <2> SUFFICES ASSUME NEW u \in Workers, NEW w \in Workers, u # w, Active(u)', Active(w)'
               PROVE  job[u].id # job[w].id
    BY DEF SoleRunner, JobStep
  <2>1. ~(ClaimCommit(u) /\ ClaimCommit(w))
    BY <1>1 DEF ClaimCommit, TypeOK
  <2>2. QED
    BY <1>1, <1>2, <2>1, NoSecondRunner DEF JobStep, SoleRunner
<1>5. JobsAreCurrent'
  <2> SUFFICES ASSUME NEW w \in Workers, NEW g \in Games, g = job[w].game, Active(w)',
                      row'[g] # NoRow, row'[g].id = job[w].id
               PROVE  /\ row'[g].attempts = job[w].attempt
                      /\ \/ row'[g].status = "running"
                         \/ row'[g].status = "succeeded" /\ "resultReply" \in FaultKinds
    <3>1. \A w \in Workers : Active(w)' => job'[w] = job[w] /\ job[w].game \in Games
      BY DEF JobStep, ClaimInv, JobsTyped, Job
    <3>2. QED
      BY <3>1 DEF JobsAreCurrent, RowPresent
  <2>1. CASE ClaimCommit(w)
    <3>1. /\ job[w] \in Job /\ RowPresent(w) /\ row[g].attempts + 1 = job[w].attempt
      BY <1>1, <1>2, <2>1, ClaimFacts
    <3>2. row'[g] = ClaimedRow(w)
      BY <1>1, <2>1 DEF ClaimCommit, TypeOK
    <3>3. QED
      BY <1>1, <3>1, <3>2, WrittenFields
  <2>2. CASE Active(w)
    <3>1. job[w] \in Job /\ clock \in Nat /\ job[w].id \in Nat /\ job[w].id <= clock
      BY <1>1, <2>2, QueueAssumption DEF ClaimInv, JobsTyped, TypeOK, Job, JobsBehindRow
    <3>2. ~Inserted(g)
      BY <3>1 DEF Inserted
    <3>3. CASE row'[g] = row[g]
      BY <1>1, <2>2, <3>3 DEF JobsAreCurrent, RowPresent
    <3>4. ASSUME row[g] # NoRow, row[g].id = job[w].id, row[g].status = "queued" PROVE FALSE
      BY <1>1, <2>2, <3>4 DEF JobsAreCurrent, RowPresent
    <3>5. ~Elapsed(g)
      BY <3>4 DEF Elapsed
    <3>6. ASSUME NEW v \in Workers, ClaimedBy(v, g) PROVE FALSE
      <4>1. /\ job[v] \in Job /\ RowPresent(v) /\ row[g].status = "queued"
        BY <1>1, <3>6, ClaimFacts DEF ClaimedBy
      <4>2. row[g] # NoRow /\ row'[g].id = row[g].id
        BY <1>1, <3>6, <4>1, WrittenFields DEF ClaimedBy, RowPresent
      <4>3. QED
        BY <3>4, <4>1, <4>2
    <3>7. ASSUME NEW v \in Workers, ReportedBy(v, g)
          PROVE  /\ row'[g].attempts = job[w].attempt
                 /\ row'[g].status = "succeeded" /\ "resultReply" \in FaultKinds
      <4>1. /\ job[v] \in Job /\ RowPresent(v) /\ Active(v) /\ job[v].game = g
        BY <1>1, <3>7 DEF ReportedBy, ClaimInv, JobsTyped
      <4>2. row'[g].id = row[g].id /\ row'[g].attempts = row[g].attempts
        BY <1>1, <3>7, <4>1, WrittenFields DEF ReportedBy
      <4>3. v = w
        BY <1>1, <2>2, <4>1, <4>2 DEF SoleRunner, RowPresent
      <4>4. row[g].attempts = job[w].attempt
        BY <1>1, <4>1, <4>3 DEF JobsAreCurrent
      <4>5. row'[g] = SucceededRow(w) /\ "resultReply" \in FaultKinds
        BY <3>7, <4>3 DEF ReportedBy
      <4>6. row'[g].status = "succeeded"
        BY <1>1, <4>1, <4>3, <4>5, WrittenFields
      <4>7. QED
        BY <4>2, <4>4, <4>5, <4>6
    <3>8. QED
      BY <3>2, <3>3, <3>5, <3>6, <3>7 DEF RowStep
  <2>3. QED
    BY <2>1, <2>2 DEF JobStep
<1>6. QED
  BY <1>3, <1>4, <1>5

\* The strengthened invariant holds initially and is preserved.
LEMMA OneInvInit == Init => OneInv
<1> SUFFICES ASSUME Init PROVE OneInv
  OBVIOUS
<1>1. Inv
  BY InvInit
<1>2. QED
  BY <1>1 DEF OneInv, Init, RowsAreRequests, JobsAreRequests, JobsAreCurrent, SoleRunner, AttemptsBounded,
              QueuedHasAttempt, ResultOfRequest, Active, Queued

\* One step, from both views of it.
LEMMA OneInvStep ==
  ASSUME OneVersion, OneInv, [Next]_vars
  PROVE  OneInv' /\ (\A g \in Games : RowStep(g)) /\ (SingleStep \/ row' = row)
<1>1. Inv' /\ ClaimInv /\ ClaimInv'
  BY InvNext DEF OneInv, Inv, IndInv, ClaimInv
<1>2. SingleStep \/ row' = row
  BY <1>1, NextSingleStep
<1>3. \A g \in Games : RowStep(g)
  BY <1>2 DEF SingleStep, RowStep
<1>4. JobStep
  BY <1>1, NextJobStep
<1>5. JobsAreRequests' /\ JobsAreCurrent' /\ SoleRunner'
  BY <1>1, <1>3, <1>4, JobsStayCurrent
<1>6. RowsAreRequests' /\ AttemptsBounded' /\ QueuedHasAttempt' /\ ResultOfRequest'
  BY <1>1, <1>3, RowStepKeeps
     DEF ClaimInv, RowsAreRequests, AttemptsBounded, QueuedHasAttempt, ResultOfRequest, Queued
<1>7. QED
  BY <1>1, <1>2, <1>3, <1>5, <1>6 DEF OneInv

\* So it holds always.
LEMMA OneInvAlways == OneVersion => (Spec => []OneInv)
<1>1. OneVersion /\ OneInv /\ [Next]_vars => OneInv'
  BY OneInvStep
<1>2. OneVersion => OneVersion'
  BY DEF OneVersion
<1>3. QED
  BY OneInvInit, <1>1, <1>2, PTL DEF Spec

\* Under one analyzer version a row, and with it the output directory of its
\* job, has at most one worker, whatever crashes and lost replies do.
THEOREM OneRunner == OneVersion => (Spec => []SoleRunner)
<1>1. OneInv => SoleRunner
  BY DEF OneInv
<1>2. QED
  BY OneInvAlways, <1>1, PTL

\* Under one analyzer version no row is claimed more than MaxAttempts times.
THEOREM AttemptsStayBounded == OneVersion => (Spec => []AttemptsBounded)
<1>1. OneInv => AttemptsBounded
  BY DEF OneInv
<1>2. QED
  BY OneInvAlways, <1>1, PTL

\* Under one analyzer version a succeeded row shows the result of its request,
\* not of a row of the game that was deleted before it.
THEOREM ResultsMatchRequests == OneVersion => (Spec => []ResultOfRequest)
<1>1. OneInv => ResultOfRequest
  BY DEF OneInv
<1>2. QED
  BY OneInvAlways, <1>1, PTL

-----------------------------------------------------------------------------
(***************************************************************************)
(* The refinement, and the requeue rule.  Both need, besides one version,  *)
(* that the reply to a success UPDATE is never lost: markFailure would put *)
(* the row the UPDATE finished back into the queue.                        *)
(***************************************************************************)

RepliesArrive == "resultReply" \notin FaultKinds

\* Statuses and tries as the abstract specification sees them.
Status == [g \in Games |-> IF row[g] = NoRow THEN "none" ELSE row[g].status]
Tries == [g \in Games |-> IF row[g] = NoRow THEN 0 ELSE row[g].attempts]

\* How the view of one row changes.
LEMMA ViewStep ==
  ASSUME RepliesArrive, OneInv, OneInv', NEW g \in Games, RowStep(g)
  PROVE  \/ Status'[g] = Status[g] /\ Tries'[g] = Tries[g]
         \/ Status[g] # "none" /\ Status'[g] = "none" /\ Tries'[g] = 0
         \/ Status[g] = "none" /\ Status'[g] = "queued" /\ Tries'[g] = 0
         \/ /\ Status[g] = "queued" /\ Status'[g] = "running"
            /\ Tries[g] < MaxAttempts /\ Tries'[g] = Tries[g] + 1
         \/ Status[g] = "running" /\ Status'[g] = "succeeded" /\ Tries'[g] = Tries[g]
         \/ /\ Status[g] = "running" /\ Status'[g] = "queued"
            /\ Tries[g] < MaxAttempts /\ Tries'[g] = Tries[g]
         \/ /\ Status[g] = "running" /\ Status'[g] = "failed"
            /\ Tries[g] = MaxAttempts /\ Tries'[g] = Tries[g]
<1> DEFINE Goal ==
         \/ Status'[g] = Status[g] /\ Tries'[g] = Tries[g]
         \/ Status[g] # "none" /\ Status'[g] = "none" /\ Tries'[g] = 0
         \/ Status[g] = "none" /\ Status'[g] = "queued" /\ Tries'[g] = 0
         \/ /\ Status[g] = "queued" /\ Status'[g] = "running"
            /\ Tries[g] < MaxAttempts /\ Tries'[g] = Tries[g] + 1
         \/ Status[g] = "running" /\ Status'[g] = "succeeded" /\ Tries'[g] = Tries[g]
         \/ /\ Status[g] = "running" /\ Status'[g] = "queued"
            /\ Tries[g] < MaxAttempts /\ Tries'[g] = Tries[g]
         \/ /\ Status[g] = "running" /\ Status'[g] = "failed"
            /\ Tries[g] = MaxAttempts /\ Tries'[g] = Tries[g]
<1>1. /\ TypeOK /\ TypeOK' /\ ClaimInv /\ JobsAreCurrent /\ AttemptsBounded /\ QueuedHasAttempt
  BY DEF OneInv, Inv, IndInv, ClaimInv
<1>2. /\ Status[g] = IF row[g] = NoRow THEN "none" ELSE row[g].status
      /\ Tries[g] = IF row[g] = NoRow THEN 0 ELSE row[g].attempts
      /\ Status'[g] = IF row'[g] = NoRow THEN "none" ELSE row'[g].status
      /\ Tries'[g] = IF row'[g] = NoRow THEN 0 ELSE row'[g].attempts
  BY DEF Status, Tries
<1>3. row[g] # NoRow => row[g].status \in Statuses
  BY <1>1 DEF TypeOK, Row
<1>4. CASE row'[g] = NoRow \/ row'[g] = row[g]
  BY <1>2, <1>3, <1>4 DEF Statuses
<1>5. CASE Inserted(g) \/ Elapsed(g)
  BY <1>2, <1>5 DEF Inserted, Elapsed
<1>6. ASSUME NEW w \in Workers, ClaimedBy(w, g) PROVE Goal
  <2>1. /\ job[w] \in Job /\ RowPresent(w) /\ row[g] # NoRow /\ row[g].status = "queued"
    BY <1>1, <1>6, ClaimFacts DEF ClaimedBy, RowPresent
  <2>2. row'[g] # NoRow
    BY <1>1, <1>6, <2>1, WrittenRowTypes, NullAssumption DEF ClaimedBy
  <2>3. /\ row'[g].attempts = row[g].attempts + 1 /\ row'[g].status = "running"
    BY <1>1, <1>6, <2>1, WrittenFields DEF ClaimedBy
  <2>4. row[g].attempts < MaxAttempts
    BY <1>1, <2>1 DEF QueuedHasAttempt, Queued
  <2>5. QED
    BY <1>2, <2>1, <2>2, <2>3, <2>4
<1>7. ASSUME NEW w \in Workers, ReportedBy(w, g) PROVE Goal
  <2>1. /\ job[w] \in Job /\ RowPresent(w) /\ job[w].game = g /\ Active(w) /\ row[g] # NoRow
    BY <1>1, <1>7 DEF ReportedBy, ClaimInv, JobsTyped, RowPresent
  <2>2. row'[g] # NoRow
    BY <1>1, <1>7, <2>1, WrittenRowTypes, NullAssumption DEF ReportedBy
  <2>3. row[g].status = "running" /\ row[g].attempts = job[w].attempt
    BY <1>1, <2>1 DEF JobsAreCurrent, RepliesArrive
  <2>4. row[g].attempts <= MaxAttempts /\ row[g].attempts \in Nat /\ MaxAttempts \in Nat
    BY <1>1, <2>1, WrittenFields, QueueAssumption DEF AttemptsBounded
  <2>5. CASE row'[g] = SucceededRow(w)
    <3>1. row'[g].attempts = row[g].attempts /\ row'[g].status = "succeeded"
      BY <1>1, <2>1, <2>5, WrittenFields
    <3>2. QED
      BY <1>2, <2>1, <2>2, <2>3, <3>1
  <2>6. CASE row'[g] = FailedRow(w)
    <3>1. /\ row'[g].attempts = row[g].attempts
          /\ row'[g].status = IF job[w].attempt < MaxAttempts THEN "queued" ELSE "failed"
      BY <1>1, <2>1, <2>6, WrittenFields
    <3>2. QED
      BY <1>2, <2>1, <2>2, <2>3, <2>4, <3>1
  <2>7. QED
    BY <1>7, <2>5, <2>6 DEF ReportedBy
<1>8. QED
  BY <1>4, <1>5, <1>6, <1>7 DEF RowStep

\* Every step is a step of the lifecycle, or leaves it alone.
LEMMA LifecycleStep ==
  ASSUME RepliesArrive, OneInv, OneInv', \A g \in Games : RowStep(g), SingleStep \/ row' = row
  PROVE  [Lifecycle!LifecycleNext]_(Lifecycle!vars)
<1>1. CASE row' = row
  BY <1>1 DEF Lifecycle!vars
<1>2. ASSUME NEW g \in Games, \A k \in Games \ {g} : row'[k] = row[k]
      PROVE  [Lifecycle!LifecycleNext]_(Lifecycle!vars)
  <2>1. /\ Status' = [Status EXCEPT ![g] = Status'[g]]
        /\ Tries' = [Tries EXCEPT ![g] = Tries'[g]]
    BY <1>2 DEF Status, Tries
  <2>2. \/ Status'[g] = Status[g] /\ Tries'[g] = Tries[g]
        \/ Status[g] # "none" /\ Status'[g] = "none" /\ Tries'[g] = 0
        \/ Status[g] = "none" /\ Status'[g] = "queued" /\ Tries'[g] = 0
        \/ /\ Status[g] = "queued" /\ Status'[g] = "running"
           /\ Tries[g] < MaxAttempts /\ Tries'[g] = Tries[g] + 1
        \/ Status[g] = "running" /\ Status'[g] = "succeeded" /\ Tries'[g] = Tries[g]
        \/ /\ Status[g] = "running" /\ Status'[g] = "queued"
           /\ Tries[g] < MaxAttempts /\ Tries'[g] = Tries[g]
        \/ /\ Status[g] = "running" /\ Status'[g] = "failed"
           /\ Tries[g] = MaxAttempts /\ Tries'[g] = Tries[g]
    BY ViewStep
  <2>3. Status[g] \in {"none", "queued", "running", "succeeded", "failed"}
    BY DEF Status, OneInv, Inv, TypeOK, Row, Statuses
  <2>4. Status = [Status EXCEPT ![g] = Status[g]] /\ Tries = [Tries EXCEPT ![g] = Tries[g]]
    BY DEF Status, Tries
  <2>5. CASE Status'[g] = Status[g] /\ Tries'[g] = Tries[g]
    BY <2>1, <2>4, <2>5 DEF Lifecycle!vars, Status, Tries
  <2>6. CASE Status[g] # "none" /\ Status'[g] = "none" /\ Tries'[g] = 0
    <3>1. Lifecycle!Remove(g)
      BY <2>1, <2>3, <2>6 DEF Lifecycle!Remove, Lifecycle!Move, Status, Tries
    <3>2. QED
      BY <3>1 DEF Lifecycle!LifecycleNext
  <2>7. CASE Status[g] = "none" /\ Status'[g] = "queued" /\ Tries'[g] = 0
    <3>1. Lifecycle!Request(g)
      BY <2>1, <2>7 DEF Lifecycle!Request, Lifecycle!Move, Status, Tries
    <3>2. QED
      BY <3>1 DEF Lifecycle!LifecycleNext
  <2>8. CASE /\ Status[g] = "queued" /\ Status'[g] = "running"
             /\ Tries[g] < MaxAttempts /\ Tries'[g] = Tries[g] + 1
    <3>1. Lifecycle!Start(g)
      BY <2>1, <2>8 DEF Lifecycle!Start, Lifecycle!Move, Status, Tries
    <3>2. QED
      BY <3>1 DEF Lifecycle!LifecycleNext
  <2>9. CASE Status[g] = "running" /\ Status'[g] = "succeeded" /\ Tries'[g] = Tries[g]
    <3>1. Lifecycle!Succeed(g)
      BY <2>1, <2>4, <2>9 DEF Lifecycle!Succeed, Lifecycle!Move, Status, Tries
    <3>2. QED
      BY <3>1 DEF Lifecycle!LifecycleNext
  <2>10. CASE /\ Status[g] = "running" /\ Status'[g] = "queued"
              /\ Tries[g] < MaxAttempts /\ Tries'[g] = Tries[g]
    <3>1. Lifecycle!Retry(g)
      BY <2>1, <2>4, <2>10 DEF Lifecycle!Retry, Lifecycle!Move, Status, Tries
    <3>2. QED
      BY <3>1 DEF Lifecycle!LifecycleNext
  <2>11. CASE /\ Status[g] = "running" /\ Status'[g] = "failed"
              /\ Tries[g] = MaxAttempts /\ Tries'[g] = Tries[g]
    <3>1. Lifecycle!GiveUp(g)
      BY <2>1, <2>4, <2>11 DEF Lifecycle!GiveUp, Lifecycle!Move, Status, Tries
    <3>2. QED
      BY <3>1 DEF Lifecycle!LifecycleNext
  <2>12. QED
    BY <2>2, <2>5, <2>6, <2>7, <2>8, <2>9, <2>10, <2>11
<1>3. QED
  BY <1>1, <1>2 DEF SingleStep

\* Under one analyzer version and without lost success replies the table
\* implements the abstract lifecycle, crashes and failed transactions included.
THEOREM QueueImplementsLifecycle == OneVersion /\ RepliesArrive => (Spec => RefinesLifecycle)
<1>1. Init => Lifecycle!LifecycleInit
  BY DEF Init, Lifecycle!LifecycleInit
<1>2. OneVersion /\ RepliesArrive /\ OneInv /\ [Next]_vars => [Lifecycle!LifecycleNext]_(Lifecycle!vars)
  BY OneInvStep, LifecycleStep
<1>3. (OneVersion => OneVersion') /\ (RepliesArrive => RepliesArrive')
  BY DEF OneVersion, RepliesArrive
<1>4. QED
  BY OneInvAlways, <1>1, <1>2, <1>3, PTL DEF Spec, RefinesLifecycle, Lifecycle!LifecycleSpec

\* Under the same conditions no late report reopens or rewrites a finished row.
THEOREM FinishedStaysFinished == OneVersion /\ RepliesArrive => (Spec => FinishedOnlyRequeued)
<1>1. ASSUME OneVersion, RepliesArrive, OneInv, [Next]_vars,
             NEW g \in Games, row[g] # NoRow, row[g].status \in {"succeeded", "failed"}, row'[g] # NoRow
      PROVE  row'[g] = row[g]
  <2>1. RowStep(g) /\ ClaimInv /\ JobsAreCurrent
    BY <1>1, OneInvStep DEF OneInv, Inv, IndInv, ClaimInv
  <2>2. ~Inserted(g) /\ ~Elapsed(g)
    BY <1>1 DEF Inserted, Elapsed
  <2>3. \A w \in Workers : ~ClaimedBy(w, g)
    BY <1>1, <2>1, ClaimFacts DEF ClaimedBy
  <2>4. \A w \in Workers : ~ReportedBy(w, g)
    BY <1>1, <2>1 DEF ReportedBy, JobsAreCurrent, RepliesArrive
  <2>5. QED
    BY <1>1, <2>1, <2>2, <2>3, <2>4 DEF RowStep
<1>2. OneVersion /\ RepliesArrive /\ OneInv /\ [Next]_vars => [FinishedKept]_vars
  BY <1>1 DEF FinishedKept
<1>3. (OneVersion => OneVersion') /\ (RepliesArrive => RepliesArrive')
  BY DEF OneVersion, RepliesArrive
<1>4. QED
  BY OneInvAlways, <1>2, <1>3, PTL DEF Spec, FinishedOnlyRequeued
=============================================================================
