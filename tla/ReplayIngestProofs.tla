--------------------------- MODULE ReplayIngestProofs ---------------------------
(***************************************************************************)
(* Proofs about ReplayIngest, for every number of requests, recordings and *)
(* users, every set of inputs and every number of faults.                  *)
(***************************************************************************)
EXTENDS ReplayIngest, FiniteSetTheorems, TLAPS

(***************************************************************************)
(* Keys.  Later proofs use these facts and leave the tuples unexpanded.    *)
(***************************************************************************)

LEMMA KeysDiffer ==
  ASSUME NEW g, NEW u, NEW v, NEW i, NEW j, NEW m, NEW n
  PROVE  /\ GameKey(g) # FileKey(i, u) /\ GameKey(g) # AnalysisKey(i)
         /\ GameKey(g) # RowLock(i, m) /\ GameKey(g) # UserKey(u)
         /\ FileKey(i, u) # AnalysisKey(j) /\ FileKey(i, u) # RowLock(j, m)
         /\ AnalysisKey(i) # RowLock(j, m)
         /\ FileKey(i, u) = FileKey(j, v) => i = j /\ u = v
         /\ AnalysisKey(i) = AnalysisKey(j) => i = j
BY DEF GameKey, FileKey, AnalysisKey, RowLock, UserKey

LEMMA KeyParts ==
  ASSUME NEW u, NEW i, NEW m
  PROVE  /\ FileKey(i, u)[1] = "files" /\ FileKey(i, u)[2] = i
         /\ AnalysisKey(i)[1] = "analyses" /\ AnalysisKey(i)[2] = i
         /\ RowLock(i, m)[1] = "row"
BY DEF FileKey, AnalysisKey, RowLock

\* The conflicts the argument rests on.
LEMMA KeysConflict ==
  ASSUME NEW g, NEW u, NEW i, NEW m
  PROVE  /\ Conflict(GameKey(g), GameKey(g))
         /\ Conflict(FileKey(i, u), FileKey(i, u))
         /\ Conflict(AnalysisKey(i), AnalysisKey(i))
         /\ Conflict(RowLock(i, "share"), RowLock(i, "delete"))
         /\ Conflict(RowLock(i, "delete"), RowLock(i, "delete"))
BY DEF Conflict, Compatible, GameKey, FileKey, AnalysisKey, RowLock

LEMMA ConflictSymmetric ==
  ASSUME NEW a, NEW b, Conflict(a, b)
  PROVE  Conflict(b, a)
BY DEF Conflict, Compatible

(***************************************************************************)
(* Types.                                                                  *)
(***************************************************************************)

LEMMA RequestTyped ==
  ASSUME TypeOK, NEW t \in Requests, RequestInv(t), pc[t] # "idle"
  PROVE  /\ req[t] \in Inputs
         /\ Game(t) \in Games /\ Uploader(t) \in Users
         /\ NewFile(t) \in [game: Nat, uploader: Users]
<1>1. req[t] \in Inputs /\ req[t] \in Input
  BY IngestAssumption DEF RequestInv, IdleBlank
<1>2. QED
  BY <1>1 DEF Input, Game, Uploader, NewFile, TypeOK

\* Inside a transaction, and in the statements before its first lock.
LEMMA RequestTx ==
  ASSUME TypeOK, NEW t \in Requests, RequestInv(t)
  PROVE  /\ pc[t] \in Lockless \cup {"addFile", "deleteFiles"} => locks[t] = {}
         /\ pc[t] \notin Lockless \cup {"done"} => tx[t] = "open"
BY DEF RequestInv, LocksInTx

\* A statement that waits belongs to a request that was received.
LEMMA WaiterReceived ==
  ASSUME NEW t \in Requests, Waiting(t)
  PROVE  pc[t] \in {"addUploader", "addFile", "enqueue", "count", "season", "create", "addUser",
                    "deleteFiles", "deleteAnalysis", "deleteGame"}
BY DEF Waiting, Blockers, Wanted

LEMMA InitTyped == Init => TypeOK
  BY IngestAssumption DEF Init, TypeOK, Labels

LEMMA LeaveTyped ==
  ASSUME TypeOK, NEW t \in Requests, NEW label \in Labels, NEW s \in {"none", "open", "aborted"},
         s = "open" => tx[t] = "open" \/ locks[t] = {},
         Leave(t, label, s)
  PROVE  /\ pc' \in [Requests -> Labels]
         /\ tx' \in [Requests -> {"none", "open", "aborted"}]
         /\ DOMAIN locks' = Requests
         /\ \A r \in Requests : tx'[r] # "open" => locks'[r] = {}
BY DEF TypeOK, Leave, Goto

LEMMA AnswerTyped ==
  ASSUME TypeOK, NEW t \in Requests, NEW code \in {200, 201, 400, 404, 500},
         NEW s \in {"none", "open", "aborted"}, s = "open" => tx[t] = "open" \/ locks[t] = {},
         Answer(t, code, s)
  PROVE  /\ pc' \in [Requests -> Labels]
         /\ tx' \in [Requests -> {"none", "open", "aborted"}]
         /\ DOMAIN locks' = Requests
         /\ \A r \in Requests : tx'[r] # "open" => locks'[r] = {}
         /\ status' \in [Requests -> {0, 200, 201, 400, 404, 500}]
<1>1. "done" \in Labels /\ Leave(t, "done", s)
  BY DEF Answer, Labels
<1>2. QED
  BY <1>1, LeaveTyped DEF Answer, TypeOK

\* A statement that locks runs in an open transaction.
LEMMA LockTyped ==
  ASSUME TypeOK, NEW t \in Requests, Lock(t),
         (tx' = tx /\ tx[t] = "open") \/ tx' = [tx EXCEPT ![t] = "open"]
  PROVE  /\ tx' \in [Requests -> {"none", "open", "aborted"}]
         /\ DOMAIN locks' = Requests
         /\ \A r \in Requests : tx'[r] # "open" => locks'[r] = {}
BY DEF TypeOK, Lock

\* Every statement keeps the types.  (Counting relies on the recorded game of
\* AdderProtected.)
LEMMA StatementTyped ==
  ASSUME TypeOK, NEW t \in Requests, RequestInv(t), Statement(t)
  PROVE  TypeOK'
<1>a. pc[t] # "idle" => Game(t) \in Games /\ Uploader(t) \in Users
                        /\ NewFile(t) \in [game: Nat, uploader: Users]
  BY RequestTyped
<1>b. /\ pc[t] \in Lockless \cup {"addFile", "deleteFiles"} => locks[t] = {}
      /\ pc[t] \notin Lockless \cup {"done"} => tx[t] = "open"
  BY RequestTx
<1>1. CASE FindUploader(t)
  BY <1>1, <1>a DEF FindUploader, TypeOK, At, Goto, Labels, database
<1>2. CASE AddUploader(t)
  BY <1>2, <1>a, AnswerTyped DEF AddUploader, TypeOK, At, Goto, Labels
<1>3. CASE Lookup(t)
  <2>1. CASE games[Game(t)] # NoGame
    BY <1>3, <1>a, <2>1 DEF Lookup, TypeOK, At, Goto, Labels, database, GameRow
  <2>2. CASE games[Game(t)] = NoGame
    BY <1>3, <2>2, AnswerTyped DEF Lookup, TypeOK, At, Goto, Labels, database
  <2>3. QED
    BY <2>1, <2>2
<1>4. CASE BeginAdd(t)
  <2>1. pc[t] = "begin" /\ {"season", "addFile"} \subseteq Labels
    BY <1>4 DEF BeginAdd, At, Labels
  <2>2. locks[t] = {} /\ (IF AlreadyUploaded(t) THEN "season" ELSE "addFile") \in Labels
    BY <1>b, <2>1 DEF Lockless
  <2>3. QED
    BY <1>4, <2>2, LeaveTyped DEF BeginAdd, TypeOK, database
<1>5. CASE AddFile(t)
  <2>1. CASE Present(target[t]) /\ ~AlreadyUploaded(t)
    <3>1. tx[t] = "open"
      BY <1>5, <1>b DEF AddFile, At, Lockless
    <3>2. pc' \in [Requests -> Labels]
      BY <1>5, <2>1 DEF AddFile, Goto, Labels, TypeOK
    <3>3. QED
      BY <1>5, <2>1, <3>1, <3>2, LockTyped DEF AddFile, TypeOK, database
  <2>2. CASE ~(Present(target[t]) /\ ~AlreadyUploaded(t))
    BY <1>5, <2>2, AnswerTyped DEF AddFile, Rollback, TypeOK, database
  <2>3. QED
    BY <2>1, <2>2
<1>6. CASE Store(t)
  BY <1>6, <1>a DEF Store, TypeOK, At, Goto, Labels, database
<1>7. CASE Enqueue(t)
  <2>1. tx[t] = "open" /\ pc' \in [Requests -> Labels]
    BY <1>7, <1>b DEF Enqueue, At, Goto, Labels, Lockless, TypeOK
  <2>2. QED
    BY <1>7, <2>1, LockTyped DEF Enqueue, TypeOK, database
<1>8. CASE Count(t)
  <2>1. tx[t] = "open" /\ pc' \in [Requests -> Labels]
    BY <1>8, <1>b DEF Count, At, Goto, Labels, Lockless, TypeOK
  <2>2. QED
    BY <1>8, <2>1, LockTyped DEF Count, TypeOK, database
<1>9. CASE CommitAdd(t)
  <2>1. games[Game(t)] \in GameRow /\ pc[t] = "commitAdd"
    BY <1>9, <1>a DEF CommitAdd, At, RequestInv, AdderProtected, Adding, Recorded, TypeOK
  <2>2. Counted(t) \in [Games -> GameRow \cup {NoGame}]
    BY <1>a, <2>1 DEF Counted, GameRow, TypeOK
  <2>3. files' \subseteq [game: Nat, uploader: Users] /\ analyses' \subseteq Nat
    <3>1. NewFile(t) \in [game: Nat, uploader: Users]
      BY <1>a, <2>1
    <3>2. QueuedIds(t) \subseteq Nat
      BY DEF QueuedIds, TypeOK
    <3>3. files' = files \cup {NewFile(t)} /\ analyses' = analyses \cup QueuedIds(t)
      BY <1>9 DEF CommitAdd
    <3>4. files \subseteq [game: Nat, uploader: Users] /\ analyses \subseteq Nat
      BY DEF TypeOK
    <3>5. QED
      BY <3>1, <3>2, <3>3, <3>4
  <2>4. "season" \in Labels
    BY DEF Labels
  <2>5. QED
    BY <1>9, <2>2, <2>3, <2>4, LeaveTyped DEF CommitAdd, TypeOK
<1>10. CASE ApplySeason(t)
  BY <1>10, <1>a DEF ApplySeason, TypeOK, At, Goto, Labels, database
<1>11. CASE Create(t)
  <2>1. nextId' \in Nat /\ target' \in [Requests -> Nat]
    BY <1>11 DEF Create, TypeOK
  <2>2. CASE games[Game(t)] = NoGame
    <3>1. pc' \in [Requests -> Labels] /\ tx' = [tx EXCEPT ![t] = "open"] /\ UNCHANGED status
      BY <1>11, <2>2 DEF Create, Goto, Labels, TypeOK
    <3>2. QED
      BY <1>11, <2>1, <2>2, <3>1, LockTyped DEF Create, TypeOK, database
  <2>3. CASE games[Game(t)] # NoGame
    BY <1>11, <2>1, <2>3, AnswerTyped DEF Create, Rollback, TypeOK, database
  <2>4. QED
    BY <2>2, <2>3
<1>12. CASE CheckUser(t)
  <2>1. pc' \in [Requests -> Labels]
    <3>1. pc' = pc \/ \E label \in {"store", "commitNew", "addUser"} : Goto(t, label)
      BY <1>12 DEF CheckUser
    <3>2. QED
      BY <3>1 DEF Goto, Labels, TypeOK
  <2>2. idx' \in [Requests -> Nat]
    BY <1>12 DEF CheckUser, TypeOK
  <2>3. QED
    BY <1>12, <2>1, <2>2 DEF CheckUser, TypeOK, database
<1>13. CASE AddUser(t)
  <2>1. CASE NextName(t) \notin users
    <3>1. tx[t] = "open"
      BY <1>13, <1>b DEF AddUser, At, Lockless
    <3>2. pc' \in [Requests -> Labels]
      BY <1>13, <2>1 DEF AddUser, Goto, Labels, TypeOK
    <3>3. QED
      BY <1>13, <2>1, <3>1, <3>2, LockTyped DEF AddUser, TypeOK, database
  <2>2. CASE ~(NextName(t) \notin users)
    BY <1>13, <2>2, AnswerTyped DEF AddUser, Rollback, TypeOK, database
  <2>3. QED
    BY <2>1, <2>2
<1>14. CASE CommitNew(t)
  <2>1. pc[t] = "commitNew" /\ [id |-> target[t], uploads |-> 1] \in GameRow
    BY <1>14 DEF CommitNew, At, TypeOK, GameRow
  <2>2. files' \subseteq [game: Nat, uploader: Users] /\ analyses' \subseteq Nat
    <3>1. NewFile(t) \in [game: Nat, uploader: Users]
      BY <1>a, <2>1
    <3>2. QueuedIds(t) \subseteq Nat
      BY DEF QueuedIds, TypeOK
    <3>3. files' = files \cup {NewFile(t)} /\ analyses' = analyses \cup QueuedIds(t)
      BY <1>14 DEF CommitNew
    <3>4. files \subseteq [game: Nat, uploader: Users] /\ analyses \subseteq Nat
      BY DEF TypeOK
    <3>5. QED
      BY <3>1, <3>2, <3>3, <3>4
  <2>3. games' \in [Games -> GameRow \cup {NoGame}] /\ users' \subseteq Users
    BY <1>14, <2>1 DEF CommitNew, TypeOK
  <2>4. "reread" \in Labels
    BY DEF Labels
  <2>5. QED
    BY <1>14, <2>2, <2>3, <2>4, LeaveTyped DEF CommitNew, TypeOK
<1>15. CASE Reread(t)
  BY <1>15, <1>a DEF Reread, TypeOK, At, Goto, Labels, database
<1>16. CASE Find(t)
  <2>1. CASE games[Game(t)] # NoGame
    BY <1>16, <1>a, <1>b, <2>1 DEF Find, TypeOK, At, Goto, Labels, database, GameRow, Lockless
  <2>2. CASE games[Game(t)] = NoGame
    BY <1>16, <2>2, AnswerTyped DEF Find, TypeOK, database
  <2>3. QED
    BY <2>1, <2>2
<1>17. CASE DeleteFiles(t)
  <2>1. tx[t] = "open" /\ pc' \in [Requests -> Labels]
    BY <1>17, <1>b DEF DeleteFiles, At, Goto, Labels, Lockless, TypeOK
  <2>2. QED
    BY <1>17, <2>1, LockTyped DEF DeleteFiles, TypeOK, database
<1>18. CASE DeleteAnalysis(t)
  <2>1. tx[t] = "open" /\ pc' \in [Requests -> Labels]
    BY <1>18, <1>b DEF DeleteAnalysis, At, Goto, Labels, Lockless, TypeOK
  <2>2. QED
    BY <1>18, <2>1, LockTyped DEF DeleteAnalysis, TypeOK, database
<1>19. CASE DeleteRow(t)
  <2>1. CASE Present(target[t]) /\ ~Referenced(t)
    <3>1. tx[t] = "open"
      BY <1>19, <1>b DEF DeleteRow, At, Lockless
    <3>2. pc' \in [Requests -> Labels]
      BY <1>19, <2>1 DEF DeleteRow, Goto, Labels, TypeOK
    <3>3. QED
      BY <1>19, <2>1, <3>1, <3>2, LockTyped DEF DeleteRow, TypeOK, database
  <2>2. CASE ~(Present(target[t]) /\ ~Referenced(t))
    BY <1>19, <2>2, AnswerTyped DEF DeleteRow, Rollback, TypeOK, database
  <2>3. QED
    BY <2>1, <2>2
<1>20. CASE CommitDelete(t)
  <2>1. files' \subseteq files /\ analyses' \subseteq analyses
    BY <1>20 DEF CommitDelete
  <2>2. games' \in [Games -> GameRow \cup {NoGame}]
    BY <1>20 DEF CommitDelete, TypeOK
  <2>3. Answer(t, 200, "none") /\ UNCHANGED <<users, nextId, req, target, idx, faults>>
    BY <1>20 DEF CommitDelete
  <2>4. files' \subseteq [game: Nat, uploader: Users] /\ analyses' \subseteq Nat
    BY <2>1 DEF TypeOK
  <2>5. QED
    BY <2>2, <2>3, <2>4, AnswerTyped DEF TypeOK
<1>21. QED
  BY <1>1, <1>2, <1>3, <1>4, <1>5, <1>6, <1>7, <1>8, <1>9, <1>10, <1>11, <1>12, <1>13, <1>14, <1>15, <1>16, <1>17, <1>18, <1>19, <1>20 DEF Statement

LEMMA StepTyped ==
  ASSUME TypeOK, \A t \in Requests : RequestInv(t), Next
  PROVE  TypeOK'
<1>1. ASSUME NEW t \in Requests, NEW input \in Inputs, Receive(t, input) PROVE TypeOK'
  BY <1>1 DEF Receive, TypeOK, Goto, Labels, database
<1>2. ASSUME NEW t \in Requests, Statement(t) PROVE TypeOK'
  BY <1>2, StatementTyped
<1>3. ASSUME NEW t \in Requests, StoreFails(t) PROVE TypeOK'
  <2>1. tx[t] = "open"
    BY <1>3, RequestTx DEF StoreFails, At, Lockless
  <2>2. faults' \in 0..MaxFaults
    BY <1>3, IngestAssumption DEF StoreFails, TypeOK
  <2>3. QED
    BY <1>3, <2>1, <2>2, AnswerTyped DEF StoreFails, TypeOK, database
<1>4. ASSUME NEW t \in Requests, BreakDeadlock(t) PROVE TypeOK'
  <2>1. PICK s \in {"aborted", "none"} : Answer(t, 500, s)
    BY <1>4 DEF BreakDeadlock
  <2>2. /\ pc' \in [Requests -> Labels]
        /\ tx' \in [Requests -> {"none", "open", "aborted"}]
        /\ DOMAIN locks' = Requests
        /\ \A r \in Requests : tx'[r] # "open" => locks'[r] = {}
        /\ status' \in [Requests -> {0, 200, 201, 400, 404, 500}]
    BY <2>1, AnswerTyped
  <2>3. UNCHANGED <<database, nextId, req, target, idx, faults>>
    BY <1>4 DEF BreakDeadlock
  <2>4. QED
    BY <2>2, <2>3 DEF TypeOK, database
<1>5. CASE ServerStops
  BY <1>5, IngestAssumption DEF ServerStops, TypeOK, Labels, database
<1>6. QED
  BY <1>1, <1>2, <1>3, <1>4, <1>5 DEF Next

(***************************************************************************)
(* Locks.                                                                  *)
(***************************************************************************)

\* What a step may do to the locks.
LockChange ==
  \/ locks' = locks
  \/ \E t \in Requests : ~Waiting(t) /\ Lock(t)
  \/ \E t \in Requests : locks' = [locks EXCEPT ![t] = {}]
  \/ locks' = [t \in Requests |-> {}]

LEMMA AnswerLocks ==
  ASSUME NEW t \in Requests, NEW code, NEW s, Answer(t, code, s)
  PROVE  LockChange
BY DEF Answer, Leave, LockChange

LEMMA StepLocks ==
  ASSUME Next
  PROVE  LockChange
<1>1. ASSUME NEW t \in Requests, NEW input \in Inputs, Receive(t, input) PROVE LockChange
  BY <1>1 DEF Receive, LockChange
<1>2. ASSUME NEW t \in Requests, StoreFails(t) \/ BreakDeadlock(t) PROVE LockChange
  BY <1>2, AnswerLocks DEF StoreFails, BreakDeadlock
<1>3. CASE ServerStops
  BY <1>3 DEF ServerStops, LockChange
<1>4. ASSUME NEW t \in Requests, Statement(t) PROVE LockChange
  <2>1. CASE FindUploader(t) \/ Store(t) \/ ApplySeason(t) \/ CheckUser(t) \/ Reread(t)
    BY <2>1 DEF FindUploader, Store, ApplySeason, CheckUser, Reread, LockChange
  <2>2. CASE AddUploader(t) \/ Lookup(t) \/ Find(t)
    BY <2>2, AnswerLocks DEF AddUploader, Lookup, Find, LockChange
  <2>3. CASE BeginAdd(t) \/ CommitAdd(t) \/ CommitNew(t)
    BY <2>3 DEF BeginAdd, CommitAdd, CommitNew, Leave, LockChange
  <2>4. CASE AddFile(t) \/ Create(t) \/ AddUser(t) \/ DeleteRow(t)
    BY <2>4, AnswerLocks DEF AddFile, Create, AddUser, DeleteRow, Rollback, At, LockChange
  <2>5. CASE Enqueue(t) \/ Count(t) \/ DeleteFiles(t) \/ DeleteAnalysis(t)
    BY <2>5 DEF Enqueue, Count, DeleteFiles, DeleteAnalysis, At, LockChange
  <2>6. CASE CommitDelete(t)
    BY <2>6, AnswerLocks DEF CommitDelete
  <2>7. QED
    BY <1>4, <2>1, <2>2, <2>3, <2>4, <2>5, <2>6 DEF Statement
<1>5. QED
  BY <1>1, <1>2, <1>3, <1>4 DEF Next

\* A lock is granted only when no other request holds a conflicting one.
LEMMA StepExclusive ==
  ASSUME TypeOK, LocksExclusive, Next
  PROVE  LocksExclusive'
<1> SUFFICES ASSUME NEW t \in Requests, NEW r \in Requests, t # r,
                    NEW a \in locks'[t], NEW b \in locks'[r]
             PROVE  ~Conflict(a, b)
  BY DEF LocksExclusive
<1>1. DOMAIN locks = Requests
  BY DEF TypeOK
<1>2. CASE locks' = locks
  BY <1>2 DEF LocksExclusive
<1>3. ASSUME NEW q \in Requests, ~Waiting(q), Lock(q) PROVE ~Conflict(a, b)
  <2>1. \A p \in Requests \ {q} : \A c \in Wanted(q), d \in locks[p] : ~Conflict(c, d)
    BY <1>3 DEF Waiting, Blockers
  <2>2. locks'[q] = locks[q] \cup Wanted(q) /\ \A p \in Requests \ {q} : locks'[p] = locks[p]
    BY <1>1, <1>3 DEF Lock
  <2>3. CASE a \in locks[t] /\ b \in locks[r]
    BY <2>3 DEF LocksExclusive
  <2>4. CASE a \in Wanted(q) /\ q = t
    BY <2>1, <2>2, <2>4
  <2>5. CASE b \in Wanted(q) /\ q = r
    BY <2>1, <2>2, <2>5, ConflictSymmetric
  <2>6. QED
    BY <2>2, <2>3, <2>4, <2>5
<1>4. ASSUME NEW q \in Requests, locks' = [locks EXCEPT ![q] = {}] PROVE ~Conflict(a, b)
  BY <1>1, <1>4 DEF LocksExclusive
<1>5. CASE locks' = [q \in Requests |-> {}]
  BY <1>5
<1>6. QED
  BY <1>2, <1>3, <1>4, <1>5, StepLocks DEF LockChange

(***************************************************************************)
(* What a step leaves alone.                                               *)
(***************************************************************************)

\* Everything a request owns is as before.
Untouched(r) ==
  /\ pc'[r] = pc[r] /\ req'[r] = req[r] /\ target'[r] = target[r] /\ idx'[r] = idx[r]
  /\ tx'[r] = tx[r] /\ locks'[r] = locks[r] /\ status'[r] = status[r]

Step(t) == Statement(t) \/ StoreFails(t) \/ BreakDeadlock(t) \/ \E input \in Inputs : Receive(t, input)

\* A statement changes the request that executes it and no other.
LEMMA OthersUntouched ==
  ASSUME TypeOK, NEW t \in Requests, Step(t), NEW r \in Requests \ {t}
  PROVE  Untouched(r)
<1> USE DEF TypeOK, Untouched, Goto
<1>1. ASSUME NEW input \in Inputs, Receive(t, input) PROVE Untouched(r)
  BY <1>1 DEF Receive, database
<1>2. CASE StoreFails(t) \/ BreakDeadlock(t)
  BY <1>2 DEF StoreFails, BreakDeadlock, Answer, Leave, database
<1>3. CASE Statement(t)
  <2>1. CASE FindUploader(t) \/ Store(t) \/ ApplySeason(t) \/ CheckUser(t) \/ Reread(t)
    BY <2>1 DEF FindUploader, Store, ApplySeason, CheckUser, Reread, database
  <2>2. CASE AddUploader(t) \/ Lookup(t) \/ Find(t)
    BY <2>2 DEF AddUploader, Lookup, Find, Answer, Leave, database
  <2>3. CASE BeginAdd(t) \/ CommitAdd(t) \/ CommitNew(t)
    BY <2>3 DEF BeginAdd, CommitAdd, CommitNew, Leave, database
  <2>4. CASE AddFile(t) \/ Create(t) \/ AddUser(t) \/ DeleteRow(t)
    BY <2>4 DEF AddFile, Create, AddUser, DeleteRow, Rollback, Answer, Leave, Lock, database
  <2>5. CASE Enqueue(t) \/ Count(t) \/ DeleteFiles(t) \/ DeleteAnalysis(t)
    BY <2>5 DEF Enqueue, Count, DeleteFiles, DeleteAnalysis, Lock, database
  <2>6. CASE CommitDelete(t)
    BY <2>6 DEF CommitDelete, Answer, Leave
  <2>7. QED
    BY <1>3, <2>1, <2>2, <2>3, <2>4, <2>5, <2>6 DEF Statement
<1>4. QED
  BY <1>1, <1>2, <1>3 DEF Step

\* The phases of an untouched request are as before.
LEMMA UntouchedPhases ==
  ASSUME NEW r \in Requests, Untouched(r)
  PROVE  /\ Game(r)' = Game(r) /\ Uploader(r)' = Uploader(r) /\ NewFile(r)' = NewFile(r)
         /\ Adding(r)' = Adding(r) /\ Creating(r)' = Creating(r) /\ New(r)' = New(r)
BY DEF Untouched, Game, Uploader, NewFile, Adding, Creating, New

\* Recorded games, files and analysis rows are as before, users may be new.
Quiet == UNCHANGED <<games, files, analyses>> /\ users \subseteq users'

LEMMA QuietFrame ==
  ASSUME NEW r \in Requests, RequestInv(r), Untouched(r), Quiet
  PROVE  RequestInv(r)'
<1> USE UntouchedPhases DEF RequestInv, Quiet, Untouched
<1>1. LocksInTx(r)' /\ IdleBlank(r)'
  BY DEF LocksInTx, IdleBlank
<1>2. AdderProtected(r)'
  BY DEF AdderProtected, Recorded, AlreadyUploaded
<1>3. CreatorProtected(r)'
  BY DEF CreatorProtected
<1>4. DeleterProtected(r)'
  BY DEF DeleterProtected, Recorded, Referenced, FilesOf
<1>5. CommittedRecorded(r)'
  BY DEF CommittedRecorded, Present
<1>6. NamesKnown(r)'
  BY DEF NamesKnown, Visible
<1>7. QED
  BY <1>1, <1>2, <1>3, <1>4, <1>5, <1>6

\* Two requests never hold the same key, nor the row lock that excludes another's.
LEMMA Exclusion ==
  ASSUME LocksExclusive, NEW t \in Requests, NEW r \in Requests, t # r
  PROVE  /\ \A g : GameKey(g) \in locks[t] => GameKey(g) \notin locks[r]
         /\ \A i, u : FileKey(i, u) \in locks[t] => FileKey(i, u) \notin locks[r]
         /\ \A i : AnalysisKey(i) \in locks[t] => AnalysisKey(i) \notin locks[r]
         /\ \A i : RowLock(i, "delete") \in locks[t] =>
              RowLock(i, "share") \notin locks[r] /\ RowLock(i, "delete") \notin locks[r]
<1>1. \A a \in locks[t], b \in locks[r] : ~Conflict(a, b) /\ ~Conflict(b, a)
  BY ConflictSymmetric DEF LocksExclusive
<1>2. QED
  BY <1>1, KeysConflict

\* The commit of a contribution, seen by another request.
LEMMA AddFrame ==
  ASSUME TypeOK, LocksExclusive, NEW t \in Requests, NEW r \in Requests \ {t},
         RequestInv(t), RequestInv(r), Untouched(r), CommitAdd(t)
  PROVE  RequestInv(r)'
<1> USE UntouchedPhases DEF Untouched
<1>1. /\ FileKey(target[t], Uploader(t)) \in locks[t]
      /\ RowLock(target[t], "share") \in locks[t]
      /\ games[Game(t)] # NoGame
      /\ Game(t) \in Games
  BY RequestTyped DEF CommitAdd, At, RequestInv, AdderProtected, Adding, Recorded
<1>2. /\ files' = files \cup {NewFile(t)} /\ UNCHANGED users
      /\ analyses' = analyses \cup QueuedIds(t)
  BY DEF CommitAdd
<1>3. \A g \in Games : /\ (games[g] # NoGame)' = (games[g] # NoGame)
                       /\ games[g] # NoGame => games'[g].id = games[g].id
  <2>1. games[Game(t)] \in GameRow
    BY <1>1 DEF TypeOK
  <2>2. games' = [games EXCEPT ![Game(t)] = [games[Game(t)] EXCEPT !.uploads = games[Game(t)].uploads + 1]]
    BY DEF CommitAdd, Counted
  <2>3. [games[Game(t)] EXCEPT !.uploads = games[Game(t)].uploads + 1] \in GameRow
    BY <2>1 DEF GameRow
  <2>4. [games[Game(t)] EXCEPT !.uploads = games[Game(t)].uploads + 1].id = games[Game(t)].id
    BY <2>1 DEF GameRow
  <2>5. games'[Game(t)] \in GameRow /\ games'[Game(t)].id = games[Game(t)].id
    BY <1>1, <2>2, <2>3, <2>4 DEF TypeOK
  <2>6. \A g \in Games \ {Game(t)} : games'[g] = games[g]
    BY <1>1, <2>2 DEF TypeOK
  <2>7. NoGame \notin GameRow
    BY IngestAssumption
  <2>8. QED
    BY <1>1, <2>5, <2>6, <2>7
<1>4. /\ FileKey(target[t], Uploader(t)) \notin locks[r]
      /\ RowLock(target[t], "delete") \notin locks[r]
      /\ \A id \in QueuedIds(t) : id = target[t] /\ AnalysisKey(id) \notin locks[r]
  BY <1>1, Exclusion DEF QueuedIds
<1>5. LocksInTx(r)' /\ IdleBlank(r)'
  BY DEF RequestInv, LocksInTx, IdleBlank
<1>6. pc[r] # "idle" => Game(r) \in Games
  BY RequestTyped
<1>7. AdderProtected(r)'
  BY <1>2, <1>3, <1>4, <1>6 DEF RequestInv, AdderProtected, Recorded, AlreadyUploaded, NewFile, Adding
<1>8. CreatorProtected(r)'
  BY <1>3, <1>6 DEF RequestInv, CreatorProtected, Creating
<1>9. DeleterProtected(r)'
  <2> SUFFICES ASSUME pc[r] = "commitDelete" PROVE ~Referenced(r)' /\ Recorded(r)'
    BY DEF RequestInv, DeleterProtected
  <2>1. RowLock(target[r], "delete") \in locks[r] /\ Recorded(r) /\ ~Referenced(r)
    BY DEF RequestInv, DeleterProtected
  <2>2. target[r] # target[t]
    BY <1>4, <2>1
  <2>3. Recorded(r)'
    BY <1>3, <1>6, <2>1 DEF Recorded
  <2>4. \A f \in files' : f.game = target[r] => f \in files
    BY <1>2, <2>2 DEF NewFile
  <2>5. target[r] \in analyses' => target[r] \in analyses
    BY <1>2, <1>4, <2>2
  <2>6. QED
    BY <2>1, <2>3, <2>4, <2>5 DEF Referenced, FilesOf
<1>10. CommittedRecorded(r)'
  BY <1>2, <1>3 DEF RequestInv, CommittedRecorded, Present
<1>11. NamesKnown(r)'
  BY <1>2 DEF RequestInv, NamesKnown, Visible
<1>12. QED
  BY <1>5, <1>7, <1>8, <1>9, <1>10, <1>11 DEF RequestInv

\* The commit of a new game, seen by another request.
LEMMA NewFrame ==
  ASSUME TypeOK, LocksExclusive, IdsFresh, NEW t \in Requests, NEW r \in Requests \ {t},
         RequestInv(t), RequestInv(r), Untouched(r), CommitNew(t)
  PROVE  RequestInv(r)'
<1> USE UntouchedPhases DEF Untouched
<1>1. Creating(t) /\ Game(t) \in Games
  BY RequestTyped DEF CommitNew, At, Creating
<1>2. /\ GameKey(Game(t)) \notin locks[r] /\ games[Game(t)] = NoGame
      /\ ~Present(target[t]) /\ target[r] # target[t]
  BY <1>1, Exclusion DEF RequestInv, CreatorProtected, IdsFresh
<1>3. /\ files' = files \cup {NewFile(t)} /\ users \subseteq users'
      /\ analyses' \subseteq analyses \cup {target[t]}
  BY DEF CommitNew, QueuedIds
<1>4. /\ games'[Game(t)].id = target[t]
      /\ \A g \in Games \ {Game(t)} : games'[g] = games[g]
  BY <1>1 DEF CommitNew, TypeOK
<1>5. LocksInTx(r)' /\ IdleBlank(r)'
  BY DEF RequestInv, LocksInTx, IdleBlank
<1>6. pc[r] # "idle" => Game(r) \in Games
  BY RequestTyped
<1>7. AdderProtected(r)'
  BY <1>2, <1>3, <1>4, <1>6 DEF RequestInv, AdderProtected, Recorded, AlreadyUploaded, NewFile, Adding
<1>8. CreatorProtected(r)'
  BY <1>2, <1>4, <1>6 DEF RequestInv, CreatorProtected, Creating
<1>9. DeleterProtected(r)'
  <2> SUFFICES ASSUME pc[r] = "commitDelete" PROVE ~Referenced(r)' /\ Recorded(r)'
    BY DEF RequestInv, DeleterProtected
  <2>1. Recorded(r) /\ ~Referenced(r)
    BY DEF RequestInv, DeleterProtected
  <2>2. Recorded(r)'
    BY <1>2, <1>4, <1>6, <2>1 DEF Recorded
  <2>3. \A f \in files' : f.game = target[r] => f \in files
    BY <1>2, <1>3 DEF NewFile
  <2>4. target[r] \in analyses' => target[r] \in analyses
    BY <1>2, <1>3
  <2>5. QED
    BY <2>1, <2>2, <2>3, <2>4 DEF Referenced, FilesOf
<1>10. CommittedRecorded(r)'
  BY <1>2, <1>3, <1>4 DEF RequestInv, CommittedRecorded, Present
<1>11. NamesKnown(r)'
  BY <1>3 DEF RequestInv, NamesKnown, Visible
<1>12. QED
  BY <1>5, <1>7, <1>8, <1>9, <1>10, <1>11 DEF RequestInv

\* The commit of a deletion, seen by another request.
LEMMA DeleteFrame ==
  ASSUME TypeOK, LocksExclusive, IdsFresh, NEW t \in Requests, NEW r \in Requests \ {t},
         RequestInv(t), RequestInv(r), Untouched(r), CommitDelete(t)
  PROVE  RequestInv(r)'
<1> USE UntouchedPhases DEF Untouched
<1>1. pc[t] = "commitDelete" /\ Game(t) \in Games
  BY RequestTyped DEF CommitDelete, At
<1>2. /\ RowLock(target[t], "share") \notin locks[r] /\ RowLock(target[t], "delete") \notin locks[r]
      /\ Recorded(t)
      /\ \A f \in files : FileKey(f.game, f.uploader) \in locks[t] => f.game = target[t]
  BY <1>1, Exclusion, KeyParts DEF RequestInv, DeleterProtected
<1>3. /\ files' = {f \in files : FileKey(f.game, f.uploader) \notin locks[t]}
      /\ analyses' \subseteq analyses /\ UNCHANGED users
  BY DEF CommitDelete
<1>4. /\ games'[Game(t)] = NoGame
      /\ \A g \in Games \ {Game(t)} : games'[g] = games[g]
  BY <1>1 DEF CommitDelete, TypeOK
<1>5. LocksInTx(r)' /\ IdleBlank(r)'
  BY DEF RequestInv, LocksInTx, IdleBlank
<1>6. pc[r] # "idle" => Game(r) \in Games
  BY RequestTyped
<1>7. Game(r) = Game(t) => ~Adding(r) /\ pc[r] # "commitDelete"
  BY <1>2 DEF RequestInv, AdderProtected, DeleterProtected, Recorded
<1>8. AdderProtected(r)'
  BY <1>3, <1>4, <1>6, <1>7 DEF RequestInv, AdderProtected, Recorded, AlreadyUploaded, Adding
<1>9. CreatorProtected(r)'
  BY <1>4, <1>6 DEF RequestInv, CreatorProtected, Creating
<1>10. DeleterProtected(r)'
  <2> SUFFICES ASSUME pc[r] = "commitDelete" PROVE ~Referenced(r)' /\ Recorded(r)'
    BY DEF RequestInv, DeleterProtected
  <2>1. Recorded(r) /\ ~Referenced(r)
    BY DEF RequestInv, DeleterProtected
  <2>2. QED
    BY <1>3, <1>4, <1>6, <1>7, <2>1 DEF Recorded, Referenced, FilesOf
<1>11. CommittedRecorded(r)'
  <2> SUFFICES ASSUME pc[r] \in {"season", "reread"}, Present(target[r])'
               PROVE  NewFile(r) \in files'
    BY DEF CommittedRecorded
  <2>1. PICK g \in Games \ {Game(t)} : games[g] # NoGame /\ games[g].id = target[r]
    BY <1>4 DEF Present
  <2>2. target[r] # target[t]
    BY <1>1, <1>2, <2>1 DEF IdsFresh, Recorded
  <2>3. NewFile(r) \in files
    BY <2>1 DEF RequestInv, CommittedRecorded, Present
  <2>4. QED
    BY <1>2, <1>3, <2>2, <2>3 DEF NewFile
<1>12. NamesKnown(r)'
  BY <1>3 DEF RequestInv, NamesKnown, Visible
<1>13. QED
  BY <1>5, <1>8, <1>9, <1>10, <1>11, <1>12 DEF RequestInv

(***************************************************************************)
(* What a step does for the request that executes it.                      *)
(***************************************************************************)

LEMMA WantedAt ==
  ASSUME NEW t \in Requests
  PROVE  /\ pc[t] = "addFile" =>
              Wanted(t) = {FileKey(target[t], Uploader(t)), RowLock(target[t], "share")}
         /\ pc[t] = "enqueue" => Wanted(t) = {AnalysisKey(target[t])}
         /\ pc[t] = "create" => Wanted(t) = {GameKey(Game(t))}
         /\ pc[t] = "addUser" => Wanted(t) = {UserKey(NextName(t))}
         /\ pc[t] = "deleteFiles" =>
              Wanted(t) = {FileKey(f.game, f.uploader) : f \in FilesOf(target[t])}
         /\ pc[t] = "deleteAnalysis" =>
              Wanted(t) = {AnalysisKey(id) : id \in analyses \cap {target[t]}}
         /\ pc[t] = "deleteGame" => Wanted(t) = {RowLock(target[t], "delete")}
BY DEF Wanted

\* An answered request has no obligations left.
LEMMA DoneKept ==
  ASSUME NEW t \in Requests, pc'[t] = "done", req'[t] \in Inputs
  PROVE  RequestInv(t)'
BY DEF RequestInv, LocksInTx, IdleBlank, AdderProtected, CreatorProtected, DeleterProtected,
       CommittedRecorded, NamesKnown, Adding, Creating, Lockless

LEMMA AnsweredKept ==
  ASSUME TypeOK, NEW t \in Requests, RequestInv(t), pc[t] # "idle", UNCHANGED req,
         NEW code, NEW s, Answer(t, code, s)
  PROVE  RequestInv(t)'
<1>1. pc'[t] = "done" /\ req'[t] \in Inputs
  BY RequestTyped DEF Answer, Leave, Goto, TypeOK
<1>2. QED
  BY <1>1, DoneKept

\* Between the phases that a clause of the invariant is about, little is asked.
LEMMA PlainKept ==
  ASSUME NEW t \in Requests, req'[t] \in Inputs, locks'[t] = {},
         pc'[t] \in {"uploader", "addUploader", "lookup", "begin", "find"},
         pc'[t] \in {"lookup", "begin"} => Uploader(t)' \in users',
         pc'[t] \in {"uploader", "addUploader", "lookup"} => idx'[t] = 1
  PROVE  RequestInv(t)'
BY DEF RequestInv, LocksInTx, IdleBlank, AdderProtected, CreatorProtected, DeleterProtected,
       CommittedRecorded, NamesKnown, Adding, Creating, Lockless

\* Receiving, naming the uploader, looking the recording up.
LEMMA StartKept ==
  ASSUME TypeOK, NEW t \in Requests, RequestInv(t),
         \/ \E input \in Inputs : Receive(t, input)
         \/ FindUploader(t) \/ AddUploader(t) \/ Lookup(t)
  PROVE  RequestInv(t)'
<1> USE DEF TypeOK, Goto, At
<1>1. ASSUME NEW input \in Inputs, Receive(t, input) PROVE RequestInv(t)'
  <2>1. locks[t] = {} /\ idx[t] = 1
    BY <1>1 DEF Receive, RequestInv, LocksInTx, NamesKnown, Lockless
  <2>2. QED
    BY <1>1, <2>1, PlainKept DEF Receive
<1>2. CASE FindUploader(t)
  <2>1. req[t] \in Inputs /\ locks[t] = {} /\ idx[t] = 1
    BY <1>2 DEF FindUploader, RequestInv, LocksInTx, IdleBlank, NamesKnown, Lockless
  <2>2. pc'[t] = (IF Uploader(t) \in users THEN "lookup" ELSE "addUploader")
    BY <1>2 DEF FindUploader
  <2>3. UNCHANGED <<users, req, idx, locks>>
    BY <1>2 DEF FindUploader, database
  <2>4. QED
    BY <2>1, <2>2, <2>3, PlainKept DEF Uploader
<1>3. CASE AddUploader(t)
  <2>1. req[t] \in Inputs /\ locks[t] = {} /\ idx[t] = 1 /\ pc[t] # "idle"
    BY <1>3 DEF AddUploader, RequestInv, LocksInTx, IdleBlank, NamesKnown, Lockless
  <2>2. CASE Uploader(t) \notin users
    <3>1. pc'[t] = "lookup" /\ Uploader(t) \in users' /\ UNCHANGED <<req, idx, locks>>
      BY <1>3, <2>2 DEF AddUploader
    <3>2. QED
      BY <2>1, <3>1, PlainKept DEF Uploader
  <2>3. CASE Uploader(t) \in users
    BY <1>3, <2>1, <2>3, AnsweredKept DEF AddUploader
  <2>4. QED
    BY <2>2, <2>3
<1>4. CASE Lookup(t)
  <2>1. /\ req[t] \in Inputs /\ locks[t] = {} /\ idx[t] = 1 /\ pc[t] # "idle"
        /\ Uploader(t) \in users
    BY <1>4 DEF Lookup, RequestInv, LocksInTx, IdleBlank, NamesKnown, Lockless
  <2>2. UNCHANGED <<users, req, idx>>
    BY <1>4 DEF Lookup, database
  <2>3. CASE games[Game(t)] # NoGame
    <3>1. pc'[t] = "begin" /\ UNCHANGED locks
      BY <1>4, <2>3 DEF Lookup
    <3>2. QED
      BY <2>1, <2>2, <3>1, PlainKept DEF Uploader
  <2>4. CASE games[Game(t)] = NoGame /\ Rejects(t)
    <3>1. Answer(t, 400, "none")
      BY <1>4, <2>4 DEF Lookup
    <3>2. QED
      BY <2>1, <2>2, <3>1, AnsweredKept
  <2>5. CASE games[Game(t)] = NoGame /\ ~Rejects(t)
    <3>1. pc'[t] = "create" /\ UNCHANGED locks
      BY <1>4, <2>5 DEF Lookup
    <3>2. IsPlayer(Uploader(t), Game(t))
      BY <2>1, <2>5, IngestAssumption DEF Rejects, Uploader, Game
    <3>3. QED
      BY <2>1, <2>2, <3>1, <3>2
         DEF RequestInv, LocksInTx, IdleBlank, AdderProtected, CreatorProtected, DeleterProtected,
             CommittedRecorded, NamesKnown, Adding, Creating, Lockless, Uploader, Game, IsPlayer
  <2>6. QED
    BY <2>3, <2>4, <2>5
<1>5. QED
  BY <1>1, <1>2, <1>3, <1>4

\* What each phase asks for.
LEMMA AddingKept ==
  ASSUME NEW t \in Requests, req'[t] \in Inputs, tx'[t] = "open", Adding(t)',
         FileKey(target'[t], Uploader(t)') \in locks'[t], RowLock(target'[t], "share") \in locks'[t],
         Recorded(t)', ~AlreadyUploaded(t)', Uploader(t)' \in users'
  PROVE  RequestInv(t)'
BY DEF RequestInv, LocksInTx, IdleBlank, AdderProtected, CreatorProtected, DeleterProtected,
       CommittedRecorded, NamesKnown, Adding, Creating, Lockless

LEMMA CreatingKept ==
  ASSUME NEW t \in Requests, req'[t] \in Inputs, tx'[t] = "open", Creating(t)',
         GameKey(Game(t)') \in locks'[t], games'[Game(t)'] = NoGame,
         IsPlayer(Uploader(t)', Game(t)'), Uploader(t)' \in users',
         \A i \in DOMAIN Players[Game(t)'] : i < idx'[t] => Visible(t, Players[Game(t)][i])',
         pc'[t] \in {"store", "enqueue", "commitNew"} => idx'[t] > Len(Players[Game(t)'])
  PROVE  RequestInv(t)'
BY DEF RequestInv, LocksInTx, IdleBlank, AdderProtected, CreatorProtected, DeleterProtected,
       CommittedRecorded, NamesKnown, Adding, Creating, Lockless

LEMMA CommittedKept ==
  ASSUME NEW t \in Requests, req'[t] \in Inputs, pc'[t] \in {"season", "reread"}, locks'[t] = {},
         NewFile(t)' \in files'
  PROVE  RequestInv(t)'
BY DEF RequestInv, LocksInTx, IdleBlank, AdderProtected, CreatorProtected, DeleterProtected,
       CommittedRecorded, NamesKnown, Adding, Creating, Lockless

LEMMA DeletingKept ==
  ASSUME NEW t \in Requests, req'[t] \in Inputs, tx'[t] = "open",
         pc'[t] \in {"deleteFiles", "deleteAnalysis", "deleteGame", "commitDelete"},
         pc'[t] = "deleteFiles" => locks'[t] = {},
         DeleterProtected(t)'
  PROVE  RequestInv(t)'
BY DEF RequestInv, LocksInTx, IdleBlank, AdderProtected, CreatorProtected, DeleterProtected,
       CommittedRecorded, NamesKnown, Adding, Creating, Lockless

\* Present ids belong to the game the request was made for.
LEMMA PresentRecorded ==
  ASSUME TypeOK, IdsFresh, NEW t \in Requests, Present(target[t])
  PROVE  Recorded(t)
BY DEF IdsFresh, Present, Recorded

\* addReplayFileToGame and what follows its commit.
LEMMA AddKept ==
  ASSUME TypeOK, IdsFresh, NEW t \in Requests, RequestInv(t),
         \/ BeginAdd(t) \/ AddFile(t) \/ Count(t) \/ CommitAdd(t) \/ ApplySeason(t)
         \/ (Store(t) \/ Enqueue(t)) /\ ~New(t)
  PROVE  RequestInv(t)'
<1> USE DEF TypeOK, Goto, At, database
<1>a. DOMAIN locks = Requests /\ req[t] \in Inputs
  BY DEF RequestInv, IdleBlank, BeginAdd, AddFile, Count, CommitAdd, ApplySeason, Store, Enqueue
<1>1. CASE BeginAdd(t)
  <2>1. locks[t] = {} /\ Uploader(t) \in users
    BY <1>1 DEF BeginAdd, RequestInv, LocksInTx, NamesKnown, Lockless
  <2>2. UNCHANGED <<req, target, files, users, locks>> /\ tx'[t] = "open"
    BY <1>1 DEF BeginAdd, Leave
  <2>3. CASE AlreadyUploaded(t)
    <3>1. pc'[t] = "season"
      BY <1>1, <2>3 DEF BeginAdd, Leave
    <3>2. NewFile(t)' \in files'
      BY <2>2, <2>3 DEF AlreadyUploaded, NewFile, Uploader
    <3>3. QED
      BY <1>a, <2>1, <2>2, <3>1, <3>2, CommittedKept
  <2>4. CASE ~AlreadyUploaded(t)
    <3>1. pc'[t] = "addFile"
      BY <1>1, <2>4 DEF BeginAdd, Leave
    <3>2. QED
      BY <1>a, <2>1, <2>2, <3>1
         DEF RequestInv, LocksInTx, IdleBlank, AdderProtected, CreatorProtected, DeleterProtected,
             CommittedRecorded, NamesKnown, Adding, Creating, Lockless, Uploader
  <2>5. QED
    BY <2>3, <2>4
<1>2. CASE AddFile(t)
  <2>1. pc[t] = "addFile" /\ locks[t] = {} /\ tx[t] = "open" /\ Uploader(t) \in users
    BY <1>2 DEF AddFile, RequestInv, LocksInTx, NamesKnown, Lockless
  <2>2. CASE Present(target[t]) /\ ~AlreadyUploaded(t)
    <3>1. locks'[t] = {FileKey(target[t], Uploader(t)), RowLock(target[t], "share")}
      BY <1>2, <1>a, <2>1, <2>2, WantedAt DEF AddFile, Lock
    <3>2. pc'[t] \in {"store", "count"} /\ UNCHANGED <<req, target, games, files, users, tx>>
      BY <1>2, <2>2 DEF AddFile
    <3>3. Adding(t)'
      BY <3>1, <3>2, KeysDiffer DEF Adding, New, Game
    <3>4. Recorded(t)' /\ ~AlreadyUploaded(t)'
      BY <2>2, <3>2, PresentRecorded DEF Recorded, AlreadyUploaded, Game, Uploader
    <3>5. QED
      BY <1>a, <2>1, <3>1, <3>2, <3>3, <3>4, AddingKept DEF Uploader
  <2>3. CASE ~(Present(target[t]) /\ ~AlreadyUploaded(t))
    BY <1>2, <2>1, <2>3, AnsweredKept DEF AddFile, Rollback
  <2>4. QED
    BY <2>2, <2>3
<1>3. CASE Count(t) \/ ((Store(t) \/ Enqueue(t)) /\ ~New(t))
  <2>1. /\ Adding(t) /\ tx[t] = "open" /\ Uploader(t) \in users
        /\ FileKey(target[t], Uploader(t)) \in locks[t]
        /\ RowLock(target[t], "share") \in locks[t]
        /\ Recorded(t) /\ ~AlreadyUploaded(t)
    BY <1>3 DEF Count, Store, Enqueue, RequestInv, LocksInTx, NamesKnown, AdderProtected, Adding, Lockless
  <2>2. UNCHANGED <<req, target, games, files, users, tx>> /\ locks[t] \subseteq locks'[t]
    BY <1>3, <1>a DEF Count, Store, Enqueue, Lock
  <2>3. Adding(t)'
    BY <1>3, <2>2 DEF Count, Store, Enqueue, Adding, New, Game
  <2>4. Recorded(t)' /\ ~AlreadyUploaded(t)'
    BY <2>1, <2>2 DEF Recorded, AlreadyUploaded, Game, Uploader
  <2>5. QED
    BY <1>a, <2>1, <2>2, <2>3, <2>4, AddingKept DEF Uploader
<1>4. CASE CommitAdd(t)
  <2>1. pc'[t] = "season" /\ locks'[t] = {} /\ NewFile(t) \in files' /\ UNCHANGED <<req, target>>
    BY <1>4, <1>a DEF CommitAdd, Leave
  <2>2. QED
    BY <1>a, <2>1, CommittedKept DEF NewFile, Uploader
<1>5. CASE ApplySeason(t)
  BY <1>5, <1>a, DoneKept DEF ApplySeason
<1>6. QED
  BY <1>1, <1>2, <1>3, <1>4, <1>5

\* createNewGame up to its answer.
LEMMA CreateKept ==
  ASSUME TypeOK, NEW t \in Requests, RequestInv(t),
         \/ Create(t) \/ CheckUser(t) \/ AddUser(t) \/ CommitNew(t) \/ Reread(t)
         \/ (Store(t) \/ Enqueue(t)) /\ New(t)
  PROVE  RequestInv(t)'
<1> USE DEF TypeOK, Goto, At, database
<1>a. DOMAIN locks = Requests /\ req[t] \in Inputs /\ pc[t] # "idle" /\ Game(t) \in Games
  BY RequestTyped DEF RequestInv, IdleBlank, Create, CheckUser, AddUser, CommitNew, Reread, Store, Enqueue
<1>b. UNCHANGED req
  BY DEF Create, CheckUser, AddUser, CommitNew, Reread, Store, Enqueue
<1>c. Players[Game(t)] \in Seq(Users)
  BY <1>a, IngestAssumption
<1>d. Creating(t) => /\ tx[t] = "open" /\ GameKey(Game(t)) \in locks[t] /\ games[Game(t)] = NoGame
                     /\ IsPlayer(Uploader(t), Game(t)) /\ Uploader(t) \in users
                     /\ \A i \in DOMAIN Players[Game(t)] : i < idx[t] => Visible(t, Players[Game(t)][i])
                     /\ pc[t] \in {"store", "enqueue", "commitNew"} => idx[t] > Len(Players[Game(t)])
  BY DEF RequestInv, LocksInTx, CreatorProtected, NamesKnown, Creating, Lockless
<1>1. CASE Create(t)
  <2>1. /\ locks[t] = {} /\ idx[t] = 1 /\ pc[t] = "create"
        /\ IsPlayer(Uploader(t), Game(t)) /\ Uploader(t) \in users
    BY <1>1 DEF Create, RequestInv, LocksInTx, CreatorProtected, NamesKnown, Lockless
  <2>2. CASE games[Game(t)] = NoGame
    <3>1. /\ pc'[t] = "checkUser" /\ tx'[t] = "open" /\ GameKey(Game(t)) \in locks'[t]
          /\ UNCHANGED <<games, users, idx>>
      BY <1>1, <1>a, <2>1, <2>2, WantedAt DEF Create, Lock
    <3>2. Creating(t)'
      BY <3>1 DEF Creating
    <3>3. \A i \in DOMAIN Players[Game(t)] : ~(i < idx'[t])
      BY <1>c, <2>1, <3>1
    <3>4. QED
      BY <1>a, <1>b, <2>1, <2>2, <3>1, <3>2, <3>3, CreatingKept DEF Game, Uploader
  <2>3. CASE games[Game(t)] # NoGame
    BY <1>1, <1>a, <1>b, <2>3, AnsweredKept DEF Create, Rollback
  <2>4. QED
    BY <2>2, <2>3
<1>2. CASE CheckUser(t)
  <2>1. Creating(t) /\ UNCHANGED <<games, users, locks, tx>>
    BY <1>2 DEF CheckUser, Creating
  <2>2. \A u : Visible(t, u)' = Visible(t, u)
    BY <2>1 DEF Visible
  <2>3. CASE idx[t] > Len(Players[Game(t)])
    <3>1. pc'[t] \in {"store", "commitNew"} /\ UNCHANGED idx
      BY <1>2, <1>c, <2>3 DEF CheckUser
    <3>2. Creating(t)'
      BY <1>b, <1>d, <2>1, <3>1 DEF Creating, New, Game
    <3>3. QED
      BY <1>a, <1>b, <1>d, <2>1, <2>2, <2>3, <3>1, <3>2, CreatingKept DEF Game, Uploader
  <2>4. CASE idx[t] <= Len(Players[Game(t)]) /\ Visible(t, NextName(t))
    <3>1. pc'[t] = "checkUser" /\ idx'[t] = idx[t] + 1
      BY <1>2, <1>c, <2>4 DEF CheckUser
    <3>2. Creating(t)'
      BY <3>1 DEF Creating
    <3>3. \A i \in DOMAIN Players[Game(t)] : i < idx'[t] => i < idx[t] \/ i = idx[t]
      BY <1>c, <3>1
    <3>4. \A i \in DOMAIN Players[Game(t)] : i < idx'[t] => Visible(t, Players[Game(t)][i])
      BY <1>d, <2>1, <2>4, <3>3 DEF NextName
    <3>5. QED
      BY <1>a, <1>b, <1>d, <2>1, <2>2, <3>1, <3>2, <3>4, CreatingKept DEF Game, Uploader
  <2>5. CASE idx[t] <= Len(Players[Game(t)]) /\ ~Visible(t, NextName(t))
    <3>1. pc'[t] = "addUser" /\ UNCHANGED idx
      BY <1>2, <1>c, <2>5 DEF CheckUser
    <3>2. Creating(t)'
      BY <3>1 DEF Creating
    <3>3. QED
      BY <1>a, <1>b, <1>d, <2>1, <2>2, <3>1, <3>2, CreatingKept DEF Game, Uploader
  <2>6. QED
    BY <1>2, <2>3, <2>4, <2>5 DEF CheckUser
<1>3. CASE AddUser(t)
  <2>1. Creating(t) /\ pc[t] = "addUser" /\ UNCHANGED <<games, users>>
    BY <1>3 DEF AddUser, Creating
  <2>2. CASE NextName(t) \notin users
    <3>1. /\ pc'[t] = "checkUser" /\ idx'[t] = idx[t] + 1 /\ UNCHANGED tx
          /\ locks'[t] = locks[t] \cup {UserKey(NextName(t))}
      BY <1>3, <1>a, <2>1, <2>2, WantedAt DEF AddUser, Lock
    <3>2. Creating(t)'
      BY <3>1 DEF Creating
    <3>3. \A i \in DOMAIN Players[Game(t)] : i < idx'[t] => i < idx[t] \/ i = idx[t]
      BY <1>c, <3>1
    <3>4. \A i \in DOMAIN Players[Game(t)] : i < idx'[t] => Visible(t, Players[Game(t)][i])'
      BY <1>b, <1>d, <2>1, <3>1, <3>3 DEF NextName, Visible, Game
    <3>5. QED
      BY <1>a, <1>b, <1>d, <2>1, <3>1, <3>2, <3>4, CreatingKept DEF Game, Uploader
  <2>3. CASE NextName(t) \in users
    BY <1>3, <1>a, <1>b, <2>3, AnsweredKept DEF AddUser, Rollback
  <2>4. QED
    BY <2>2, <2>3
<1>4. CASE (Store(t) \/ Enqueue(t)) /\ New(t)
  <2>1. Creating(t) /\ UNCHANGED <<games, users, idx, tx>> /\ locks[t] \subseteq locks'[t]
    BY <1>4, <1>a DEF Store, Enqueue, Creating, Lock
  <2>2. Creating(t)'
    BY <1>4, <1>b, <2>1 DEF Store, Enqueue, Creating, New, Game
  <2>3. \A u : Visible(t, u) => Visible(t, u)'
    BY <2>1 DEF Visible
  <2>4. pc[t] \in {"store", "enqueue"}
    BY <1>4 DEF Store, Enqueue
  <2>5. QED
    BY <1>a, <1>b, <1>d, <2>1, <2>2, <2>3, <2>4, CreatingKept DEF Game, Uploader
<1>5. CASE CommitNew(t)
  <2>1. pc'[t] = "reread" /\ locks'[t] = {} /\ NewFile(t) \in files' /\ UNCHANGED target
    BY <1>5, <1>a DEF CommitNew, Leave
  <2>2. QED
    BY <1>a, <1>b, <2>1, CommittedKept DEF NewFile, Uploader
<1>6. CASE Reread(t)
  BY <1>6, <1>a, <1>b, DoneKept DEF Reread
<1>7. QED
  BY <1>1, <1>2, <1>3, <1>4, <1>5, <1>6

\* DeleteGame.
LEMMA DeleteKept ==
  ASSUME TypeOK, IdsFresh, NEW t \in Requests, RequestInv(t),
         Find(t) \/ DeleteFiles(t) \/ DeleteAnalysis(t) \/ DeleteRow(t) \/ CommitDelete(t)
  PROVE  RequestInv(t)'
<1> USE DEF TypeOK, Goto, At, database
<1>a. DOMAIN locks = Requests /\ req[t] \in Inputs /\ pc[t] # "idle" /\ UNCHANGED req
  BY DEF RequestInv, IdleBlank, Find, DeleteFiles, DeleteAnalysis, DeleteRow, CommitDelete
<1>1. CASE Find(t)
  <2>1. CASE games[Game(t)] # NoGame
    <3>1. pc'[t] = "deleteFiles" /\ tx'[t] = "open" /\ locks'[t] = {}
      BY <1>1, <2>1 DEF Find, RequestInv, LocksInTx, Lockless
    <3>2. DeleterProtected(t)'
      BY <3>1 DEF DeleterProtected
    <3>3. QED
      BY <1>a, <3>1, <3>2, DeletingKept
  <2>2. CASE games[Game(t)] = NoGame
    BY <1>1, <1>a, <2>2, AnsweredKept DEF Find
  <2>3. QED
    BY <2>1, <2>2
<1>2. CASE DeleteFiles(t)
  <2>1. pc[t] = "deleteFiles" /\ pc'[t] = "deleteAnalysis" /\ tx'[t] = "open" /\ UNCHANGED target
    BY <1>2 DEF DeleteFiles, RequestInv, LocksInTx, Lockless
  <2>2. locks'[t] = {FileKey(f.game, f.uploader) : f \in FilesOf(target[t])}
    BY <1>2, <1>a, <2>1, WantedAt DEF DeleteFiles, Lock, RequestInv, LocksInTx
  <2>3. \A k \in locks'[t] : k[2] = target[t]
    BY <2>2, KeyParts DEF FilesOf
  <2>4. DeleterProtected(t)'
    BY <2>1, <2>3 DEF DeleterProtected
  <2>5. QED
    BY <1>a, <2>1, <2>4, DeletingKept
<1>3. CASE DeleteAnalysis(t)
  <2>1. /\ pc[t] = "deleteAnalysis" /\ pc'[t] = "deleteGame" /\ tx'[t] = "open" /\ UNCHANGED target
        /\ \A k \in locks[t] : k[1] \in {"files", "analyses"} => k[2] = target[t]
    BY <1>3 DEF DeleteAnalysis, RequestInv, LocksInTx, DeleterProtected, Lockless
  <2>2. locks'[t] = locks[t] \cup {AnalysisKey(id) : id \in analyses \cap {target[t]}}
    BY <1>3, <1>a, <2>1, WantedAt DEF DeleteAnalysis, Lock
  <2>3. \A id \in analyses \cap {target[t]} : AnalysisKey(id)[2] = target[t]
    BY KeyParts
  <2>4. DeleterProtected(t)'
    BY <2>1, <2>2, <2>3 DEF DeleterProtected
  <2>5. QED
    BY <1>a, <2>1, <2>4, DeletingKept
<1>4. CASE DeleteRow(t)
  <2>1. /\ pc[t] = "deleteGame" /\ tx[t] = "open"
        /\ \A k \in locks[t] : k[1] \in {"files", "analyses"} => k[2] = target[t]
    BY <1>4 DEF DeleteRow, RequestInv, LocksInTx, DeleterProtected, Lockless
  <2>2. CASE Present(target[t]) /\ ~Referenced(t)
    <3>1. /\ pc'[t] = "commitDelete" /\ UNCHANGED <<target, tx, games, files, analyses>>
          /\ locks'[t] = locks[t] \cup {RowLock(target[t], "delete")}
      BY <1>4, <1>a, <2>1, <2>2, WantedAt DEF DeleteRow, Lock
    <3>2. \A k \in locks'[t] : k[1] \in {"files", "analyses"} => k[2] = target[t]
      BY <2>1, <3>1, KeyParts
    <3>3. Recorded(t)'
      BY <1>a, <2>2, <3>1, PresentRecorded DEF Recorded, Game
    <3>4. ~Referenced(t)'
      BY <2>2, <3>1 DEF Referenced, FilesOf
    <3>5. DeleterProtected(t)'
      BY <3>1, <3>2, <3>3, <3>4 DEF DeleterProtected
    <3>6. QED
      BY <1>a, <2>1, <3>1, <3>5, DeletingKept
  <2>3. CASE ~(Present(target[t]) /\ ~Referenced(t))
    BY <1>4, <1>a, <2>3, AnsweredKept DEF DeleteRow, Rollback
  <2>4. QED
    BY <2>2, <2>3
<1>5. CASE CommitDelete(t)
  BY <1>5, <1>a, AnsweredKept DEF CommitDelete
<1>6. QED
  BY <1>1, <1>2, <1>3, <1>4, <1>5

LEMMA OwnKept ==
  ASSUME TypeOK, IdsFresh, NEW t \in Requests, RequestInv(t), Step(t)
  PROVE  RequestInv(t)'
<1>1. CASE \E input \in Inputs : Receive(t, input)
  BY <1>1, StartKept
<1>2. CASE StoreFails(t)
  <2>1. pc[t] # "idle" /\ UNCHANGED req /\ Answer(t, 500, "open")
    BY <1>2 DEF StoreFails, At
  <2>2. QED
    BY <2>1, AnsweredKept
<1>3. CASE BreakDeadlock(t)
  <2>1. pc[t] # "idle"
    BY <1>3, WaiterReceived DEF BreakDeadlock
  <2>2. UNCHANGED req /\ \E s \in {"aborted", "none"} : Answer(t, 500, s)
    BY <1>3 DEF BreakDeadlock
  <2>3. QED
    BY <2>1, <2>2, AnsweredKept
<1>4. CASE Statement(t)
  BY <1>4, StartKept, AddKept, CreateKept, DeleteKept DEF Statement
<1>5. QED
  BY <1>1, <1>2, <1>3, <1>4 DEF Step

\* The server stops.
LEMMA StopKept ==
  ASSUME TypeOK, NEW t \in Requests, RequestInv(t), ServerStops
  PROVE  RequestInv(t)'
<1>1. /\ pc'[t] \in {"idle", "done", "cut"} /\ (pc'[t] = "idle" => pc[t] = "idle")
      /\ (pc'[t] = "cut" => pc[t] # "idle")
      /\ locks'[t] = {} /\ UNCHANGED <<req, target, idx>>
  BY DEF ServerStops
<1>2. CASE pc'[t] = "done"
  <2>1. req'[t] \in Inputs
    BY <1>1, <1>2 DEF ServerStops, RequestInv, IdleBlank
  <2>2. QED
    BY <1>2, <2>1, DoneKept
<1>3. CASE pc'[t] \in {"idle", "cut"}
  BY <1>1, <1>3
     DEF RequestInv, LocksInTx, IdleBlank, AdderProtected, CreatorProtected, DeleterProtected,
         CommittedRecorded, NamesKnown, Adding, Creating, Lockless
<1>4. QED
  BY <1>1, <1>2, <1>3

(***************************************************************************)
(* Ids.                                                                    *)
(***************************************************************************)

\* A request begins to record a game by inserting its row, in no other way.
LEMMA CreatingBegins ==
  ASSUME TypeOK, NEW t \in Requests, RequestInv(t), Step(t), Creating(t)'
  PROVE  Creating(t) \/ (Create(t) /\ games[Game(t)] = NoGame)
<1> USE DEF TypeOK, Goto, At
<1>1. pc'[t] \in {"checkUser", "addUser", "commitNew", "store", "enqueue"}
  BY DEF Creating
<1>2. CASE \E input \in Inputs : Receive(t, input)
  BY <1>1, <1>2 DEF Receive
<1>3. CASE StoreFails(t) \/ BreakDeadlock(t)
  BY <1>1, <1>3 DEF StoreFails, BreakDeadlock, Answer, Leave
<1>4. CASE CheckUser(t) \/ AddUser(t) \/ CommitNew(t)
  BY <1>4 DEF CheckUser, AddUser, CommitNew, Creating
<1>5. CASE Store(t)
  BY <1>5 DEF Store, Creating, New, Game
<1>6. CASE Enqueue(t)
  BY <1>1, <1>6 DEF Enqueue, Creating
<1>7. CASE AddFile(t)
  <2>1. pc[t] = "addFile" /\ locks[t] = {} /\ DOMAIN locks = Requests
    BY <1>7 DEF AddFile, RequestInv, LocksInTx
  <2>2. CASE Present(target[t]) /\ ~AlreadyUploaded(t)
    <3>1. locks'[t] = {FileKey(target[t], Uploader(t)), RowLock(target[t], "share")}
      BY <1>7, <2>1, <2>2, WantedAt DEF AddFile, Lock
    <3>2. ~New(t)'
      BY <3>1, KeysDiffer DEF New
    <3>3. pc'[t] \in {"store", "count"}
      BY <1>7, <2>2 DEF AddFile
    <3>4. QED
      BY <3>2, <3>3 DEF Creating
  <2>3. CASE ~(Present(target[t]) /\ ~AlreadyUploaded(t))
    BY <1>1, <1>7, <2>3 DEF AddFile, Rollback, Answer, Leave
  <2>4. QED
    BY <2>2, <2>3
<1>8. CASE Create(t)
  BY <1>1, <1>8 DEF Create, Rollback, Answer, Leave
<1>9. CASE FindUploader(t) \/ AddUploader(t) \/ Lookup(t) \/ Find(t)
  BY <1>1, <1>9 DEF FindUploader, AddUploader, Lookup, Find, Answer, Leave
<1>10. CASE BeginAdd(t) \/ Count(t) \/ CommitAdd(t) \/ ApplySeason(t) \/ Reread(t)
  BY <1>1, <1>10 DEF BeginAdd, Count, CommitAdd, ApplySeason, Reread, Leave
<1>11. CASE DeleteFiles(t) \/ DeleteAnalysis(t) \/ DeleteRow(t) \/ CommitDelete(t)
  BY <1>1, <1>11 DEF DeleteFiles, DeleteAnalysis, DeleteRow, CommitDelete, Rollback, Answer, Leave
<1>12. QED
  BY <1>2, <1>3, <1>4, <1>5, <1>6, <1>7, <1>8, <1>9, <1>10, <1>11 DEF Step, Statement

\* No new game, target or id: whatever was fresh stays fresh.
LEMMA IdsKept ==
  ASSUME IdsFresh, UNCHANGED target, nextId' >= nextId, nextId \in Nat, nextId' \in Nat,
         target \in [Requests -> Nat],
         \A g \in Games : games'[g] # NoGame => games[g] # NoGame /\ games'[g].id = games[g].id,
         \A g \in Games : games[g] # NoGame => games[g].id \in Nat,
         \A r \in Requests : Creating(r)' => Creating(r),
         \A r \in Requests : req'[r] = req[r] \/ target[r] = 0
  PROVE  IdsFresh'
<1>1. \A i : Present(i)' => Present(i)
  BY DEF Present
<1>2. \A r \in Requests : target[r] < nextId'
  BY DEF IdsFresh
<1>3. \A r \in Requests : target[r] # 0 => Game(r)' = Game(r)
  BY DEF Game
<1>4. QED
  BY <1>1, <1>2, <1>3 DEF IdsFresh

\* What a statement may do to the recorded games, and to targets and ids.
LEMMA StepCommits ==
  ASSUME NEW t \in Requests, Step(t)
  PROVE  Quiet \/ CommitAdd(t) \/ CommitNew(t) \/ CommitDelete(t)
<1> USE DEF Quiet, database
<1>1. CASE \E input \in Inputs : Receive(t, input)
  BY <1>1 DEF Receive
<1>2. CASE StoreFails(t) \/ BreakDeadlock(t)
  BY <1>2 DEF StoreFails, BreakDeadlock
<1>3. CASE FindUploader(t) \/ AddUploader(t) \/ Lookup(t) \/ BeginAdd(t) \/ AddFile(t)
  BY <1>3 DEF FindUploader, AddUploader, Lookup, BeginAdd, AddFile
<1>4. CASE Store(t) \/ Enqueue(t) \/ Count(t) \/ ApplySeason(t) \/ Create(t)
  BY <1>4 DEF Store, Enqueue, Count, ApplySeason, Create
<1>5. CASE CheckUser(t) \/ AddUser(t) \/ Reread(t)
  BY <1>5 DEF CheckUser, AddUser, Reread
<1>6. CASE Find(t) \/ DeleteFiles(t) \/ DeleteAnalysis(t) \/ DeleteRow(t)
  BY <1>6 DEF Find, DeleteFiles, DeleteAnalysis, DeleteRow
<1>7. QED
  BY <1>1, <1>2, <1>3, <1>4, <1>5, <1>6 DEF Step, Statement

LEMMA StepTargets ==
  ASSUME NEW t \in Requests, Step(t)
  PROVE  UNCHANGED <<target, nextId>> \/ Create(t) \/ Lookup(t) \/ Find(t)
<1>1. CASE \E input \in Inputs : Receive(t, input)
  BY <1>1 DEF Receive
<1>2. CASE StoreFails(t) \/ BreakDeadlock(t)
  BY <1>2 DEF StoreFails, BreakDeadlock
<1>3. CASE FindUploader(t) \/ AddUploader(t) \/ BeginAdd(t) \/ AddFile(t)
  BY <1>3 DEF FindUploader, AddUploader, BeginAdd, AddFile
<1>4. CASE Store(t) \/ Enqueue(t) \/ Count(t) \/ CommitAdd(t) \/ ApplySeason(t)
  BY <1>4 DEF Store, Enqueue, Count, CommitAdd, ApplySeason
<1>5. CASE CheckUser(t) \/ AddUser(t) \/ CommitNew(t) \/ Reread(t)
  BY <1>5 DEF CheckUser, AddUser, CommitNew, Reread
<1>6. CASE DeleteFiles(t) \/ DeleteAnalysis(t) \/ DeleteRow(t) \/ CommitDelete(t)
  BY <1>6 DEF DeleteFiles, DeleteAnalysis, DeleteRow, CommitDelete
<1>7. QED
  BY <1>1, <1>2, <1>3, <1>4, <1>5, <1>6 DEF Step, Statement

\* The input of a request is set once, while it has no target.
LEMMA StepInputs ==
  ASSUME NEW t \in Requests, RequestInv(t), Step(t)
  PROVE  UNCHANGED req \/ target[t] = 0
<1>1. CASE \E input \in Inputs : Receive(t, input)
  BY <1>1 DEF Receive, RequestInv, IdleBlank
<1>2. CASE StoreFails(t) \/ BreakDeadlock(t)
  BY <1>2 DEF StoreFails, BreakDeadlock
<1>3. CASE FindUploader(t) \/ AddUploader(t) \/ Lookup(t) \/ BeginAdd(t) \/ AddFile(t)
  BY <1>3 DEF FindUploader, AddUploader, Lookup, BeginAdd, AddFile
<1>4. CASE Store(t) \/ Enqueue(t) \/ Count(t) \/ CommitAdd(t) \/ ApplySeason(t) \/ Create(t)
  BY <1>4 DEF Store, Enqueue, Count, CommitAdd, ApplySeason, Create
<1>5. CASE CheckUser(t) \/ AddUser(t) \/ CommitNew(t) \/ Reread(t)
  BY <1>5 DEF CheckUser, AddUser, CommitNew, Reread
<1>6. CASE Find(t) \/ DeleteFiles(t) \/ DeleteAnalysis(t) \/ DeleteRow(t) \/ CommitDelete(t)
  BY <1>6 DEF Find, DeleteFiles, DeleteAnalysis, DeleteRow, CommitDelete
<1>7. QED
  BY <1>1, <1>2, <1>3, <1>4, <1>5, <1>6 DEF Step, Statement

\* The commit of a contribution changes no game's id.
LEMMA AddIds ==
  ASSUME TypeOK, NEW t \in Requests, RequestInv(t), CommitAdd(t)
  PROVE  /\ Game(t) \in Games /\ Recorded(t) /\ ~AlreadyUploaded(t)
         /\ games'[Game(t)] \in GameRow /\ games'[Game(t)].id = target[t]
         /\ games'[Game(t)].uploads = games[Game(t)].uploads + 1
         /\ \A g \in Games \ {Game(t)} : games'[g] = games[g]
<1>1. Game(t) \in Games /\ Recorded(t) /\ ~AlreadyUploaded(t)
  BY RequestTyped DEF CommitAdd, At, RequestInv, AdderProtected, Adding
<1>2. games[Game(t)] \in GameRow /\ games[Game(t)].id = target[t]
  BY <1>1 DEF TypeOK, Recorded
<1> DEFINE row == [games[Game(t)] EXCEPT !.uploads = games[Game(t)].uploads + 1]
<1>3. games' = [games EXCEPT ![Game(t)] = row]
  BY DEF CommitAdd, Counted
<1>4. row \in GameRow /\ row.id = target[t] /\ row.uploads = games[Game(t)].uploads + 1
  BY <1>2 DEF GameRow
<1> HIDE DEF row
<1>5. games'[Game(t)] = row /\ \A g \in Games \ {Game(t)} : games'[g] = games[g]
  BY <1>1, <1>3 DEF TypeOK
<1>6. QED
  BY <1>1, <1>4, <1>5

LEMMA StepIds ==
  ASSUME TypeOK, IdsFresh, NEW t \in Requests, RequestInv(t), Step(t)
  PROVE  IdsFresh'
<1>a. \A r \in Requests \ {t} : /\ target'[r] = target[r] /\ req'[r] = req[r]
                                /\ Game(r)' = Game(r) /\ Creating(r)' = Creating(r)
  BY OthersUntouched, UntouchedPhases DEF Untouched
<1>b. UNCHANGED req \/ target[t] = 0
  BY StepInputs
<1>c. /\ nextId \in Nat /\ target \in [Requests -> Nat]
      /\ \A g \in Games : games[g] # NoGame => games[g].id \in Nat
  BY DEF TypeOK, GameRow
<1>1. CASE Create(t)
  <2>1. Game(t)' = Game(t) /\ UNCHANGED <<games, req>> /\ nextId' = nextId + 1
    BY <1>1 DEF Create, database, Game
  <2>2. CASE games[Game(t)] = NoGame
    <3>1. target' = [target EXCEPT ![t] = nextId]
      BY <1>1, <2>2 DEF Create
    <3>2. target'[t] = nextId /\ \A i : Present(i)' = Present(i)
      BY <1>c, <2>1, <3>1 DEF Present
    <3>3. \A g \in Games : games[g] # NoGame => games[g].id # nextId /\ games[g].id < nextId'
      BY <1>c, <2>1 DEF IdsFresh
    <3>4. ~Present(nextId)
      BY <3>3 DEF Present
    <3>5. \A r \in Requests \ {t} : target'[r] # nextId /\ target'[r] < nextId'
      BY <1>a, <1>c, <2>1 DEF IdsFresh
    <3>6. \A g \in Games : games'[g] # NoGame => \A r \in Requests : target'[r] = games'[g].id => Game(r)' = g
      BY <1>a, <2>1, <3>2, <3>3 DEF IdsFresh
    <3>7. nextId > 0 /\ nextId' > 0 /\ nextId < nextId'
      BY <1>c, <2>1 DEF IdsFresh
    <3>8. \A r \in Requests : Creating(r)' =>
             target'[r] > 0 /\ ~Present(target[r])' /\ \A q \in Requests \ {r} : target'[q] # target'[r]
      BY <1>a, <3>2, <3>4, <3>5, <3>7 DEF IdsFresh
    <3>9. QED
      BY <2>1, <3>2, <3>3, <3>5, <3>6, <3>7, <3>8 DEF IdsFresh
  <2>3. CASE games[Game(t)] # NoGame
    <3>1. UNCHANGED target /\ nextId' \in Nat /\ nextId' >= nextId
      BY <1>1, <1>c, <2>1, <2>3 DEF Create
    <3>2. Creating(t)' => Creating(t)
      BY <2>3, CreatingBegins
    <3>3. QED
      BY <1>a, <1>c, <2>1, <3>1, <3>2, IdsKept
  <2>4. QED
    BY <2>2, <2>3
<1>2. CASE (Lookup(t) \/ Find(t)) /\ games[Game(t)] # NoGame
  <2>1. /\ Game(t)' = Game(t) /\ UNCHANGED <<games, req, nextId>>
        /\ target' = [target EXCEPT ![t] = games[Game(t)].id]
        /\ pc' = [pc EXCEPT ![t] = pc'[t]] /\ pc'[t] \in {"begin", "deleteFiles"}
        /\ Game(t) \in Games
    BY <1>2, RequestTyped DEF Lookup, Find, database, Game, Goto, At, TypeOK
  <2>2. target'[t] = games[Game(t)].id /\ Present(target'[t]) /\ ~Creating(t)'
    BY <1>2, <1>c, <2>1 DEF Present, Creating
  <2>3. \A i : Present(i)' = Present(i)
    BY <2>1 DEF Present
  <2>4. target'[t] < nextId
    BY <1>2, <2>1, <2>2 DEF IdsFresh
  <2>5. \A g \in Games : games[g] # NoGame /\ games[g].id = target'[t] => g = Game(t)
    BY <1>2, <2>1, <2>2 DEF IdsFresh
  <2>6. \A g \in Games : games'[g] # NoGame => \A r \in Requests : target'[r] = games'[g].id => Game(r)' = g
    BY <1>a, <2>1, <2>5 DEF IdsFresh
  <2>7. \A r \in Requests : Creating(r)' =>
           target'[r] > 0 /\ ~Present(target[r])' /\ \A q \in Requests \ {r} : target'[q] # target'[r]
    BY <1>a, <2>2, <2>3 DEF IdsFresh
  <2>8. QED
    BY <1>a, <2>1, <2>4, <2>6, <2>7 DEF IdsFresh
<1>3. CASE CommitNew(t)
  <2>1. Creating(t) /\ Game(t) \in Games /\ pc'[t] = "reread" /\ games[Game(t)] = NoGame
    BY <1>3, RequestTyped DEF CommitNew, At, Creating, Leave, Goto, TypeOK, RequestInv, CreatorProtected
  <2>2. /\ UNCHANGED <<req, target, nextId>> /\ Game(t)' = Game(t)
        /\ games'[Game(t)].id = target[t]
        /\ \A g \in Games \ {Game(t)} : games'[g] = games[g]
    BY <1>3, <2>1 DEF CommitNew, TypeOK, Game
  <2>3. target[t] > 0 /\ ~Present(target[t]) /\ \A r \in Requests \ {t} : target[r] # target[t]
    BY <2>1 DEF IdsFresh
  <2>4. \A g \in Games \ {Game(t)} : games[g] # NoGame => games[g].id # target[t]
    BY <2>3 DEF Present
  <2>5. \A g \in Games : games'[g] # NoGame =>
           /\ games'[g].id > 0 /\ games'[g].id < nextId'
           /\ \A h \in Games : games'[h] # NoGame /\ games'[h].id = games'[g].id => h = g
           /\ \A r \in Requests : target'[r] = games'[g].id => Game(r)' = g
    BY <1>a, <2>1, <2>2, <2>3, <2>4 DEF IdsFresh
  <2>6. ~Creating(t)'
    BY <2>1 DEF Creating
  <2>7. \A i : Present(i)' => Present(i) \/ i = target[t]
    BY <2>2 DEF Present
  <2>8. \A r \in Requests : Creating(r)' =>
           target'[r] > 0 /\ ~Present(target[r])' /\ \A q \in Requests \ {r} : target'[q] # target'[r]
    BY <1>a, <2>2, <2>3, <2>6, <2>7 DEF IdsFresh
  <2>9. QED
    BY <2>2, <2>5, <2>8 DEF IdsFresh
<1>4. CASE UNCHANGED <<target, nextId>> /\ ~Create(t) /\ ~CommitNew(t)
  <2>1. \A g \in Games : games'[g] # NoGame => games[g] # NoGame /\ games'[g].id = games[g].id
    <3>1. CASE Quiet
      BY <3>1 DEF Quiet
    <3>2. CASE CommitAdd(t)
      BY <3>2, AddIds DEF Recorded
    <3>3. CASE CommitDelete(t)
      BY <3>3 DEF CommitDelete, TypeOK
    <3>4. QED
      BY <1>4, <3>1, <3>2, <3>3, StepCommits
  <2>2. \A r \in Requests : (Creating(r)' => Creating(r)) /\ (req'[r] = req[r] \/ target[r] = 0)
    BY <1>4, <1>a, <1>b, CreatingBegins
  <2>3. QED
    BY <1>4, <1>c, <2>1, <2>2, IdsKept
<1>5. QED
  <2>1. (Lookup(t) \/ Find(t)) /\ games[Game(t)] = NoGame => UNCHANGED <<target, nextId>>
    BY DEF Lookup, Find
  <2>2. QED
    BY <1>1, <1>2, <1>3, <1>4, <2>1, StepTargets

(***************************************************************************)
(* The three commits, as changes of what is on record.                     *)
(***************************************************************************)

\* The first contribution to a game nobody refers to.
LEMMA NewIds ==
  ASSUME TypeOK, NoStrayRows, IdsFresh, NEW t \in Requests, RequestInv(t), CommitNew(t)
  PROVE  /\ Game(t) \in Games /\ games[Game(t)] = NoGame /\ FilesOf(target[t]) = {}
         /\ ~Present(target[t]) /\ target[t] \in Nat
         /\ games'[Game(t)] # NoGame
         /\ games'[Game(t)].id = target[t] /\ games'[Game(t)].uploads = 1
         /\ \A g \in Games \ {Game(t)} : games'[g] = games[g]
<1>1. Creating(t) /\ Game(t) \in Games
  BY RequestTyped DEF CommitNew, At, Creating
<1>2. games[Game(t)] = NoGame /\ ~Present(target[t])
  BY <1>1 DEF RequestInv, CreatorProtected, IdsFresh
<1>3. FilesOf(target[t]) = {} /\ target[t] \in Nat
  BY <1>2 DEF FilesOf, NoStrayRows, TypeOK
<1>4. [id |-> target[t], uploads |-> 1] # NoGame
  BY <1>3, IngestAssumption DEF GameRow
<1>5. games'[Game(t)] = [id |-> target[t], uploads |-> 1]
  BY <1>1 DEF CommitNew, TypeOK
<1>6. \A g \in Games \ {Game(t)} : games'[g] = games[g]
  BY <1>1 DEF CommitNew, TypeOK
<1>7. games'[Game(t)].id = target[t] /\ games'[Game(t)].uploads = 1
  BY <1>5
<1>8. QED
  BY <1>1, <1>2, <1>3, <1>4, <1>5, <1>6, <1>7

\* The deletion of a game with everything that refers to it, and nothing else.
LEMMA DeleteIds ==
  ASSUME TypeOK, IdsFresh, NEW t \in Requests, RequestInv(t), CommitDelete(t)
  PROVE  /\ Game(t) \in Games /\ Recorded(t) /\ games'[Game(t)] = NoGame
         /\ \A g \in Games \ {Game(t)} : games'[g] = games[g]
         /\ files' = {f \in files : f.game # target[t]}
         /\ \A id \in analyses' : id \in analyses /\ id # target[t]
         /\ ~Present(target[t])'
<1>1. pc[t] = "commitDelete" /\ Game(t) \in Games
  BY RequestTyped DEF CommitDelete, At
<1>2. /\ Recorded(t) /\ ~Referenced(t)
      /\ \A f \in files : FileKey(f.game, f.uploader) \in locks[t] => f.game = target[t]
  BY <1>1, KeyParts DEF RequestInv, DeleterProtected
<1>3. /\ games'[Game(t)] = NoGame
      /\ \A g \in Games \ {Game(t)} : games'[g] = games[g]
  BY <1>1 DEF CommitDelete, TypeOK
<1>4. \A f \in files : FileKey(f.game, f.uploader) \in locks[t] <=> f.game = target[t]
  BY <1>2 DEF Referenced, FilesOf
<1>5. files' = {f \in files : f.game # target[t]}
  BY <1>4 DEF CommitDelete
<1>6. \A id \in analyses' : id \in analyses /\ id # target[t]
  BY <1>2 DEF CommitDelete, Referenced
<1>7. ~Present(target[t])'
  <2>1. UNCHANGED target
    BY DEF CommitDelete
  <2>2. \A g \in Games \ {Game(t)} : games[g] # NoGame => games[g].id # target[t]
    BY <1>1, <1>2 DEF IdsFresh, Recorded
  <2>3. QED
    BY <1>3, <2>1, <2>2 DEF Present
<1>8. QED
  BY <1>1, <1>2, <1>3, <1>5, <1>6, <1>7

LEMMA StepStrays ==
  ASSUME TypeOK, NoStrayRows, IdsFresh, NEW t \in Requests, RequestInv(t), Step(t)
  PROVE  NoStrayRows'
<1>1. CASE Quiet
  BY <1>1 DEF Quiet, NoStrayRows, Present
<1>2. CASE CommitAdd(t)
  <2>1. /\ files' = files \cup {NewFile(t)} /\ NewFile(t).game = target[t]
        /\ \A id \in analyses' : id \in analyses \/ id = target[t]
    BY <1>2 DEF CommitAdd, QueuedIds, NewFile
  <2>2. \A i : Present(i) => Present(i)'
    <3>1. \A g \in Games : games[g] # NoGame => games'[g] # NoGame /\ games'[g].id = games[g].id
      BY <1>2, AddIds, IngestAssumption DEF Recorded
    <3>2. QED
      BY <3>1 DEF Present
  <2>3. Present(target[t])
    BY <1>2, AddIds DEF Recorded, Present
  <2>4. QED
    BY <2>1, <2>2, <2>3 DEF NoStrayRows
<1>3. CASE CommitNew(t)
  <2>1. /\ files' = files \cup {NewFile(t)} /\ NewFile(t).game = target[t]
        /\ \A id \in analyses' : id \in analyses \/ id = target[t]
    BY <1>3 DEF CommitNew, QueuedIds, NewFile
  <2>2. \A g \in Games : games[g] # NoGame => games'[g] # NoGame /\ games'[g].id = games[g].id
    BY <1>3, NewIds
  <2>3. Game(t) \in Games /\ games'[Game(t)] # NoGame /\ games'[Game(t)].id = target[t]
    BY <1>3, NewIds
  <2>4. \A i : Present(i) \/ i = target[t] => Present(i)'
    BY <2>2, <2>3 DEF Present
  <2>5. QED
    BY <2>1, <2>4 DEF NoStrayRows
<1>4. CASE CommitDelete(t)
  <2>1. \A g \in Games : games[g] # NoGame /\ games[g].id # target[t] =>
           games'[g] # NoGame /\ games'[g].id = games[g].id
    BY <1>4, DeleteIds DEF Recorded
  <2>2. \A i : Present(i) /\ i # target[t] => Present(i)'
    BY <2>1 DEF Present
  <2>3. QED
    BY <1>4, <2>2, DeleteIds DEF NoStrayRows
<1>5. QED
  BY <1>1, <1>2, <1>3, <1>4, StepCommits

(***************************************************************************)
(* The invariant.                                                          *)
(***************************************************************************)

Inv == TypeOK /\ IngestInv

LEMMA StepRequests ==
  ASSUME Inv, NEW t \in Requests, Step(t)
  PROVE  \A r \in Requests : RequestInv(r)'
<1> SUFFICES ASSUME NEW r \in Requests PROVE RequestInv(r)'
  OBVIOUS
<1> USE DEF Inv, IngestInv
<1>1. CASE r = t
  BY <1>1, OwnKept
<1>2. CASE r # t
  <2>1. Untouched(r)
    BY <1>2, OthersUntouched
  <2>2. QED
    BY <1>2, <2>1, StepCommits, QuietFrame, AddFrame, NewFrame, DeleteFrame
<1>3. QED
  BY <1>1, <1>2

LEMMA StopInv ==
  ASSUME Inv, ServerStops
  PROVE  IngestInv'
<1> USE DEF Inv, IngestInv
<1>1. \A t \in Requests : RequestInv(t)'
  BY StopKept
<1>2. NoStrayRows'
  BY DEF ServerStops, database, NoStrayRows, Present
<1>3. LocksExclusive'
  BY DEF ServerStops, LocksExclusive
<1>4. IdsFresh'
  <2>1. \A t \in Requests : ~Creating(t)'
    BY DEF ServerStops, Creating
  <2>2. /\ UNCHANGED <<games, target, nextId, req>>
        /\ nextId \in Nat /\ target \in [Requests -> Nat]
        /\ \A g \in Games : games[g] # NoGame => games[g].id \in Nat
    BY DEF ServerStops, database, TypeOK, GameRow
  <2>3. QED
    BY <2>1, <2>2, IdsKept
<1>5. QED
  BY <1>1, <1>2, <1>3, <1>4

LEMMA StutterInv ==
  ASSUME Inv, UNCHANGED vars
  PROVE  Inv'
<1> USE DEF Inv, IngestInv, vars
<1>1. TypeOK'
  BY DEF TypeOK
<1>2. NoStrayRows' /\ LocksExclusive'
  BY DEF NoStrayRows, LocksExclusive, Present
<1>3. \A t \in Requests : Untouched(t)
  BY DEF Untouched
<1>4. \A t \in Requests : RequestInv(t)'
  BY <1>3, QuietFrame DEF Quiet
<1>5. IdsFresh'
  BY <1>3, UntouchedPhases DEF IdsFresh, Present
<1>6. QED
  BY <1>1, <1>2, <1>4, <1>5

LEMMA InitInv == Init => Inv
<1> SUFFICES ASSUME Init PROVE IngestInv
  BY InitTyped DEF Inv
<1> USE DEF Init
<1>1. NoStrayRows /\ LocksExclusive
  BY DEF NoStrayRows, LocksExclusive
<1>2. IdsFresh
  BY DEF IdsFresh, Creating
<1>3. \A t \in Requests : RequestInv(t)
  BY DEF RequestInv, LocksInTx, IdleBlank, AdderProtected, CreatorProtected, DeleterProtected,
         CommittedRecorded, NamesKnown, Adding, Creating, Lockless
<1>4. QED
  BY <1>1, <1>2, <1>3 DEF IngestInv

LEMMA NextInv == Inv /\ [Next]_vars => Inv'
<1> SUFFICES ASSUME Inv, [Next]_vars PROVE Inv'
  OBVIOUS
<1>1. CASE UNCHANGED vars
  BY <1>1, StutterInv
<1>2. CASE Next
  <2>1. TypeOK' /\ LocksExclusive'
    BY <1>2, StepTyped, StepExclusive DEF Inv, IngestInv
  <2>2. CASE ServerStops
    BY <2>1, <2>2, StopInv DEF Inv
  <2>3. ASSUME NEW t \in Requests, Step(t) PROVE Inv'
    <3>1. \A r \in Requests : RequestInv(r)'
      BY <2>3, StepRequests
    <3>2. NoStrayRows' /\ IdsFresh'
      BY <2>3, StepStrays, StepIds DEF Inv, IngestInv
    <3>3. QED
      BY <2>1, <3>1, <3>2 DEF Inv, IngestInv
  <2>4. QED
    BY <1>2, <2>2, <2>3 DEF Next, Step
<1>3. QED
  BY <1>1, <1>2

LEMMA AlwaysInv == Spec => []Inv
  BY InitInv, NextInv, PTL DEF Spec

\* Every variable keeps its type, and only open transactions hold locks.
THEOREM IngestTypes == Spec => []TypeOK
<1>1. Inv => TypeOK
  BY DEF Inv
<1>2. QED
  BY <1>1, AlwaysInv, PTL

\* The invariant that explains the row locks and unique keys of the handlers.
THEOREM IngestInvariant == Spec => []IngestInv
<1>1. Inv => IngestInv
  BY DEF Inv
<1>2. QED
  BY <1>1, AlwaysInv, PTL

\* A deletion racing an upload leaves no contribution or analysis row behind.
THEOREM NothingStrays == Spec => []NoStrayRows
<1>1. Inv => NoStrayRows
  BY DEF Inv, IngestInv
<1>2. QED
  BY <1>1, AlwaysInv, PTL

(***************************************************************************)
(* Answers.                                                                *)
(***************************************************************************)

\* Only a failure of the bucket leaves locks behind an answer, and a success
\* is answered when the contribution is on record or the game is gone.
LEMMA OwnAnswer ==
  ASSUME TypeOK, IdsFresh, NEW t \in Requests, RequestInv(t), Step(t), pc'[t] = "done"
  PROVE  /\ locks'[t] = {} \/ StoreFails(t)
         /\ status'[t] \in {200, 201} /\ Present(target[t])' => NewFile(t)' \in files'
<1> USE DEF TypeOK, Goto, At
<1>a. ASSUME NEW code, NEW s, Answer(t, code, s), s # "open"
      PROVE  locks'[t] = {} /\ status'[t] = code
  BY <1>a DEF Answer, Leave
<1>1. CASE StoreFails(t)
  BY <1>1 DEF StoreFails, Answer
<1>2. CASE BreakDeadlock(t)
  <2>1. \E s \in {"none", "aborted"} : Answer(t, 500, s)
    BY <1>2 DEF BreakDeadlock
  <2>2. QED
    BY <1>a, <2>1
<1>3. CASE ApplySeason(t) \/ Reread(t)
  <2>1. locks[t] = {} /\ (Present(target[t]) => NewFile(t) \in files)
    BY <1>3 DEF ApplySeason, Reread, RequestInv, LocksInTx, CommittedRecorded, Lockless
  <2>2. UNCHANGED <<games, files, req, target, locks>>
    BY <1>3 DEF ApplySeason, Reread, database
  <2>3. QED
    BY <2>1, <2>2 DEF Present, NewFile, Uploader
<1>4. CASE CommitDelete(t)
  <2>1. Answer(t, 200, "none")
    BY <1>4 DEF CommitDelete
  <2>2. QED
    BY <1>4, <1>a, <2>1, DeleteIds
<1>5. CASE AddUploader(t) \/ Lookup(t) \/ Find(t)
  <2>1. \E code \in {400, 404, 500} : Answer(t, code, "none")
    BY <1>5 DEF AddUploader, Lookup, Find
  <2>2. QED
    BY <1>a, <2>1
<1>6. CASE AddFile(t) \/ Create(t) \/ AddUser(t) \/ DeleteRow(t)
  <2>1. Answer(t, 500, "none")
    BY <1>6 DEF AddFile, Create, AddUser, DeleteRow, Rollback
  <2>2. QED
    BY <1>a, <2>1
<1>7. CASE \E input \in Inputs : Receive(t, input)
  BY <1>7 DEF Receive
<1>8. CASE FindUploader(t) \/ BeginAdd(t) \/ Store(t) \/ Enqueue(t) \/ Count(t) \/ CommitAdd(t)
  BY <1>8 DEF FindUploader, BeginAdd, Store, Enqueue, Count, CommitAdd, Leave
<1>9. CASE CheckUser(t) \/ CommitNew(t) \/ DeleteFiles(t) \/ DeleteAnalysis(t)
  BY <1>9 DEF CheckUser, CommitNew, DeleteFiles, DeleteAnalysis, Leave
<1>10. QED
  BY <1>1, <1>2, <1>3, <1>4, <1>5, <1>6, <1>7, <1>8, <1>9 DEF Step, Statement

\* What is on record for another request stays there while its game does.
LEMMA OthersOnRecord ==
  ASSUME Inv, NEW t \in Requests, Step(t), NEW r \in Requests \ {t},
         Present(target[r]) => NewFile(r) \in files, Present(target[r])'
  PROVE  NewFile(r)' \in files'
<1> USE DEF Inv, IngestInv
<1>1. NewFile(r)' = NewFile(r) /\ target'[r] = target[r] /\ NewFile(r).game = target[r]
  BY OthersUntouched, UntouchedPhases DEF Untouched, NewFile
<1>2. \E g \in Games : games'[g] # NoGame /\ games'[g].id = target[r]
  BY <1>1 DEF Present
<1>3. CASE Quiet
  BY <1>1, <1>2, <1>3 DEF Quiet, Present
<1>4. CASE CommitAdd(t)
  <2>1. Present(target[r])
    BY <1>2, <1>4, AddIds DEF Present, Recorded
  <2>2. QED
    BY <1>1, <1>4, <2>1 DEF CommitAdd
<1>5. CASE CommitNew(t)
  <2>1. target[r] # target[t]
    <3>1. Creating(t)
      BY <1>5 DEF CommitNew, At, Creating
    <3>2. QED
      BY <3>1 DEF IdsFresh
  <2>2. Present(target[r])
    BY <1>2, <1>5, <2>1, NewIds DEF Present
  <2>3. QED
    BY <1>1, <1>5, <2>2 DEF CommitNew
<1>6. CASE CommitDelete(t)
  <2>1. target[r] # target[t]
    <3>1. ~Present(target[t])' /\ UNCHANGED target
      BY <1>6, DeleteIds DEF CommitDelete
    <3>2. QED
      BY <3>1 DEF Present
  <2>2. Present(target[r])
    BY <1>2, <1>6, DeleteIds DEF Present
  <2>3. NewFile(r) \in files /\ files' = {f \in files : f.game # target[t]}
    BY <1>6, <2>2, DeleteIds
  <2>4. QED
    BY <1>1, <2>1, <2>3
<1>7. QED
  BY <1>3, <1>4, <1>5, <1>6, StepCommits

LEMMA AnswersKept ==
  ASSUME Inv, AcknowledgedIsRecorded, LocksLeakByFaultOnly, [Next]_vars
  PROVE  AcknowledgedIsRecorded' /\ LocksLeakByFaultOnly'
<1>1. CASE UNCHANGED vars
  BY <1>1 DEF vars, AcknowledgedIsRecorded, LocksLeakByFaultOnly, Present, NewFile, Uploader
<1>2. CASE ServerStops
  <2>1. /\ \A t \in Requests : pc'[t] = "done" => pc[t] = "done"
        /\ \A t \in Requests : locks'[t] = {}
        /\ UNCHANGED <<games, files, req, target, status>>
    BY <1>2 DEF ServerStops, database
  <2>2. QED
    BY <2>1 DEF AcknowledgedIsRecorded, LocksLeakByFaultOnly, Present, NewFile, Uploader
<1>3. ASSUME NEW t \in Requests, Step(t) PROVE AcknowledgedIsRecorded' /\ LocksLeakByFaultOnly'
  <2>1. faults \in Nat /\ faults' \in Nat /\ faults' >= faults /\ (StoreFails(t) => faults' > 0)
    <3>1. faults \in Nat
      BY IngestAssumption DEF Inv, TypeOK
    <3>2. faults' = faults \/ (StoreFails(t) /\ faults' = faults + 1)
      <4> USE DEF Answer, Leave
      <4>1. CASE \E input \in Inputs : Receive(t, input)
        BY <4>1 DEF Receive
      <4>2. CASE StoreFails(t) \/ BreakDeadlock(t)
        BY <4>2 DEF StoreFails, BreakDeadlock
      <4>3. CASE FindUploader(t) \/ AddUploader(t) \/ Lookup(t) \/ BeginAdd(t) \/ AddFile(t)
        BY <4>3 DEF FindUploader, AddUploader, Lookup, BeginAdd, AddFile
      <4>4. CASE Store(t) \/ Enqueue(t) \/ Count(t) \/ CommitAdd(t) \/ ApplySeason(t)
        BY <4>4 DEF Store, Enqueue, Count, CommitAdd, ApplySeason
      <4>5. CASE Create(t) \/ CheckUser(t) \/ AddUser(t) \/ CommitNew(t) \/ Reread(t)
        BY <4>5 DEF Create, CheckUser, AddUser, CommitNew, Reread
      <4>6. CASE Find(t) \/ DeleteFiles(t) \/ DeleteAnalysis(t) \/ DeleteRow(t) \/ CommitDelete(t)
        BY <4>6 DEF Find, DeleteFiles, DeleteAnalysis, DeleteRow, CommitDelete
      <4>7. QED
        BY <1>3, <4>1, <4>2, <4>3, <4>4, <4>5, <4>6 DEF Step, Statement
    <3>3. StoreFails(t) => faults' = faults + 1
      BY DEF StoreFails
    <3>4. QED
      BY <3>1, <3>2, <3>3
  <2>2. ASSUME NEW r \in Requests, pc'[r] = "done"
        PROVE  /\ locks'[r] # {} => faults' > 0
               /\ status'[r] \in {200, 201} /\ req'[r].kind = "upload" /\ Present(target[r])' =>
                    NewFile(r)' \in files'
    <3>1. CASE r = t
      BY <1>3, <2>1, <2>2, <3>1, OwnAnswer DEF Inv, IngestInv
    <3>2. CASE r # t
      <4>1. Untouched(r)
        BY <1>3, <3>2, OthersUntouched DEF Inv
      <4>2. locks'[r] # {} => faults' > 0
        BY <2>1, <2>2, <4>1 DEF Untouched, LocksLeakByFaultOnly
      <4>3. /\ status'[r] \in {200, 201} /\ req'[r].kind = "upload" =>
               (Present(target[r]) => NewFile(r) \in files)
        BY <2>2, <4>1 DEF Untouched, AcknowledgedIsRecorded
      <4>4. QED
        BY <1>3, <3>2, <4>2, <4>3, OthersOnRecord
    <3>3. QED
      BY <3>1, <3>2
  <2>3. QED
    BY <2>2 DEF AcknowledgedIsRecorded, LocksLeakByFaultOnly
<1>4. QED
  BY <1>1, <1>2, <1>3 DEF Next, Step

\* No interleaving of uploads, deletions, aborts, bucket failures and server
\* stops loses a contribution that its uploader was told is recorded.
THEOREM SuccessIsOnRecord == Spec => []AcknowledgedIsRecorded
<1>1. Init => AcknowledgedIsRecorded /\ LocksLeakByFaultOnly
  BY DEF Init, AcknowledgedIsRecorded, LocksLeakByFaultOnly
<1>2. QED
  BY <1>1, AnswersKept, AlwaysInv, PTL DEF Spec

\* The early return of the duplicate check leaves its transaction open but
\* without locks; a transaction that keeps others waiting after the answer is
\* always due to the bucket.
THEOREM LeaksNeedFaults == Spec => []LocksLeakByFaultOnly
<1>1. Init => AcknowledgedIsRecorded /\ LocksLeakByFaultOnly
  BY DEF Init, AcknowledgedIsRecorded, LocksLeakByFaultOnly
<1>2. QED
  BY <1>1, AnswersKept, AlwaysInv, PTL DEF Spec

(***************************************************************************)
(* Recorded games.                                                         *)
(***************************************************************************)

Kept(g) ==
  /\ games[g] # NoGame
  /\ games'[g].id = games[g].id /\ games'[g].uploads = games[g].uploads
  /\ FilesOf(games[g].id)' = FilesOf(games[g].id)

Extended(t, g) ==
  /\ g = Game(t) /\ games[g] # NoGame
  /\ games'[g].id = games[g].id /\ games'[g].uploads = games[g].uploads + 1
  /\ NewFile(t) \notin FilesOf(games[g].id)
  /\ FilesOf(games[g].id)' = FilesOf(games[g].id) \cup {NewFile(t)}

Added(t, g) ==
  /\ g = Game(t) /\ games[g] = NoGame
  /\ games'[g].uploads = 1
  /\ FilesOf(games[g].id)' = {NewFile(t)}

\* What a step does to the contributions of a recorded game.
LEMMA GameStep ==
  ASSUME Inv, NEW t \in Requests, Step(t), NEW g \in Games, games'[g] # NoGame
  PROVE  Kept(g) \/ (CommitAdd(t) /\ Extended(t, g)) \/ (CommitNew(t) /\ Added(t, g))
<1> USE DEF Inv, IngestInv, FilesOf
<1>1. CASE Quiet
  BY <1>1 DEF Quiet, Kept
<1>2. CASE CommitAdd(t)
  <2>1. files' = files \cup {NewFile(t)} /\ NewFile(t).game = target[t]
    BY <1>2 DEF CommitAdd, NewFile
  <2>2. CASE g = Game(t)
    <3>1. NewFile(t) \notin files
      BY <1>2, AddIds DEF AlreadyUploaded, NewFile
    <3>2. QED
      BY <1>2, <2>1, <2>2, <3>1, AddIds DEF Extended, Recorded
  <2>3. CASE g # Game(t)
    <3>1. games'[g] = games[g] /\ games[g].id # target[t]
      BY <1>2, <2>3, AddIds DEF Recorded, IdsFresh
    <3>2. QED
      BY <2>1, <3>1 DEF Kept
  <2>4. QED
    BY <1>2, <2>2, <2>3
<1>3. CASE CommitNew(t)
  <2>1. files' = files \cup {NewFile(t)} /\ NewFile(t).game = target[t]
    BY <1>3 DEF CommitNew, NewFile
  <2>2. CASE g = Game(t)
    BY <1>3, <2>1, <2>2, NewIds DEF Added
  <2>3. CASE g # Game(t)
    <3>1. games'[g] = games[g] /\ games[g].id # target[t]
      BY <1>3, <2>3, NewIds DEF Present
    <3>2. QED
      BY <2>1, <3>1 DEF Kept
  <2>4. QED
    BY <1>3, <2>2, <2>3
<1>4. CASE CommitDelete(t)
  <2>1. g # Game(t)
    BY <1>4, DeleteIds
  <2>2. games'[g] = games[g] /\ games[g].id # target[t]
    BY <1>4, <2>1, DeleteIds DEF Recorded, IdsFresh
  <2>3. files' = {f \in files : f.game # target[t]}
    BY <1>4, DeleteIds
  <2>4. QED
    BY <2>2, <2>3 DEF Kept
<1>5. QED
  BY <1>1, <1>2, <1>3, <1>4, StepCommits

\* Between steps of requests nothing on record changes.
LEMMA OutsideSteps ==
  ASSUME ServerStops \/ UNCHANGED vars
  PROVE  UNCHANGED <<games, files, users>>
BY DEF ServerStops, vars, database

CountInv == IsFiniteSet(files) /\ CountMatchesFiles

LEMMA FilesFinite ==
  ASSUME NEW t \in Requests, Step(t), IsFiniteSet(files)
  PROVE  IsFiniteSet(files')
<1>1. CASE CommitAdd(t) \/ CommitNew(t)
  <2>1. files' = files \cup {NewFile(t)}
    BY <1>1 DEF CommitAdd, CommitNew
  <2>2. QED
    BY <2>1, FS_AddElement
<1>2. CASE Quiet \/ CommitDelete(t)
  <2>1. files' \subseteq files
    BY <1>2 DEF Quiet, CommitDelete
  <2>2. QED
    BY <2>1, FS_Subset
<1>3. QED
  BY <1>1, <1>2, StepCommits

LEMMA CountKept ==
  ASSUME Inv, CountInv, [Next]_vars
  PROVE  CountInv'
<1>1. CASE ServerStops \/ UNCHANGED vars
  BY <1>1, OutsideSteps DEF CountInv, CountMatchesFiles, FilesOf
<1>2. ASSUME NEW t \in Requests, Step(t) PROVE CountInv'
  <2>1. IsFiniteSet(files')
    BY <1>2, FilesFinite DEF CountInv
  <2>2. ASSUME NEW g \in Games, games'[g] # NoGame
        PROVE  games'[g].uploads = Cardinality(FilesOf(games[g].id)')
    <3>1. IsFiniteSet(FilesOf(games[g].id))
      BY FS_Subset DEF CountInv, FilesOf
    <3>2. games[g] # NoGame => games[g].uploads = Cardinality(FilesOf(games[g].id))
      BY DEF CountInv, CountMatchesFiles
    <3>3. CASE Kept(g)
      BY <3>2, <3>3 DEF Kept
    <3>4. CASE Extended(t, g)
      <4>1. Cardinality(FilesOf(games[g].id) \cup {NewFile(t)}) = Cardinality(FilesOf(games[g].id)) + 1
        BY <3>1, <3>4, FS_AddElement DEF Extended
      <4>2. QED
        BY <3>2, <3>4, <4>1 DEF Extended
    <3>5. CASE Added(t, g)
      BY <3>5, FS_Singleton DEF Added
    <3>6. QED
      BY <1>2, <2>2, <3>3, <3>4, <3>5, GameStep
  <2>3. QED
    BY <2>1, <2>2 DEF CountInv, CountMatchesFiles
<1>3. QED
  BY <1>1, <1>2 DEF Next, Step

\* The reliability count shown for a game is exact in every committed state.
THEOREM CountIsExact == Spec => []CountMatchesFiles
<1>1. Init => CountInv
  BY FS_EmptySet DEF Init, CountInv, CountMatchesFiles
<1>2. CountInv => CountMatchesFiles
  BY DEF CountInv
<1>3. QED
  BY <1>1, <1>2, CountKept, AlwaysInv, PTL DEF Spec

LEMMA PlayerKept ==
  ASSUME Inv, SomePlayerUploaded, [Next]_vars
  PROVE  SomePlayerUploaded'
<1>1. CASE ServerStops \/ UNCHANGED vars
  BY <1>1, OutsideSteps DEF SomePlayerUploaded, FilesOf
<1>2. ASSUME NEW t \in Requests, Step(t), NEW g \in Games, games'[g] # NoGame
      PROVE  \E f \in FilesOf(games[g].id)' : IsPlayer(f.uploader, g)
  <2>1. CASE Kept(g)
    BY <2>1 DEF Kept, SomePlayerUploaded
  <2>2. CASE Extended(t, g)
    BY <2>2 DEF Extended, SomePlayerUploaded
  <2>3. CASE CommitNew(t) /\ Added(t, g)
    <3>1. IsPlayer(Uploader(t), Game(t))
      BY <2>3 DEF CommitNew, At, Creating, Inv, IngestInv, RequestInv, CreatorProtected
    <3>2. NewFile(t).uploader = Uploader(t) /\ NewFile(t) \in FilesOf(games[g].id)' /\ g = Game(t)
      BY <2>3 DEF Added, NewFile
    <3>3. QED
      BY <3>1, <3>2
  <2>4. QED
    BY <1>2, <2>1, <2>2, <2>3, GameStep
<1>3. QED
  BY <1>1, <1>2 DEF Next, Step, SomePlayerUploaded

\* The participation check guards the first contribution only, and that is enough.
THEOREM PlayedByContributor == Spec => []SomePlayerUploaded
<1>1. Init => SomePlayerUploaded
  BY DEF Init, SomePlayerUploaded
<1>2. QED
  BY <1>1, PlayerKept, AlwaysInv, PTL DEF Spec

LEMMA UsersKept ==
  ASSUME Inv, PlayersAreUsers, [Next]_vars
  PROVE  PlayersAreUsers'
<1>1. CASE ServerStops \/ UNCHANGED vars
  BY <1>1, OutsideSteps DEF PlayersAreUsers
<1>2. ASSUME NEW t \in Requests, Step(t) PROVE PlayersAreUsers'
  <2> USE DEF Inv, IngestInv
  <2>1. users \subseteq users'
    BY <1>2, StepCommits DEF Quiet, CommitAdd, CommitNew, CommitDelete
  <2>2. CASE Quiet
    BY <2>1, <2>2 DEF Quiet, PlayersAreUsers
  <2>3. CASE CommitAdd(t)
    <3>1. Uploader(t) \in users /\ files' = files \cup {NewFile(t)}
      BY <2>3 DEF CommitAdd, At, RequestInv, NamesKnown, Adding
    <3>2. NewFile(t).uploader = Uploader(t)
      BY DEF NewFile
    <3>3. \A g \in Games : games'[g] # NoGame => games[g] # NoGame
      BY <2>3, AddIds DEF Recorded
    <3>4. QED
      BY <2>1, <3>1, <3>2, <3>3 DEF PlayersAreUsers
  <2>4. CASE CommitNew(t)
    <3>1. /\ Uploader(t) \in users /\ files' = files \cup {NewFile(t)}
          /\ users' = users \cup {u \in Users : UserKey(u) \in locks[t]}
          /\ idx[t] > Len(Players[Game(t)])
          /\ \A i \in DOMAIN Players[Game(t)] : i < idx[t] => Visible(t, Players[Game(t)][i])
      BY <2>4 DEF CommitNew, At, RequestInv, NamesKnown, Creating
    <3>2. NewFile(t).uploader = Uploader(t)
      BY DEF NewFile
    <3>3. Players[Game(t)] \in Seq(Users) /\ idx[t] \in Nat
      BY <2>4, NewIds, IngestAssumption DEF TypeOK
    <3>4. \A i \in DOMAIN Players[Game(t)] : Visible(t, Players[Game(t)][i])
      BY <3>1, <3>3
    <3>5. \A u \in Users : IsPlayer(u, Game(t)) => u \in users'
      BY <3>1, <3>4 DEF IsPlayer, Visible
    <3>6. \A g \in Games \ {Game(t)} : games'[g] = games[g]
      BY <2>4, NewIds
    <3>7. QED
      BY <2>1, <3>1, <3>2, <3>5, <3>6 DEF PlayersAreUsers
  <2>5. CASE CommitDelete(t)
    <3>1. files' \subseteq files /\ \A g \in Games : games'[g] # NoGame => games[g] # NoGame
      BY <2>5, DeleteIds
    <3>2. QED
      BY <2>1, <3>1 DEF PlayersAreUsers
  <2>6. QED
    BY <1>2, <2>2, <2>3, <2>4, <2>5, StepCommits
<1>3. QED
  BY <1>1, <1>2 DEF Next, Step

\* ensureUsers reads under READ COMMITTED and never refers to a user whose
\* insert is later rolled back.
THEOREM NamesAreRows == Spec => []PlayersAreUsers
<1>1. Init => PlayersAreUsers
  BY DEF Init, PlayersAreUsers
<1>2. QED
  BY <1>1, UsersKept, AlwaysInv, PTL DEF Spec

(***************************************************************************)
(* What readers see: ReplayArchive.                                        *)
(***************************************************************************)

Contributors(g) == IF games[g] = NoGame THEN {} ELSE {f.uploader : f \in FilesOf(games[g].id)}

Reliability(g) == IF games[g] = NoGame THEN 0 ELSE games[g].uploads

\* A step shows readers one more contribution, or one game less, or nothing new.
LEMMA GameSeen ==
  ASSUME Inv, NEW t \in Requests, Step(t), NEW g \in Games
  PROVE  \/ Contributors(g)' = Contributors(g) /\ Reliability(g)' = Reliability(g)
         \/ /\ g = Game(t) /\ Uploader(t) \in Users /\ Uploader(t) \notin Contributors(g)
            /\ Contributors(g)' = Contributors(g) \cup {Uploader(t)}
            /\ Reliability(g)' = Reliability(g) + 1
         \/ g = Game(t) /\ Contributors(g)' = {} /\ Reliability(g)' = 0
<1>1. CASE games'[g] = NoGame
  <2>1. games[g] = NoGame \/ g = Game(t)
    BY <1>1, StepCommits, AddIds, NewIds, DeleteIds DEF Quiet, Inv, IngestInv
  <2>2. QED
    BY <1>1, <2>1 DEF Contributors, Reliability
<1>2. CASE games'[g] # NoGame
  <2>1. CASE Kept(g)
    BY <1>2, <2>1 DEF Kept, Contributors, Reliability
  <2>2. CASE CommitAdd(t) \/ CommitNew(t)
    <3>1. pc[t] # "idle"
      BY <2>2 DEF CommitAdd, CommitNew, At
    <3>2. /\ Uploader(t) \in Users /\ NewFile(t) = [game |-> target[t], uploader |-> Uploader(t)]
          /\ files \subseteq [game: Nat, uploader: Users]
      BY <3>1, RequestTyped DEF Inv, IngestInv, TypeOK, NewFile
    <3>3. CASE CommitAdd(t) /\ Extended(t, g)
      <4>1. games[g].id = target[t]
        BY <3>3, AddIds DEF Extended, Recorded, Inv, IngestInv
      <4>2. Uploader(t) \notin Contributors(g)
        <5> SUFFICES ASSUME NEW f \in FilesOf(games[g].id), f.uploader = Uploader(t) PROVE FALSE
          BY <3>3 DEF Contributors, Extended
        <5>1. f \in [game: Nat, uploader: Users] /\ f.game = target[t]
          BY <3>2, <4>1 DEF FilesOf
        <5>2. f = NewFile(t)
          BY <3>2, <5>1
        <5>3. QED
          BY <3>3, <5>2 DEF Extended
      <4>3. Contributors(g)' = Contributors(g) \cup {Uploader(t)}
        BY <1>2, <3>2, <3>3 DEF Contributors, Extended
      <4>4. Reliability(g)' = Reliability(g) + 1
        BY <1>2, <3>3 DEF Reliability, Extended
      <4>5. QED
        BY <3>2, <3>3, <4>2, <4>3, <4>4 DEF Extended
    <3>4. CASE Added(t, g)
      <4>1. Contributors(g)' = {Uploader(t)} /\ Contributors(g) = {}
        BY <1>2, <3>2, <3>4 DEF Contributors, Added
      <4>2. Reliability(g)' = 1 /\ Reliability(g) = 0
        BY <1>2, <3>4 DEF Reliability, Added
      <4>3. QED
        BY <3>2, <3>4, <4>1, <4>2 DEF Added
    <3>5. QED
      BY <1>2, <2>1, <3>3, <3>4, GameStep
  <2>3. QED
    BY <1>2, <2>1, <2>2, GameStep
<1>3. QED
  BY <1>1, <1>2

LEMMA ArchiveStep ==
  ASSUME Inv, [Next]_vars
  PROVE  [Archive!ArchiveNext]_(Archive!vars)
<1> DEFINE C == [g \in Games |-> Contributors(g)]
           R == [g \in Games |-> Reliability(g)]
<1>1. CASE ServerStops \/ UNCHANGED vars
  BY <1>1, OutsideSteps DEF Archive!vars, FilesOf
<1>2. ASSUME NEW t \in Requests, Step(t) PROVE [Archive!ArchiveNext]_(Archive!vars)
  <2>1. CASE \A g \in Games : Contributors(g)' = Contributors(g) /\ Reliability(g)' = Reliability(g)
    <3>1. C' = C /\ R' = R
      BY <2>1
    <3>2. QED
      BY <3>1 DEF Archive!vars, Contributors, Reliability
  <2>2. ASSUME NEW g \in Games, ~(Contributors(g)' = Contributors(g) /\ Reliability(g)' = Reliability(g))
        PROVE  Archive!ArchiveNext
    <3>1. \A h \in Games \ {g} : Contributors(h)' = Contributors(h) /\ Reliability(h)' = Reliability(h)
      BY <1>2, <2>2, GameSeen
    <3>2. CASE Contributors(g)' = {} /\ Reliability(g)' = 0
      <4>1. C' = [C EXCEPT ![g] = {}] /\ R' = [R EXCEPT ![g] = 0]
        BY <3>1, <3>2
      <4>2. Archive!Forget(g)
        BY <4>1 DEF Archive!Forget, Contributors, Reliability
      <4>3. QED
        BY <4>2 DEF Archive!ArchiveNext
    <3>3. CASE ~(Contributors(g)' = {} /\ Reliability(g)' = 0)
      <4>1. PICK u \in Users :
              /\ u \notin C[g]
              /\ Contributors(g)' = C[g] \cup {u} /\ Reliability(g)' = R[g] + 1
        BY <1>2, <2>2, <3>3, GameSeen
      <4>2. C' = [C EXCEPT ![g] = C[g] \cup {u}] /\ R' = [R EXCEPT ![g] = R[g] + 1]
        BY <3>1, <4>1
      <4>3. Archive!Contribute(g, u)
        BY <4>1, <4>2 DEF Archive!Contribute, Contributors, Reliability
      <4>4. QED
        BY <4>3 DEF Archive!ArchiveNext
    <3>4. QED
      BY <3>2, <3>3
  <2>3. QED
    BY <2>1, <2>2
<1>3. QED
  BY <1>1, <1>2 DEF Next, Step

\* Requests, transactions and aborts together implement ReplayArchive.
THEOREM IngestImplementsArchive == Spec => RefinesArchive
<1>1. Init => Archive!ArchiveInit
  BY DEF Init, Archive!ArchiveInit
<1>2. Inv /\ [Next]_vars => [Archive!ArchiveNext]_(Archive!vars)
  BY ArchiveStep
<1>3. QED
  BY <1>1, <1>2, AlwaysInv, PTL DEF Spec, RefinesArchive, Archive!ArchiveSpec
=============================================================================
