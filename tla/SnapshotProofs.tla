----------------------------- MODULE SnapshotProofs -----------------------------
(***************************************************************************)
(* Proofs about SnapshotJob, for every set of jobs, plans, readers and     *)
(* contents.                                                               *)
(***************************************************************************)
EXTENDS SnapshotJob, TLAPS

Inv == TypeOK /\ BuildInv

(***************************************************************************)
(* Plans and rows.                                                         *)
(***************************************************************************)

LEMMA PlanFacts ==
  ASSUME TypeOK, NEW j \in Jobs
  PROVE  /\ Plan[j] \in Seq(Stages) /\ Len(Plan[j]) \in Nat /\ 1 <= Len(Plan[j])
         /\ stage[j] \in 1 .. Len(Plan[j]) /\ 1 \in 1 .. Len(Plan[j])
         /\ Target(j) \in Stages
<1>1. /\ Plan[j] \in Seq(Stages) /\ Plan[j] # <<>>
  BY SnapshotAssumption
<1>2. Len(Plan[j]) \in Nat /\ 1 <= Len(Plan[j])
  BY <1>1
<1>3. stage[j] \in 1 .. Len(Plan[j])
  BY <1>2 DEF TypeOK
<1>4. QED
  BY <1>1, <1>2, <1>3 DEF Target

LEMMA RowFacts ==
  ASSUME NEW t \in Tables, NEW v \in 0 .. MaxVersion
  PROVE  RowsOf(t, v) \subseteq Row
<1>1. Content[t][v] \subseteq Keys
  BY SnapshotAssumption
<1>2. QED
  BY <1>1 DEF RowsOf, Row

\* Two jobs with an open, locked transaction work on different stages.
LEMMA Exclusive ==
  ASSUME LocksHeld, NEW i \in Jobs, NEW j \in Jobs, Locked(i), Locked(j),
         Target(i) = Target(j)
  PROVE  i = j
BY DEF LocksHeld

(***************************************************************************)
(* The end of a transaction.                                               *)
(***************************************************************************)

\* Job j's run is between transactions afterwards.
Between(j) ==
  \E p \in {"idle", "begun"} : \E n \in 1 .. Len(Plan[j]) :
     at' = [at EXCEPT ![j] = p] /\ stage' = [stage EXCEPT ![j] = n]

LEMMA RunsOn ==
  ASSUME TypeOK, NEW j \in Jobs, Proceed(j) \/ EndRun(j)
  PROVE  Between(j)
<1>1. 1 \in 1 .. Len(Plan[j]) /\ stage[j] \in 1 .. Len(Plan[j]) /\ Len(Plan[j]) \in Nat
  BY PlanFacts
<1>2. CASE EndRun(j)
  BY <1>1, <1>2 DEF EndRun, Between
<1>3. CASE Proceed(j) /\ stage[j] < Len(Plan[j])
  <2>1. stage[j] + 1 \in 1 .. Len(Plan[j])
    BY <1>1, <1>3
  <2>2. stage' = [stage EXCEPT ![j] = stage[j] + 1] /\ at' = [at EXCEPT ![j] = "begun"]
    BY <1>3 DEF Proceed
  <2>3. QED
    BY <2>1, <2>2 DEF Between
<1>4. CASE Proceed(j) /\ ~(stage[j] < Len(Plan[j]))
  BY <1>1, <1>4 DEF Proceed, Between
<1>5. QED
  BY <1>2, <1>3, <1>4

\* What the other jobs own is not touched.
Untouched(i) ==
  /\ at'[i] = at[i] /\ stage'[i] = stage[i] /\ read'[i] = read[i]
  /\ seen'[i] = seen[i] /\ deleted'[i] = deleted[i] /\ inserted'[i] = inserted[i]

LEMMA Ends ==
  ASSUME Inv, NEW j \in Jobs, Between(j), Cleared(j), lock' = Release(j)
  PROVE  /\ at' \in [Jobs -> Phases] /\ stage' \in [Jobs -> Nat \ {0}]
         /\ \A i \in Jobs : stage'[i] <= Len(Plan[i])
         /\ lock' \in [Stages -> Jobs \cup {Free}]
         /\ read' \in [Jobs -> Nat] /\ seen' \in [Jobs -> SUBSET Row]
         /\ deleted' \in [Jobs -> SUBSET Row] /\ inserted' \in [Jobs -> SUBSET Row]
         /\ \A i \in Jobs \ {j} : Untouched(i)
         /\ at'[j] \in {"idle", "begun"} /\ deleted'[j] = {} /\ inserted'[j] = {}
         /\ LocksHeld'
<1>1. PICK p \in {"idle", "begun"}, n \in 1 .. Len(Plan[j]) :
        at' = [at EXCEPT ![j] = p] /\ stage' = [stage EXCEPT ![j] = n]
  BY DEF Between
<1>2. Len(Plan[j]) \in Nat
  BY PlanFacts DEF Inv
<1>3. at' \in [Jobs -> Phases] /\ stage' \in [Jobs -> Nat \ {0}]
  BY <1>1, <1>2 DEF Inv, TypeOK, Phases
<1>4. \A i \in Jobs : stage'[i] <= Len(Plan[i])
  BY <1>1, <1>2 DEF Inv, TypeOK
<1>5. lock' \in [Stages -> Jobs \cup {Free}]
  BY DEF Inv, TypeOK, Release
<1>6. /\ read' \in [Jobs -> Nat] /\ seen' \in [Jobs -> SUBSET Row]
      /\ deleted' \in [Jobs -> SUBSET Row] /\ inserted' \in [Jobs -> SUBSET Row]
      /\ deleted'[j] = {} /\ inserted'[j] = {}
  BY DEF Inv, TypeOK, Cleared
<1>7. \A i \in Jobs \ {j} : Untouched(i)
  BY <1>1 DEF Untouched, Inv, TypeOK, Cleared
<1>8. at'[j] \in {"idle", "begun"}
  BY <1>1 DEF Inv, TypeOK
<1>9. LocksHeld'
  <2>1. \A i \in Jobs : Locked(i)' => i # j /\ Locked(i) /\ Target(i)' = Target(i)
    BY <1>7, <1>8 DEF Locked, Target, Untouched
  <2>2. ASSUME NEW i \in Jobs, Locked(i)'
        PROVE  lock'[Target(i)'] = i
    <3>1. lock[Target(i)] = i /\ i # j /\ Target(i)' = Target(i)
      BY <2>1, <2>2 DEF Inv, BuildInv, LocksHeld
    <3>2. Target(i) \in Stages
      BY PlanFacts DEF Inv
    <3>3. QED
      BY <3>1, <3>2 DEF Release
  <2>3. ASSUME NEW s \in Stages, NEW i \in Jobs, lock'[s] = i
        PROVE  Locked(i)' /\ Target(i)' = s
    <3>1. lock[s] = i /\ i # j
      BY <2>3, SnapshotAssumption DEF Release
    <3>2. Locked(i) /\ Target(i) = s
      BY <3>1 DEF Inv, BuildInv, LocksHeld
    <3>3. QED
      BY <3>1, <3>2, <1>7 DEF Locked, Target, Untouched
  <2>4. QED
    BY <2>2, <2>3 DEF LocksHeld
<1>10. QED
  BY <1>3, <1>4, <1>5, <1>6, <1>7, <1>8, <1>9

(***************************************************************************)
(* Frames: what a step leaves alone stays known.                           *)
(***************************************************************************)

LEMMA OthersKnow ==
  ASSUME Inv, NEW i \in Jobs, Untouched(i), source' \in Nat, source <= source',
         at[i] \in {"computed", "deleting", "inserting"} =>
           /\ table'[Target(i)] = table[Target(i)]
           /\ published'[Target(i)] = published[Target(i)]
  PROVE  KnowsTheTable(i)'
<1>1. KnowsTheTable(i)
  BY DEF Inv, BuildInv
<1>2. Target(i)' = Target(i)
  BY DEF Target, Untouched
<1>3. source \in Nat /\ published \in [Tables -> Nat] /\ read \in [Jobs -> Nat]
  BY SnapshotAssumption DEF Inv, TypeOK
<1>4. ASSUME at'[i] \in {"computed", "deleting", "inserting"}
      PROVE  Target(i)' \in Tables /\ read'[i] \in published'[Target(i)'] .. source'
  <2>1. at[i] \in {"computed", "deleting", "inserting"}
    BY <1>4 DEF Untouched
  <2>2. /\ Target(i) \in Tables /\ read[i] \in published[Target(i)] .. source
        /\ published'[Target(i)] = published[Target(i)]
    BY <2>1, <1>1 DEF KnowsTheTable
  <2>3. QED
    BY <2>2, <1>2, <1>3 DEF Untouched
<1>5. at'[i] = "deleting" => seen'[i] = table'[Target(i)']
  BY <1>1, <1>2 DEF KnowsTheTable, Untouched
<1>6. at'[i] = "inserting" =>
        deleted'[i] = table'[Target(i)'] /\ inserted'[i] \subseteq RowsOf(Target(i)', read'[i])
  BY <1>1, <1>2 DEF KnowsTheTable, Untouched
<1>7. at'[i] # "inserting" => deleted'[i] = {} /\ inserted'[i] = {}
  BY <1>1 DEF KnowsTheTable, Untouched
<1>8. QED
  BY <1>4, <1>5, <1>6, <1>7 DEF KnowsTheTable

LEMMA ViewsStay ==
  ASSUME Inv, UNCHANGED readVars, published' \in [Tables -> Nat],
         \A t \in Tables : published[t] <= published'[t]
  PROVE  ViewsAreBuilds'
<1> SUFFICES ASSUME NEW r \in Readers, NEW k \in DOMAIN views[r]
             PROVE  /\ listing[r] \in Tables
                    /\ \A i \in 1 .. k :
                         \E w \in 0 .. published'[listing[r]] : \E v \in 0 .. w :
                            /\ views[r][i] = RowsOf(listing[r], v)
                            /\ views[r][k] = RowsOf(listing[r], w)
  BY DEF ViewsAreBuilds, readVars
<1>1. listing[r] \in Tables
  BY DEF Inv, BuildInv, ViewsAreBuilds
<1>2. published[listing[r]] \in Nat /\ published'[listing[r]] \in Nat
      /\ published[listing[r]] <= published'[listing[r]]
  BY <1>1 DEF Inv, TypeOK
<1>3. ASSUME NEW i \in 1 .. k
      PROVE  \E w \in 0 .. published'[listing[r]] : \E v \in 0 .. w :
                /\ views[r][i] = RowsOf(listing[r], v)
                /\ views[r][k] = RowsOf(listing[r], w)
  <2>1. PICK w \in 0 .. published[listing[r]] : \E v \in 0 .. w :
           views[r][i] = RowsOf(listing[r], v) /\ views[r][k] = RowsOf(listing[r], w)
    BY DEF Inv, BuildInv, ViewsAreBuilds
  <2>2. w \in 0 .. published'[listing[r]]
    BY <1>2
  <2>3. QED
    BY <2>1, <2>2
<1>4. QED
  BY <1>1, <1>3

(***************************************************************************)
(* Steps inside a run: only the job moves.                                 *)
(***************************************************************************)

\* Everything a step inside a transaction leaves to the other jobs and readers.
Inside(j) ==
  /\ UNCHANGED <<source, table, published, stage, listing, views, faults>>
  /\ \A i \in Jobs \ {j} : Untouched(i)

LEMMA InsideKeeps ==
  ASSUME Inv, NEW j \in Jobs, Inside(j), TypeOK', LocksHeld', KnowsTheTable(j)'
  PROVE  Inv'
<1>1. source \in Nat /\ published \in [Tables -> Nat]
  BY SnapshotAssumption DEF Inv, TypeOK
<1>2. \A i \in Jobs : KnowsTheTable(i)'
  <2> SUFFICES ASSUME NEW i \in Jobs, i # j
               PROVE  KnowsTheTable(i)'
    OBVIOUS
  <2>1. Untouched(i) /\ source' = source /\ table' = table /\ published' = published
    BY DEF Inside
  <2>2. source' \in Nat /\ source <= source'
    BY <1>1, <2>1
  <2>3. QED
    BY <2>1, <2>2, OthersKnow
<1>3. ViewsAreBuilds'
  <2>1. published' = published /\ UNCHANGED readVars
    BY DEF Inside, readVars
  <2>2. \A t \in Tables : published[t] <= published'[t]
    BY <1>1, <2>1
  <2>3. QED
    BY <1>1, <2>1, <2>2, ViewsStay
<1>4. WholeSnapshots' /\ \A t \in Tables : published'[t] <= source'
  BY DEF Inside, Inv, BuildInv, WholeSnapshots
<1>5. QED
  BY <1>2, <1>3, <1>4 DEF Inv, BuildInv

LEMMA StartKeeps ==
  ASSUME Inv, NEW j \in Jobs, Start(j)
  PROVE  Inv'
<1>1. TypeOK'
  BY DEF Inv, TypeOK, Start, Phases
<1>2. Inside(j)
  BY DEF Inv, TypeOK, Start, Inside, Untouched
<1>3. at'[j] = "begun" /\ \A i \in Jobs : Locked(i)' = Locked(i) /\ Target(i)' = Target(i)
  BY DEF Inv, TypeOK, Start, Locked, Target
<1>4. LocksHeld'
  BY <1>3 DEF Inv, BuildInv, LocksHeld, Start
<1>5. KnowsTheTable(j)'
  BY <1>3 DEF KnowsTheTable, Start, Inv, BuildInv
<1>6. QED
  BY <1>1, <1>2, <1>4, <1>5, InsideKeeps

LEMMA TakeLockKeeps ==
  ASSUME Inv, NEW j \in Jobs, TakeLock(j)
  PROVE  Inv'
<1>1. Target(j) \in Stages
  BY PlanFacts DEF Inv
<1>2. TypeOK'
  BY <1>1 DEF Inv, TypeOK, TakeLock, Phases
<1>3. Inside(j)
  BY DEF Inv, TypeOK, TakeLock, Inside, Untouched
<1>4. \A i \in Jobs : Target(i)' = Target(i)
  BY DEF TakeLock, Target
<1>5. at'[j] = "locked" /\ Locked(j)' /\ \A i \in Jobs \ {j} : Locked(i)' = Locked(i)
  BY DEF Inv, TypeOK, TakeLock, Locked
<1>6. /\ lock'[Target(j)] = j
      /\ \A s \in Stages \ {Target(j)} : lock'[s] = lock[s]
      /\ lock[Target(j)] = Free /\ ~Locked(j)
  BY <1>1 DEF Inv, TypeOK, TakeLock, LockFree, Locked
<1>7. LocksHeld'
  <2>1. ASSUME NEW i \in Jobs, Locked(i)'
        PROVE  lock'[Target(i)'] = i
    <3>1. CASE i = j
      BY <3>1, <1>4, <1>6
    <3>2. CASE i # j
      <4>1. lock[Target(i)] = i /\ Target(i) \in Stages
        BY <3>2, <2>1, <1>5, PlanFacts DEF Inv, BuildInv, LocksHeld
      <4>2. Target(i) # Target(j)
        BY <4>1, <1>6, SnapshotAssumption
      <4>3. QED
        BY <4>1, <4>2, <1>4, <1>6
    <3>3. QED
      BY <3>1, <3>2
  <2>2. ASSUME NEW s \in Stages, NEW i \in Jobs, lock'[s] = i
        PROVE  Locked(i)' /\ Target(i)' = s
    <3>1. CASE s = Target(j)
      BY <3>1, <2>2, <1>4, <1>5, <1>6
    <3>2. CASE s # Target(j)
      <4>1. Locked(i) /\ Target(i) = s
        BY <3>2, <2>2, <1>6 DEF Inv, BuildInv, LocksHeld
      <4>2. QED
        BY <4>1, <1>4, <1>5, <1>6
    <3>3. QED
      BY <3>1, <3>2
  <2>3. QED
    BY <2>1, <2>2 DEF LocksHeld
<1>8. KnowsTheTable(j)'
  BY <1>5, <1>6 DEF KnowsTheTable, TakeLock, Inv, BuildInv
<1>9. QED
  BY <1>2, <1>3, <1>7, <1>8, InsideKeeps

\* Steps under the lock change neither the locks nor any job's target.
LEMMA LocksStay ==
  ASSUME Inv, NEW j \in Jobs, Locked(j), at'[j] \notin {"idle", "begun"},
         lock' = lock, stage' = stage, \A i \in Jobs \ {j} : Untouched(i)
  PROVE  LocksHeld'
<1>1. \A i \in Jobs : Target(i)' = Target(i)
  BY DEF Target
<1>2. \A i \in Jobs : Locked(i)' = Locked(i)
  BY DEF Locked, Untouched
<1>3. QED
  BY <1>1, <1>2 DEF Inv, BuildInv, LocksHeld

LEMMA AggregateKeeps ==
  ASSUME Inv, NEW j \in Jobs, Aggregate(j)
  PROVE  Inv'
<1>1. source \in Nat /\ published[Target(j)] <= source /\ published[Target(j)] \in Nat
  BY SnapshotAssumption DEF Inv, TypeOK, BuildInv, Aggregate
<1>2. TypeOK'
  BY <1>1 DEF Inv, TypeOK, Aggregate, Visible, Phases
<1>3. Inside(j) /\ at'[j] = "computed" /\ Locked(j)
  BY DEF Inv, TypeOK, Aggregate, Inside, Untouched, Locked
<1>4. LocksHeld'
  BY <1>3, LocksStay DEF Aggregate, Inside
<1>5. KnowsTheTable(j)'
  <2>1. Target(j)' = Target(j) /\ Target(j) \in Tables
    BY DEF Aggregate, Target
  <2>2. read'[j] = source /\ source' = source /\ published' = published
    BY DEF Inv, TypeOK, Aggregate, Visible
  <2>3. deleted'[j] = {} /\ inserted'[j] = {}
    BY DEF Aggregate, Inv, BuildInv, KnowsTheTable
  <2>4. QED
    BY <1>1, <1>3, <2>1, <2>2, <2>3 DEF KnowsTheTable
<1>6. QED
  BY <1>2, <1>3, <1>4, <1>5, InsideKeeps

LEMMA BeginDeleteKeeps ==
  ASSUME Inv, NEW j \in Jobs, BeginDelete(j)
  PROVE  Inv'
<1>1. KnowsTheTable(j) /\ Target(j) \in Tables
  BY DEF Inv, BuildInv, KnowsTheTable, BeginDelete
<1>2. TypeOK'
  BY <1>1 DEF Inv, TypeOK, BeginDelete, Phases
<1>3. Inside(j) /\ at'[j] = "deleting" /\ Locked(j)
  BY DEF Inv, TypeOK, BeginDelete, Inside, Untouched, Locked
<1>4. LocksHeld'
  BY <1>3, LocksStay DEF BeginDelete, Inside
<1>5. KnowsTheTable(j)'
  <2>1. Target(j)' = Target(j) /\ seen'[j] = table[Target(j)]
    BY DEF BeginDelete, Target, Inv, TypeOK
  <2>2. QED
    BY <1>1, <1>3, <2>1 DEF KnowsTheTable, BeginDelete
<1>6. QED
  BY <1>2, <1>3, <1>4, <1>5, InsideKeeps

LEMMA EndDeleteKeeps ==
  ASSUME Inv, NEW j \in Jobs, EndDelete(j)
  PROVE  Inv'
<1>1. KnowsTheTable(j) /\ Target(j) \in Tables /\ seen[j] = table[Target(j)]
  BY DEF Inv, BuildInv, KnowsTheTable, EndDelete
<1>2. deleted' = [deleted EXCEPT ![j] = table[Target(j)]]
  BY <1>1 DEF EndDelete
<1>3. TypeOK'
  BY <1>1, <1>2 DEF Inv, TypeOK, EndDelete, Phases
<1>4. Inside(j) /\ at'[j] = "inserting" /\ Locked(j)
  BY DEF Inv, TypeOK, EndDelete, Inside, Untouched, Locked
<1>5. LocksHeld'
  BY <1>4, LocksStay DEF EndDelete, Inside
<1>6. KnowsTheTable(j)'
  <2>1. Target(j)' = Target(j) /\ deleted'[j] = table[Target(j)]
    BY <1>2 DEF EndDelete, Target, Inv, TypeOK
  <2>2. inserted'[j] = {}
    BY <1>1 DEF KnowsTheTable, EndDelete
  <2>3. QED
    BY <1>1, <1>4, <2>1, <2>2 DEF KnowsTheTable, EndDelete
<1>7. QED
  BY <1>3, <1>4, <1>5, <1>6, InsideKeeps

LEMMA InsertKeeps ==
  ASSUME Inv, NEW j \in Jobs, Insert(j)
  PROVE  Inv'
<1>1. /\ KnowsTheTable(j) /\ Target(j) \in Tables /\ deleted[j] = table[Target(j)]
      /\ inserted[j] \subseteq RowsOf(Target(j), read[j])
      /\ read[j] \in published[Target(j)] .. source
  BY DEF Inv, BuildInv, KnowsTheTable, Insert
<1>2. PICK x \in RowsOf(Target(j), read[j]) : inserted' = [inserted EXCEPT ![j] = @ \cup {x}]
  BY DEF Insert
<1>3. read[j] \in 0 .. MaxVersion
  BY <1>1, SnapshotAssumption DEF Inv, TypeOK
<1>4. x \in Row
  BY <1>1, <1>2, <1>3, RowFacts
<1>5. TypeOK'
  BY <1>2, <1>4 DEF Inv, TypeOK, Insert, Phases
<1>6. Inside(j) /\ at' = at /\ at[j] = "inserting" /\ Locked(j)
  BY <1>2 DEF Inv, TypeOK, Insert, Inside, Untouched, Locked
<1>7. LocksHeld'
  BY <1>6, LocksStay DEF Insert, Inside
<1>8. KnowsTheTable(j)'
  <2>1. Target(j)' = Target(j) /\ read' = read /\ deleted' = deleted
    BY DEF Insert, Target
  <2>2. inserted'[j] = inserted[j] \cup {x}
    BY <1>2 DEF Inv, TypeOK
  <2>3. inserted'[j] \subseteq RowsOf(Target(j), read[j])
    BY <1>1, <1>2, <2>2
  <2>4. /\ RowsOf(Target(j), read[j])' = RowsOf(Target(j), read[j])
        /\ source' = source /\ published' = published /\ table' = table
    BY <2>1 DEF Insert, RowsOf
  <2>5. QED
    BY <1>1, <1>6, <2>1, <2>3, <2>4 DEF KnowsTheTable
<1>9. QED
  BY <1>5, <1>6, <1>7, <1>8, InsideKeeps

LEMMA UpdateKeeps ==
  ASSUME Inv, NEW j \in Jobs, UpdateShortGames(j)
  PROVE  Inv'
<1>1. TypeOK'
  BY DEF Inv, TypeOK, UpdateShortGames, Phases
<1>2. Inside(j) /\ at'[j] = "updated" /\ Locked(j)
  BY DEF Inv, TypeOK, UpdateShortGames, Inside, Untouched, Locked
<1>3. LocksHeld'
  BY <1>2, LocksStay DEF UpdateShortGames, Inside
<1>4. KnowsTheTable(j)'
  BY <1>2 DEF KnowsTheTable, UpdateShortGames, Inv, BuildInv
<1>5. QED
  BY <1>1, <1>2, <1>3, <1>4, InsideKeeps

(***************************************************************************)
(* Steps that end a transaction.                                           *)
(***************************************************************************)

\* A rollback, with whatever the job does next.
LEMMA RollbackKeeps ==
  ASSUME Inv, NEW j \in Jobs, Proceed(j) \/ EndRun(j), Rollback(j),
         UNCHANGED readVars, faults' \in 0 .. MaxFaults
  PROVE  Inv'
<1>1. Between(j) /\ Cleared(j) /\ lock' = Release(j)
  BY RunsOn DEF Rollback, Inv
<1>2. source' = source /\ table' = table /\ published' = published
  BY DEF Rollback
<1>3. source \in Nat /\ published \in [Tables -> Nat]
  BY SnapshotAssumption DEF Inv, TypeOK
<1>4. TypeOK'
  BY <1>1, <1>2, Ends DEF Inv, TypeOK, readVars
<1>5. LocksHeld' /\ \A i \in Jobs \ {j} : Untouched(i)
  BY <1>1, Ends
<1>6. \A i \in Jobs : KnowsTheTable(i)'
  <2>1. KnowsTheTable(j)'
    BY <1>1, Ends DEF KnowsTheTable
  <2>2. ASSUME NEW i \in Jobs, i # j
        PROVE  KnowsTheTable(i)'
    <3>1. Untouched(i) /\ source' \in Nat /\ source <= source'
      BY <1>2, <1>3, <1>5, <2>2
    <3>2. QED
      BY <1>2, <3>1, OthersKnow
  <2>3. QED
    BY <2>1, <2>2
<1>7. ViewsAreBuilds'
  <2>1. \A t \in Tables : published[t] <= published'[t]
    BY <1>2, <1>3
  <2>2. QED
    BY <1>2, <1>3, <2>1, ViewsStay
<1>8. WholeSnapshots' /\ \A t \in Tables : published'[t] <= source'
  BY <1>2 DEF Inv, BuildInv, WholeSnapshots
<1>9. QED
  BY <1>4, <1>5, <1>6, <1>7, <1>8 DEF Inv, BuildInv

\* What a commit of a build does to the tables.
LEMMA PublishedRows ==
  ASSUME Inv, NEW j \in Jobs, CommitSnapshot(j)
  PROVE  /\ Target(j) \in Tables /\ read[j] \in published[Target(j)] .. source
         /\ read[j] \in 0 .. MaxVersion
         /\ table' = [table EXCEPT ![Target(j)] = RowsOf(Target(j), read[j])]
         /\ published' = [published EXCEPT ![Target(j)] = read[j]]
<1>1. /\ Target(j) \in Tables /\ deleted[j] = table[Target(j)]
      /\ read[j] \in published[Target(j)] .. source
  BY DEF Inv, BuildInv, KnowsTheTable, CommitSnapshot
<1>2. Survivors(j) \cup inserted[j] = RowsOf(Target(j), read[j])
  BY <1>1 DEF Survivors, AllInserted, CommitSnapshot
<1>3. read[j] \in 0 .. MaxVersion
  BY <1>1, SnapshotAssumption DEF Inv, TypeOK
<1>4. QED
  BY <1>1, <1>2, <1>3 DEF CommitSnapshot

LEMMA CommitKeeps ==
  ASSUME Inv, NEW j \in Jobs, CommitSnapshot(j)
  PROVE  Inv' /\ \A t \in Tables : published[t] <= published'[t]
<1>1. Between(j) /\ Cleared(j) /\ lock' = Release(j)
  BY RunsOn DEF CommitSnapshot, Inv
<1>2. /\ Target(j) \in Tables /\ read[j] \in published[Target(j)] .. source
      /\ read[j] \in 0 .. MaxVersion
      /\ table' = [table EXCEPT ![Target(j)] = RowsOf(Target(j), read[j])]
      /\ published' = [published EXCEPT ![Target(j)] = read[j]]
  BY PublishedRows
<1>3. source \in Nat /\ published \in [Tables -> Nat] /\ MaxVersion \in Nat
      /\ table \in [Tables -> SUBSET Row]
  BY SnapshotAssumption DEF Inv, TypeOK
<1>4. RowsOf(Target(j), read[j]) \subseteq Row
  BY <1>2, RowFacts
<1>5. published' \in [Tables -> Nat] /\ table' \in [Tables -> SUBSET Row]
  BY <1>2, <1>3, <1>4
<1>6. TypeOK'
  BY <1>1, <1>5, Ends DEF Inv, TypeOK, CommitSnapshot
<1>7. LocksHeld' /\ \A i \in Jobs \ {j} : Untouched(i)
  BY <1>1, Ends
<1>8. \A t \in Tables : published[t] <= published'[t]
  BY <1>2, <1>3
<1>9. \A i \in Jobs : KnowsTheTable(i)'
  <2>1. KnowsTheTable(j)'
    BY <1>1, Ends DEF KnowsTheTable
  <2>2. ASSUME NEW i \in Jobs, i # j
        PROVE  KnowsTheTable(i)'
    <3>1. Untouched(i) /\ source' \in Nat /\ source <= source'
      BY <1>3, <1>7, <2>2 DEF CommitSnapshot
    <3>2. ASSUME at[i] \in {"computed", "deleting", "inserting"}
          PROVE  /\ table'[Target(i)] = table[Target(i)]
                 /\ published'[Target(i)] = published[Target(i)]
      <4>1. Locked(i) /\ Locked(j) /\ LocksHeld
        BY <3>2 DEF Locked, Inv, BuildInv, CommitSnapshot
      <4>2. Target(i) # Target(j)
        BY <4>1, <2>2, Exclusive
      <4>3. Target(i) \in Tables
        BY <3>2 DEF Inv, BuildInv, KnowsTheTable
      <4>4. QED
        BY <4>2, <4>3, <1>2, <1>3
    <3>3. QED
      BY <3>1, <3>2, OthersKnow
  <2>3. QED
    BY <2>1, <2>2
<1>10. ViewsAreBuilds'
  BY <1>5, <1>8, ViewsStay DEF readVars, CommitSnapshot
<1>11. WholeSnapshots'
  <2>1. ASSUME NEW t \in Tables
        PROVE  table'[t] = RowsOf(t, published'[t])
    <3>1. CASE t = Target(j)
      BY <3>1, <1>2, <1>3
    <3>2. CASE t # Target(j)
      BY <3>2, <1>2, <1>3 DEF Inv, BuildInv, WholeSnapshots
    <3>3. QED
      BY <3>1, <3>2
  <2>2. QED
    BY <2>1 DEF WholeSnapshots, RowsOf
<1>12. \A t \in Tables : published'[t] <= source'
  BY <1>2, <1>3 DEF Inv, BuildInv, CommitSnapshot
<1>13. QED
  BY <1>6, <1>7, <1>8, <1>9, <1>10, <1>11, <1>12 DEF Inv, BuildInv

(***************************************************************************)
(* Changes of the games, and requests.                                     *)
(***************************************************************************)

\* The games change, the tables do not; a run may come between transactions.
LEMMA ChangeKeeps ==
  ASSUME Inv, TypeOK', LocksHeld', source' \in {source, source + 1},
         UNCHANGED <<table, published, listing, views>>,
         \A i \in Jobs :
            Untouched(i) \/ (at'[i] \in {"idle", "begun"} /\ deleted'[i] = {} /\ inserted'[i] = {})
  PROVE  Inv'
<1>1. source \in Nat /\ source' \in Nat /\ source <= source' /\ published \in [Tables -> Nat]
  BY SnapshotAssumption DEF Inv, TypeOK
<1>2. \A i \in Jobs : KnowsTheTable(i)'
  <2> SUFFICES ASSUME NEW i \in Jobs
               PROVE  KnowsTheTable(i)'
    OBVIOUS
  <2>1. CASE Untouched(i)
    BY <1>1, <2>1, OthersKnow
  <2>2. CASE at'[i] \in {"idle", "begun"} /\ deleted'[i] = {} /\ inserted'[i] = {}
    BY <2>2 DEF KnowsTheTable
  <2>3. QED
    BY <2>1, <2>2
<1>3. ViewsAreBuilds'
  BY <1>1, ViewsStay DEF readVars
<1>4. WholeSnapshots'
  BY DEF Inv, BuildInv, WholeSnapshots
<1>5. \A t \in Tables : published'[t] <= source'
  BY <1>1 DEF Inv, BuildInv
<1>6. QED
  BY <1>2, <1>3, <1>4, <1>5 DEF Inv, BuildInv

LEMMA ChangeGamesKeeps ==
  ASSUME Inv, ChangeGames
  PROVE  Inv'
<1>1. TypeOK'
  BY SnapshotAssumption DEF Inv, TypeOK, ChangeGames
<1>2. LocksHeld' /\ \A i \in Jobs : Untouched(i)
  BY DEF Inv, BuildInv, LocksHeld, Locked, Target, ChangeGames, Untouched
<1>3. QED
  BY <1>1, <1>2, ChangeKeeps DEF ChangeGames

LEMMA CommitUpdatesKeeps ==
  ASSUME Inv, NEW j \in Jobs, CommitUpdates(j)
  PROVE  Inv'
<1>1. Between(j) /\ Cleared(j) /\ lock' = Release(j)
  BY RunsOn DEF CommitUpdates, Inv
<1>2. source' \in 0 .. MaxVersion /\ source' \in {source, source + 1}
  BY SnapshotAssumption DEF CommitUpdates, Inv, TypeOK
<1>3. TypeOK'
  BY <1>1, <1>2, Ends DEF CommitUpdates, Inv, TypeOK
<1>4. /\ LocksHeld'
      /\ \A i \in Jobs :
            Untouched(i) \/ (at'[i] \in {"idle", "begun"} /\ deleted'[i] = {} /\ inserted'[i] = {})
  BY <1>1, Ends
<1>5. QED
  BY <1>2, <1>3, <1>4, ChangeKeeps DEF CommitUpdates

\* A statement of a request: what it appends to the request's views is the
\* current contents of the table.
LEMMA ReadKeeps ==
  ASSUME Inv, NEW r \in Readers, NEW t \in Tables, UNCHANGED <<source, table, published,
         lock, at, stage, read, seen, deleted, inserted, faults>>,
         listing' \in [Readers -> Tables \cup {NoTable}],
         views' \in [Readers -> Seq(SUBSET Row)],
         \A q \in Readers \ {r} : listing'[q] = listing[q] /\ views'[q] = views[q],
         listing'[r] = t,
         \/ views'[r] = <<table[t]>>
         \/ listing[r] = t /\ views'[r] = Append(views[r], table[t])
  PROVE  Inv'
<1>1. TypeOK'
  BY DEF Inv, TypeOK
<1>2. WholeSnapshots' /\ LocksHeld' /\ \A j \in Jobs : KnowsTheTable(j)'
  BY DEF Inv, BuildInv, WholeSnapshots, LocksHeld, KnowsTheTable, Locked, Target
<1>3. table[t] = RowsOf(t, published[t]) /\ published[t] \in Nat
  BY DEF Inv, TypeOK, BuildInv, WholeSnapshots
<1>4. ASSUME NEW q \in Readers, NEW k \in DOMAIN views'[q], NEW i \in 1 .. k
      PROVE  \E w \in 0 .. published[listing'[q]] : \E v \in 0 .. w :
                /\ views'[q][i] = RowsOf(listing'[q], v)
                /\ views'[q][k] = RowsOf(listing'[q], w)
  <2>1. CASE q # r
    <3>1. listing'[q] = listing[q] /\ views'[q] = views[q] /\ k \in DOMAIN views[q]
      BY <2>1
    <3>2. \E w \in 0 .. published[listing[q]] : \E v \in 0 .. w :
             views[q][i] = RowsOf(listing[q], v) /\ views[q][k] = RowsOf(listing[q], w)
      BY <3>1 DEF Inv, BuildInv, ViewsAreBuilds
    <3>3. QED
      BY <3>1, <3>2
  <2>2. CASE q = r /\ views'[r] = <<table[t]>>
    <3>1. k = 1 /\ i = 1
      BY <2>2
    <3>2. published[t] \in 0 .. published[t]
      BY <1>3
    <3>3. QED
      BY <1>3, <2>2, <3>1, <3>2
  <2>3. CASE q = r /\ listing[r] = t /\ views'[r] = Append(views[r], table[t])
    <3>1. views[r] \in Seq(SUBSET Row) /\ Len(views[r]) \in Nat
      BY DEF Inv, TypeOK
    <3>2. /\ k \in 1 .. Len(views[r]) + 1
          /\ \A n \in 1 .. Len(views[r]) : views'[r][n] = views[r][n]
          /\ views'[r][Len(views[r]) + 1] = table[t]
      BY <2>3, <3>1
    <3>3. CASE k <= Len(views[r])
      <4>1. k \in DOMAIN views[r] /\ views'[r][k] = views[r][k] /\ views'[r][i] = views[r][i]
        BY <3>1, <3>2, <3>3
      <4>2. QED
        BY <2>3, <4>1 DEF Inv, BuildInv, ViewsAreBuilds
    <3>4. CASE k = Len(views[r]) + 1 /\ i = k
      <4>1. published[t] \in 0 .. published[t]
        BY <1>3
      <4>2. QED
        BY <1>3, <2>3, <3>2, <3>4, <4>1
    <3>5. CASE k = Len(views[r]) + 1 /\ i # k
      <4>1. i \in DOMAIN views[r] /\ i \in 1 .. i /\ views'[r][i] = views[r][i]
        BY <3>1, <3>2, <3>5
      <4>2. PICK v \in 0 .. published[t] : views[r][i] = RowsOf(t, v)
        BY <2>3, <4>1 DEF Inv, BuildInv, ViewsAreBuilds
      <4>3. published[t] \in 0 .. published[t] /\ v \in 0 .. published[t]
        BY <1>3, <4>2
      <4>4. QED
        BY <1>3, <2>3, <3>2, <3>5, <4>1, <4>2, <4>3
    <3>6. QED
      BY <3>1, <3>2, <3>3, <3>4, <3>5
  <2>4. QED
    BY <2>1, <2>2, <2>3
<1>5. ASSUME NEW q \in Readers, NEW k \in DOMAIN views'[q]
      PROVE  listing'[q] \in Tables
  BY <1>5 DEF Inv, BuildInv, ViewsAreBuilds
<1>6. ViewsAreBuilds'
  BY <1>4, <1>5 DEF ViewsAreBuilds, RowsOf
<1>7. \A s \in Tables : published'[s] <= source'
  BY DEF Inv, BuildInv
<1>8. QED
  BY <1>1, <1>2, <1>6, <1>7 DEF Inv, BuildInv

LEMMA RequestKeeps ==
  ASSUME Inv, NEW r \in Readers, CountRows(r) \/ ReadRows(r) \/ EndRequest(r)
  PROVE  Inv'
<1>1. ASSUME CountRows(r)
      PROVE  Inv'
  <2>1. PICK t \in Tables :
           /\ listing' = [listing EXCEPT ![r] = t]
           /\ views' = [views EXCEPT ![r] = <<table[t]>>]
    BY <1>1 DEF CountRows, Committed
  <2>2. <<table[t]>> \in Seq(SUBSET Row)
    BY DEF Inv, TypeOK
  <2>3. /\ listing' \in [Readers -> Tables \cup {NoTable}]
        /\ views' \in [Readers -> Seq(SUBSET Row)]
        /\ listing'[r] = t /\ views'[r] = <<table[t]>>
        /\ \A q \in Readers \ {r} : listing'[q] = listing[q] /\ views'[q] = views[q]
    BY <2>1, <2>2 DEF Inv, TypeOK
  <2>4. QED
    BY <1>1, <2>3, ReadKeeps DEF CountRows
<1>2. ASSUME ReadRows(r)
      PROVE  Inv'
  <2>1. listing[r] \in Tables /\ views' = [views EXCEPT ![r] = Append(@, table[listing[r]])]
        /\ listing' = listing
    BY <1>2 DEF ReadRows, Committed, Inv, TypeOK
  <2>2. Append(views[r], table[listing[r]]) \in Seq(SUBSET Row)
    BY <2>1 DEF Inv, TypeOK
  <2>3. /\ listing' \in [Readers -> Tables \cup {NoTable}]
        /\ views' \in [Readers -> Seq(SUBSET Row)]
        /\ views'[r] = Append(views[r], table[listing[r]])
        /\ \A q \in Readers \ {r} : listing'[q] = listing[q] /\ views'[q] = views[q]
    BY <2>1, <2>2 DEF Inv, TypeOK
  <2>4. QED
    BY <1>2, <2>1, <2>3, ReadKeeps DEF ReadRows
<1>3. ASSUME EndRequest(r)
      PROVE  Inv'
  <2>1. TypeOK'
    BY <1>3 DEF Inv, TypeOK, EndRequest
  <2>2. WholeSnapshots' /\ LocksHeld' /\ \A j \in Jobs : KnowsTheTable(j)'
    BY <1>3 DEF Inv, BuildInv, WholeSnapshots, LocksHeld, KnowsTheTable, Locked, Target, EndRequest
  <2>3. views'[r] = <<>> /\ \A q \in Readers \ {r} : listing'[q] = listing[q] /\ views'[q] = views[q]
    BY <1>3 DEF Inv, TypeOK, EndRequest
  <2>4. ASSUME NEW q \in Readers, NEW k \in DOMAIN views'[q]
        PROVE  q # r
    BY <2>3
  <2>5. published' = published
    BY <1>3 DEF EndRequest
  <2>6. ViewsAreBuilds'
    BY <2>3, <2>4, <2>5 DEF Inv, BuildInv, ViewsAreBuilds, RowsOf
  <2>7. \A s \in Tables : published'[s] <= source'
    BY <1>3 DEF Inv, BuildInv, EndRequest
  <2>8. QED
    BY <2>1, <2>2, <2>6, <2>7 DEF Inv, BuildInv
<1>4. QED
  BY <1>1, <1>2, <1>3

(***************************************************************************)
(* Every step, and the properties.                                         *)
(***************************************************************************)

LEMMA InitEstablishes == Init => Inv
<1> SUFFICES ASSUME Init
             PROVE  Inv
  OBVIOUS
<1>1. 0 \in 0 .. MaxVersion /\ 0 \in 0 .. MaxFaults
  BY SnapshotAssumption
<1>2. \A t \in Tables : RowsOf(t, 0) \subseteq Row
  BY <1>1, RowFacts
<1>3. \A j \in Jobs : 1 <= Len(Plan[j])
  <2> SUFFICES ASSUME NEW j \in Jobs
               PROVE  1 <= Len(Plan[j])
    OBVIOUS
  <2>1. Plan[j] \in Seq(Stages) /\ Plan[j] # <<>>
    BY SnapshotAssumption
  <2>2. QED
    BY <2>1
<1>4. TypeOK
  BY <1>1, <1>2, <1>3 DEF Init, TypeOK, Phases
<1>5. LocksHeld
  BY SnapshotAssumption DEF Init, LocksHeld, Locked
<1>6. WholeSnapshots /\ \A t \in Tables : published[t] <= source
  BY DEF Init, WholeSnapshots
<1>7. \A j \in Jobs : KnowsTheTable(j)
  BY DEF Init, KnowsTheTable
<1>8. ViewsAreBuilds
  BY DEF Init, ViewsAreBuilds
<1>9. QED
  BY <1>4, <1>5, <1>6, <1>7, <1>8 DEF Inv, BuildInv

\* Steps that publish nothing.
Quiet == published' = published /\ table' = table

LEMMA StepKeeps ==
  ASSUME Inv, [Next]_vars
  PROVE  Inv' /\ \A t \in Tables : published[t] <= published'[t]
<1>1. \A t \in Tables : published[t] \in Nat
  BY DEF Inv, TypeOK
<1>3. SUFFICES ASSUME ~(\E j \in Jobs : CommitSnapshot(j))
               PROVE  Inv' /\ Quiet
  BY <1>1, CommitKeeps DEF Quiet
<1>4. CASE UNCHANGED vars
  <2>1. TypeOK'
    BY <1>4 DEF Inv, TypeOK, vars
  <2>2. WholeSnapshots' /\ LocksHeld' /\ \A j \in Jobs : KnowsTheTable(j)'
    BY <1>4 DEF Inv, BuildInv, WholeSnapshots, LocksHeld, KnowsTheTable, Locked, Target, vars
  <2>3. ViewsAreBuilds' /\ Quiet /\ \A t \in Tables : published'[t] <= source'
    BY <1>4 DEF Inv, BuildInv, ViewsAreBuilds, vars, Quiet, RowsOf
  <2>4. QED
    BY <2>1, <2>2, <2>3 DEF Inv, BuildInv
<1>5. ASSUME NEW j \in Jobs, Start(j) \/ TakeLock(j) \/ Aggregate(j) \/ BeginDelete(j)
                             \/ EndDelete(j) \/ Insert(j) \/ UpdateShortGames(j)
      PROVE  Inv' /\ Quiet
  <2>1. Inv'
    BY <1>5, StartKeeps, TakeLockKeeps, AggregateKeeps, BeginDeleteKeeps, EndDeleteKeeps,
       InsertKeeps, UpdateKeeps
  <2>2. Quiet
    BY <1>5 DEF Quiet, Start, TakeLock, Aggregate, BeginDelete, EndDelete, Insert,
                UpdateShortGames
  <2>3. QED
    BY <2>1, <2>2
<1>6. ASSUME NEW j \in Jobs, SkipStage(j) \/ Fail(j)
      PROVE  Inv' /\ Quiet
  <2>1. Rollback(j) /\ (Proceed(j) \/ EndRun(j)) /\ UNCHANGED readVars
    BY <1>6 DEF SkipStage, Fail, readVars
  <2>2. faults' \in 0 .. MaxFaults
    BY <1>6, SnapshotAssumption DEF SkipStage, Fail, Inv, TypeOK
  <2>3. QED
    BY <2>1, <2>2, RollbackKeeps DEF Rollback, Quiet
<1>7. ASSUME NEW j \in Jobs, CommitUpdates(j)
      PROVE  Inv' /\ Quiet
  BY <1>7, CommitUpdatesKeeps DEF CommitUpdates, Quiet
<1>8. ASSUME ChangeGames
      PROVE  Inv' /\ Quiet
  BY <1>8, ChangeGamesKeeps DEF ChangeGames, Quiet
<1>9. ASSUME NEW r \in Readers, CountRows(r) \/ ReadRows(r) \/ EndRequest(r)
      PROVE  Inv' /\ Quiet
  BY <1>9, RequestKeeps DEF CountRows, ReadRows, EndRequest, Quiet
<1>10. QED
  BY <1>3, <1>4, <1>5, <1>6, <1>7, <1>8, <1>9 DEF Next, JobStep

\* Variables keep their types in every reachable state; the proof carries the
\* inductive invariant along.
THEOREM SnapshotTypes == Spec => []TypeOK
<1>1. Inv /\ [Next]_vars => Inv'
  BY StepKeeps
<1>2. Inv => TypeOK
  BY DEF Inv
<1>3. QED
  BY <1>1, <1>2, InitEstablishes, PTL DEF Spec

\* The advisory lock of a stage is held by the one job in its transaction, each
\* build knows the whole table it deletes, and requests see builds in order.
THEOREM SnapshotInvariant == Spec => []BuildInv
<1>1. Inv /\ [Next]_vars => Inv'
  BY StepKeeps
<1>2. Inv => BuildInv
  BY DEF Inv
<1>3. QED
  BY <1>1, <1>2, InitEstablishes, PTL DEF Spec

\* A snapshot table always holds exactly the rows of the build that committed
\* last, whatever jobs run, fail or are killed.
THEOREM SnapshotsAreWhole == Spec => []WholeSnapshots
<1>1. BuildInv => WholeSnapshots
  BY DEF BuildInv
<1>2. QED
  BY <1>1, SnapshotInvariant, PTL

\* No build waits for another one's rows or fails at the unique index.
THEOREM BuildersNeverCollide == Spec => []BuildsAreAlone
<1>1. BuildInv => BuildsAreAlone
  <2> SUFFICES ASSUME BuildInv, NEW j \in Jobs, at[j] \in {"deleting", "inserting"}
               PROVE  /\ ~DeleteWaits(j)
                      /\ at[j] = "inserting" =>
                           \A x \in RowsOf(Target(j), read[j]) :
                              ~InsertWaits(j, x.key) /\ ~KeyExists(j, x.key)
    BY DEF BuildsAreAlone
  <2>1. Rivals(j) = {}
    <3> SUFFICES ASSUME NEW i \in Rivals(j)
                 PROVE  FALSE
      OBVIOUS
    <3>1. i \in Jobs /\ i # j /\ Locked(i) /\ Locked(j) /\ Target(i) = Target(j)
      BY DEF Rivals, Locked
    <3>2. QED
      BY <3>1, Exclusive DEF BuildInv
  <2>2. at[j] = "inserting" => Survivors(j) = {}
    BY DEF BuildInv, KnowsTheTable, Survivors
  <2>3. QED
    BY <2>1, <2>2 DEF DeleteWaits, InsertWaits, HasKey, KeyExists
<1>2. QED
  BY <1>1, SnapshotInvariant, PTL

\* No build replaces the result of one that read newer games.
THEOREM SnapshotsNeverGoBack == Spec => SnapshotsMoveForward
<1>1. Inv /\ [Next]_vars => Inv'
  BY StepKeeps
<1>2. Inv /\ [Next]_vars => [\A t \in Tables : published[t] <= published'[t]]_vars
  BY StepKeeps
<1>3. QED
  BY <1>1, <1>2, InitEstablishes, PTL DEF Spec, SnapshotsMoveForward

\* A request that reads a table in several statements sees whole builds, each as
\* new as the one before.
THEOREM RequestsSeeBuildsInOrder == Spec => []ReadersMoveForward
<1>1. TypeOK /\ BuildInv => ReadersMoveForward
  <2> SUFFICES ASSUME TypeOK, BuildInv, NEW r \in Readers,
                      NEW i \in DOMAIN views[r], NEW k \in DOMAIN views[r], i <= k
               PROVE  \E v \in 0 .. source : \E w \in v .. source :
                         /\ views[r][i] = RowsOf(listing[r], v)
                         /\ views[r][k] = RowsOf(listing[r], w)
    BY DEF ReadersMoveForward
  <2>1. i \in 1 .. k /\ listing[r] \in Tables
    BY DEF TypeOK, BuildInv, ViewsAreBuilds
  <2>2. PICK w \in 0 .. published[listing[r]] : \E v \in 0 .. w :
           views[r][i] = RowsOf(listing[r], v) /\ views[r][k] = RowsOf(listing[r], w)
    BY <2>1 DEF BuildInv, ViewsAreBuilds
  <2>3. PICK v \in 0 .. w :
           views[r][i] = RowsOf(listing[r], v) /\ views[r][k] = RowsOf(listing[r], w)
    BY <2>2
  <2>4. published[listing[r]] \in Nat /\ published[listing[r]] <= source /\ source \in Nat
    BY <2>1, SnapshotAssumption DEF TypeOK, BuildInv
  <2>5. v \in 0 .. source /\ w \in v .. source
    BY <2>2, <2>3, <2>4
  <2>6. QED
    BY <2>3, <2>5
<1>2. QED
  BY <1>1, SnapshotTypes, SnapshotInvariant, PTL

(***************************************************************************)
(* The jobs implement SnapshotRegister: a commit publishes, everything     *)
(* else changes the games or stutters.                                     *)
(***************************************************************************)

LEMMA CommitPublishes ==
  ASSUME Inv, NEW j \in Jobs, CommitSnapshot(j)
  PROVE  Register!RegisterNext
<1>1. /\ Target(j) \in Tables /\ read[j] \in published[Target(j)] .. source
      /\ table' = [table EXCEPT ![Target(j)] = RowsOf(Target(j), read[j])]
      /\ published' = [published EXCEPT ![Target(j)] = read[j]]
  BY PublishedRows
<1>2. Register!Publish(Target(j))
  BY <1>1 DEF Register!Publish, CommitSnapshot
<1>3. QED
  BY <1>1, <1>2 DEF Register!RegisterNext

LEMMA StepRefines ==
  ASSUME Inv, [Next]_vars
  PROVE  [Register!RegisterNext]_(Register!vars)
<1>1. ASSUME NEW j \in Jobs, CommitSnapshot(j)
      PROVE  Register!RegisterNext
  BY <1>1, CommitPublishes
<1>2. ASSUME ChangeGames \/ \E j \in Jobs : CommitUpdates(j)
      PROVE  [Register!RegisterNext]_(Register!vars)
  <2>1. source' \in {source, source + 1} /\ table' = table /\ published' = published
    BY <1>2 DEF ChangeGames, CommitUpdates
  <2>2. QED
    BY <2>1 DEF Register!RegisterNext, Register!Change, Register!vars
<1>3. ASSUME NEW j \in Jobs, Start(j) \/ TakeLock(j) \/ SkipStage(j) \/ Aggregate(j)
                             \/ BeginDelete(j) \/ EndDelete(j) \/ Insert(j)
                             \/ UpdateShortGames(j) \/ Fail(j)
      PROVE  UNCHANGED Register!vars
  BY <1>3 DEF Start, TakeLock, SkipStage, Aggregate, BeginDelete, EndDelete, Insert,
              UpdateShortGames, Fail, Rollback, Register!vars
<1>4. ASSUME NEW r \in Readers, CountRows(r) \/ ReadRows(r) \/ EndRequest(r)
      PROVE  UNCHANGED Register!vars
  BY <1>4 DEF CountRows, ReadRows, EndRequest, Register!vars
<1>5. ASSUME UNCHANGED vars
      PROVE  UNCHANGED Register!vars
  BY <1>5 DEF vars, Register!vars
<1>6. QED
  BY <1>1, <1>2, <1>3, <1>4, <1>5 DEF Next, JobStep

\* Jobs with their transactions, locks, skips and failures, for every deployment
\* of them, implement the atomic register of versions that readers rely on.
THEOREM SnapshotsImplementRegister == Spec => RefinesRegister
<1>1. Init => Register!RegisterInit
  BY DEF Init, Register!RegisterInit
<1>2. Inv /\ [Next]_vars => Inv'
  BY StepKeeps
<1>3. Inv /\ [Next]_vars => [Register!RegisterNext]_(Register!vars)
  BY StepRefines
<1>4. QED
  BY <1>1, <1>2, <1>3, InitEstablishes, PTL DEF Spec, RefinesRegister, Register!RegisterSpec
=============================================================================
