------------------------------ MODULE UploadPool ------------------------------
(***************************************************************************)
(* The batch upload: parseUploadedFilesInParallel hands the files to a     *)
(* pool of goroutines over an unbuffered channel; each writes the slot of  *)
(* its file; after wg.Wait the handler goes through the slots in order.    *)
(*                                                                         *)
(* What a file contains is abstracted to what becomes of it: Parse[i] is   *)
(* the outcome of parseUploadedFile, Status[i] the HTTP status of          *)
(* processParsedReplayResult.                                              *)
(***************************************************************************)
EXTENDS Naturals, Sequences, FiniteSets

CONSTANTS
  MaxFiles,               \* bound: files of a request
  maxReplayParseWorkers,
  NoFile                  \* zero value: no index, an empty slot

ASSUME PoolAssumption ==
  /\ MaxFiles \in Nat
  /\ maxReplayParseWorkers \in Nat /\ maxReplayParseWorkers > 1
  /\ NoFile \notin Nat

VARIABLES
  files,       \* number of files in the request, fixed
  fate,        \* [1 .. files -> Fates], fixed: what parsing and saving a file gives
  next,        \* the handler's loop variable: next index to send
  step,        \* handler: "send", "wait", "answer", "done"
  closed,      \* the channel is closed
  job,         \* [Workers -> index the goroutine has received, NoFile while it waits]
  running,     \* goroutines that have not returned (the WaitGroup)
  slots,       \* [1 .. files -> parsedUploadFile]
  parses,      \* history: [1 .. files -> how often the file was parsed]
  results,     \* results array of the answer
  successCount, failedCount

poolVars == <<files, fate, next, step, closed, job, running, slots, parses, results,
              successCount, failedCount>>

Fates == {"unreadable", "refused", "saved"}

Smaller(a, b) == IF a < b THEN a ELSE b

Workers == 1 .. maxReplayParseWorkers

\* Goroutines: as many as files, up to the limit; none for a single file.  (A request
\* without files is refused at once.)
Pool == IF files = 1 THEN {} ELSE 1 .. Smaller(files, maxReplayParseWorkers)

Parsed(i) == [file |-> i, ok |-> fate[i] # "unreadable"]
Empty == [file |-> NoFile, ok |-> FALSE]

PoolInit ==
  /\ files \in 0 .. MaxFiles
  /\ fate \in [1 .. files -> Fates]
  /\ next = 1
  /\ step = IF files = 0 THEN "done" ELSE "send"
  /\ closed = FALSE
  /\ job = [w \in Workers |-> NoFile]
  /\ running = Pool
  /\ slots = [i \in 1 .. files |-> Empty]
  /\ parses = [i \in 1 .. files |-> 0]
  /\ results = <<>>
  /\ successCount = 0
  /\ failedCount = 0

answerVars == <<results, successCount, failedCount>>

\* A request with one file is parsed by the handler itself.
ParseAlone ==
  /\ files = 1
  /\ step = "send"
  /\ slots' = [slots EXCEPT ![1] = Parsed(1)]
  /\ parses' = [parses EXCEPT ![1] = @ + 1]
  /\ step' = "answer"
  /\ UNCHANGED <<files, fate, next, closed, job, running, answerVars>>

\* The loop variable after an index was sent.
NextIndex == next + 1

\* A send on the unbuffered channel meets a goroutine that waits to receive.
Send(w) ==
  /\ step = "send"
  /\ Pool # {} /\ next <= files
  /\ w \in running /\ job[w] = NoFile
  /\ job' = [job EXCEPT ![w] = next]
  /\ next' = NextIndex
  /\ UNCHANGED <<files, fate, step, closed, running, slots, parses, answerVars>>

\* Mutant: the channel stays open.
NoClose == FALSE

\* close(jobCh)
CloseChannel == TRUE

\* After the last index.
Close ==
  /\ step = "send"
  /\ Pool # {} /\ next > files
  /\ closed' = CloseChannel
  /\ step' = "wait"
  /\ UNCHANGED <<files, fate, next, job, running, slots, parses, answerVars>>

\* Mutant: the slots are filled in the order of completion.
SlotByCompletion(i) == Cardinality({k \in 1 .. files : slots[k] # Empty}) + 1

\* results[idx] of the captured index.
SlotOf(i) == i

\* A goroutine parses its file, fills the slot and goes on to receive.
ParseFile(w) ==
  /\ w \in running /\ job[w] # NoFile
  /\ slots' = [slots EXCEPT ![SlotOf(job[w])] = Parsed(job[w])]
  /\ parses' = [parses EXCEPT ![job[w]] = @ + 1]
  /\ job' = [job EXCEPT ![w] = NoFile]
  /\ UNCHANGED <<files, fate, next, step, closed, running, answerVars>>

\* range over the closed channel ends; wg.Done.
Return(w) ==
  /\ closed
  /\ w \in running /\ job[w] = NoFile
  /\ running' = running \ {w}
  /\ UNCHANGED <<files, fate, next, step, closed, job, slots, parses, answerVars>>

\* wg.Wait returns.
AllDone == running = {}

Wait ==
  /\ step = "wait"
  /\ AllDone
  /\ step' = "answer"
  /\ UNCHANGED <<files, fate, next, closed, job, running, slots, parses, answerVars>>

\* What the answer says about a slot.
Answer(p) ==
  [file |-> p.file,
   status |-> IF ~p.ok THEN "unreadable" ELSE fate[p.file]]

\* The handler takes the slots in order; parsed files are saved one by one.
AnswerNext ==
  /\ step = "answer"
  /\ Len(results) < files
  /\ LET a == Answer(slots[Len(results) + 1]) IN
     /\ results' = Append(results, a)
     /\ successCount' = IF a.status = "saved" THEN successCount + 1 ELSE successCount
     /\ failedCount' = IF a.status = "saved" THEN failedCount ELSE failedCount + 1
  /\ UNCHANGED <<files, fate, next, step, closed, job, running, slots, parses>>

SendAnswer ==
  /\ step = "answer"
  /\ Len(results) = files
  /\ step' = "done"
  /\ UNCHANGED <<files, fate, next, closed, job, running, slots, parses, answerVars>>

PoolNext ==
  \/ ParseAlone
  \/ \E w \in Workers : Send(w) \/ ParseFile(w) \/ Return(w)
  \/ Close \/ Wait \/ AnswerNext \/ SendAnswer

PoolSpec == PoolInit /\ [][PoolNext]_poolVars

-----------------------------------------------------------------------------
(* Properties. *)

Statuses == Fates
Result == [file: 1 .. files, status: Statuses]

PoolTypeOK ==
  /\ files \in 0 .. MaxFiles
  /\ fate \in [1 .. files -> Fates]
  /\ next \in 1 .. files + 1
  /\ step \in {"send", "wait", "answer", "done"}
  /\ closed \in BOOLEAN
  /\ job \in [Workers -> 1 .. files \cup {NoFile}]
  /\ running \subseteq Pool
  /\ slots \in [1 .. files -> [file: 1 .. files \cup {NoFile}, ok: BOOLEAN]]
  /\ parses \in [1 .. files -> Nat]
  /\ results \in Seq(Result)
  /\ successCount \in Nat /\ failedCount \in Nat

\* However the goroutines are scheduled: when the handler reads the slots, every slot
\* holds the outcome of its own file, and no file was parsed twice or left out.
EverySlotFilled ==
  step \in {"answer", "done"} =>
     \A i \in 1 .. files : slots[i] = Parsed(i) /\ parses[i] = 1

\* The counts of the answer add up, and its entries are in the order of the files.
AnswerAddsUp ==
  /\ successCount + failedCount = Len(results)
  /\ \A i \in 1 .. Len(results) : results[i].file = i

\* The goroutines and the channel implement the sequential loop.
Loop == INSTANCE UploadLoop
ImplementsLoop == Loop!LoopSpec

\* The handler is never left blocked on the channel or on the WaitGroup, and no
\* goroutine outlives the request, when the parser returns for every file.
PoolFair ==
  /\ WF_poolVars(ParseAlone) /\ WF_poolVars(Close) /\ WF_poolVars(Wait)
  /\ WF_poolVars(AnswerNext) /\ WF_poolVars(SendAnswer)
  /\ \A w \in Workers : WF_poolVars(ParseFile(w)) /\ WF_poolVars(Return(w))
  /\ WF_poolVars(\E w \in Workers : Send(w))

PoolFairSpec == PoolSpec /\ PoolFair

UploadAnswered == (step = "send") ~> (step = "done" /\ running = {})

-----------------------------------------------------------------------------
(* The inductive invariant: who has a file. *)

\* An index that was sent is with exactly one goroutine or in its slot.
Handed(i) == \E w \in running : job[w] = i
PoolInv ==
  /\ closed <=> step \in {"wait", "answer", "done"} /\ files > 1
  /\ step # "send" /\ files > 1 => next = files + 1
  /\ step = "send" /\ files = 1 => parses[1] = 0
  /\ step = "wait" => files > 1
  /\ step \in {"answer", "done"} => running = {}
  /\ \A w \in running : job[w] # NoFile => job[w] < next
  /\ \A v, w \in running : job[v] = job[w] /\ job[v] # NoFile => v = w
  /\ files > 1 => \A i \in 1 .. files :
       \/ i >= next /\ slots[i] = Empty /\ parses[i] = 0
       \/ i < next /\ Handed(i) /\ slots[i] = Empty /\ parses[i] = 0
       \/ i < next /\ ~Handed(i) /\ slots[i] = Parsed(i) /\ parses[i] = 1
  /\ EverySlotFilled
  /\ step \in {"send", "wait"} => results = <<>>
  /\ Len(results) <= files
  /\ \A i \in 1 .. Len(results) : results[i] = [file |-> i, status |-> fate[i]]
=============================================================================
