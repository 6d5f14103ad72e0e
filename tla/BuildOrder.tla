------------------------------ MODULE BuildOrder ------------------------------
(***************************************************************************)
(* The replay parser behind its decoder: what becomes of the commands of a *)
(* recording.  Every player has a raw build order (each build command),    *)
(* and a compressed one after four passes: drop ineffective commands, drop *)
(* bursts of repetitions, take back what a cancel cancels, join workers.   *)
(*                                                                         *)
(* item stands for the payload of an event: unit, tech or upgrade, and the *)
(* position and order that eventPayloadKey distinguishes.                  *)
(***************************************************************************)
EXTENDS Integers, Sequences, FiniteSets, SequencesExt

CONSTANTS
  Pids,          \* players that are not observers (pidPlayerName)
  WorkerItems    \* scv, probe, drone

\* What each cancel command takes back.
Cancels ==
  [cancel_train   |-> {"train", "unit_morph"},
   cancel_build   |-> {"build", "land"},
   cancel_morph   |-> {"building_morph", "unit_morph"},
   cancel_tech    |-> {"tech"},
   cancel_upgrade |-> {"upgrade"}]

isCancelEventType(t) == t \in DOMAIN Cancels

\* Commands that are milestones; queueable and targeted orders are not.
EventTypes == (UNION {Cancels[c] : c \in DOMAIN Cancels}) \cup DOMAIN Cancels

\* A command: [pid, frame, type, item, effective]; without its unit it is no event.
commandToBuildEvent(cmd) ==
  [frame |-> cmd.frame, type |-> cmd.type, item |-> cmd.item, effective |-> cmd.effective,
   count |-> 0, end |-> 0]

IsBuildEvent(cmd) == cmd.type \in EventTypes /\ (cmd.item # "" \/ isCancelEventType(cmd.type))

\* Stable sort by frame.
ByFrame(s) ==
  LET Earlier(i) == {j \in DOMAIN s : s[j].frame < s[i].frame \/ (s[j].frame = s[i].frame /\ j <= i)}
  IN  [k \in DOMAIN s |-> s[CHOOSE i \in DOMAIN s : Cardinality(Earlier(i)) = k]]

\* The raw build order of each player who gave a build command.
extractBuildOrders(cmds) ==
  LET Of(p) == LET Take(out, c) == IF c.pid = p /\ IsBuildEvent(c) THEN Append(out, commandToBuildEvent(c))
                                   ELSE out
               IN  FoldLeft(Take, <<>>, cmds)
  IN  [p \in {q \in Pids : Of(q) # <<>>} |-> ByFrame(Of(p))]

-----------------------------------------------------------------------------
(* The four passes of compressBuildOrders. *)

filterEffectiveEvents(events) ==
  LET Keep(out, e) == IF isCancelEventType(e.type) \/ e.effective THEN Append(out, e) ELSE out
  IN  FoldLeft(Keep, <<>>, events)

dedupWindow(t) ==
  CASE t \in {"train", "unit_morph", "building_morph"} -> 8
    [] t \in {"tech", "upgrade"} -> 48
    [] t \in {"build", "land"} -> 24

SameCommand(e, f) == e.type = f.type /\ e.item = f.item

\* An event repeats the last one of its kind that was kept.
RepeatsLast(out, e) ==
  LET i == SelectLastInSeq(out, LAMBDA f : SameCommand(f, e))
  IN  i > 0 /\ e.frame - out[i].frame <= dedupWindow(e.type)

dedupShortBurstEvents(events) ==
  LET Keep(out, e) == IF ~isCancelEventType(e.type) /\ RepeatsLast(out, e) THEN out
                      ELSE Append(out, e)
  IN  FoldLeft(Keep, <<>>, events)

matchWindow == 48

\* Mutant: the search does not end at the first event that is too old.
findAnyCancelableEvent(out, c) ==
  SelectLastInSeq(out, LAMBDA e : e.type \in Cancels[c.type])

\* From the end of the events kept so far, up to the first that is too old; 0 for none.
findCancelableEvent(out, c) ==
  LET old == SelectLastInSeq(out, LAMBDA e : c.frame - e.frame > matchWindow)
      hit == SelectLastInSeq(out, LAMBDA e : e.type \in Cancels[c.type])
  IN  IF hit > old THEN hit ELSE 0

reconcileCancelPairs(events) ==
  LET Take(out, e) == IF ~isCancelEventType(e.type) THEN Append(out, e)
                      ELSE LET i == findCancelableEvent(out, e)
                           IN  IF i = 0 THEN out ELSE RemoveAt(out, i)
  IN  FoldLeft(Take, <<>>, events)

runWindow == 120

isWorkerUnit(item) == item \in WorkerItems

\* A worker trained while the run of the last event is still open.
ContinuesRun(out, e) ==
  /\ e.type = "train" /\ isWorkerUnit(e.item)
  /\ out # <<>>
  /\ SameCommand(Last(out), e)
  /\ e.frame - Last(out).frame <= runWindow

Joined(last, e) == [last EXCEPT !.count = @ + 1, !.end = e.frame]

\* Mutant: a worker that continues a run is also appended.
aggregateAndAppend(events) ==
  LET Join(out, e) == LET one == [e EXCEPT !.count = 1]
                      IN  IF ContinuesRun(out, e)
                          THEN Append(Append(Front(out), Joined(Last(out), e)), one)
                          ELSE Append(out, one)
  IN  FoldLeft(Join, <<>>, events)

aggregateWorkerTrainRuns(events) ==
  LET Join(out, e) == IF ContinuesRun(out, e)
                      THEN Append(Front(out), Joined(Last(out), e))
                      ELSE Append(out, [e EXCEPT !.count = IF @ = 0 THEN 1 ELSE @])
  IN  FoldLeft(Join, <<>>, events)

Deduped(events) == dedupShortBurstEvents(filterEffectiveEvents(events))
Reconciled(events) == reconcileCancelPairs(Deduped(events))

compressBuildOrders(orders) ==
  [p \in DOMAIN orders |-> aggregateWorkerTrainRuns(Reconciled(orders[p]))]

-----------------------------------------------------------------------------
(* The timeline of commands per window of about ten seconds. *)

windowFrames == 238

numWindows(total) == (total \div windowFrames) + 1

\* [player -> [window -> commands]]; apm is six times the commands of a window.
buildAPMTimeline(cmds, total) ==
  LET In(p, w) == {i \in DOMAIN cmds : cmds[i].pid = p /\ cmds[i].frame \div windowFrames = w}
  IN  IF total = 0 THEN <<>>
      ELSE [p \in {q \in Pids : \E i \in DOMAIN cmds : cmds[i].pid = q} |->
              [w \in 0 .. numWindows(total) - 1 |-> Cardinality(In(p, w))]]
=============================================================================
