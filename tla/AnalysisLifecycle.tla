--------------------------- MODULE AnalysisLifecycle ---------------------------
(***************************************************************************)
(* What the game_analyses table promises to the readers of the API, seen   *)
(* without workers, locks, time or faults: the analysis of a game is       *)
(* requested, attempted a bounded number of times, and ends succeeded or   *)
(* failed.  A started attempt need not end: that is liveness, not stated   *)
(* here.                                                                   *)
(***************************************************************************)
EXTENDS Naturals

CONSTANTS Games, MaxAttempts

VARIABLES
  status,   \* [Games -> status], "none" when there is no row
  tries     \* [Games -> Nat], attempts started for the current request

vars == <<status, tries>>

LifecycleInit ==
  /\ status = [g \in Games |-> "none"]
  /\ tries = [g \in Games |-> 0]

Move(g, from, to) ==
  /\ status[g] \in from
  /\ status' = [status EXCEPT ![g] = to]

Request(g) ==
  /\ Move(g, {"none", "succeeded", "failed"}, "queued")
  /\ tries' = [tries EXCEPT ![g] = 0]

Start(g) ==
  /\ Move(g, {"queued"}, "running")
  /\ tries[g] < MaxAttempts
  /\ tries' = [tries EXCEPT ![g] = @ + 1]

Succeed(g) ==
  /\ Move(g, {"running"}, "succeeded")
  /\ UNCHANGED tries

Retry(g) ==
  /\ Move(g, {"running"}, "queued")
  /\ tries[g] < MaxAttempts
  /\ UNCHANGED tries

GiveUp(g) ==
  /\ Move(g, {"running"}, "failed")
  /\ tries[g] = MaxAttempts
  /\ UNCHANGED tries

Remove(g) ==
  /\ Move(g, {"queued", "running", "succeeded", "failed"}, "none")
  /\ tries' = [tries EXCEPT ![g] = 0]

LifecycleNext ==
  \E g \in Games : Request(g) \/ Start(g) \/ Succeed(g) \/ Retry(g) \/ GiveUp(g) \/ Remove(g)

LifecycleSpec == LifecycleInit /\ [][LifecycleNext]_vars
=============================================================================
