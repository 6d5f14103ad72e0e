------------------------------ MODULE ReplayArchive ------------------------------
(***************************************************************************)
(* What uploading promises, without requests, transactions or locks: a     *)
(* recorded game has a set of contributors and a reliability count, and    *)
(* each change is one contribution or the removal of the whole game.       *)
(***************************************************************************)
EXTENDS Naturals

CONSTANTS Games, Users

VARIABLES
  contributors,   \* [Games -> SUBSET Users], {} when the game is not recorded
  reliability     \* [Games -> Nat], the m of the m/N shown to readers

vars == <<contributors, reliability>>

ArchiveInit ==
  /\ contributors = [g \in Games |-> {}]
  /\ reliability = [g \in Games |-> 0]

\* A user who has not contributed to the game does.
Contribute(g, u) ==
  /\ u \notin contributors[g]
  /\ contributors' = [contributors EXCEPT ![g] = @ \cup {u}]
  /\ reliability' = [reliability EXCEPT ![g] = @ + 1]

Forget(g) ==
  /\ contributors' = [contributors EXCEPT ![g] = {}]
  /\ reliability' = [reliability EXCEPT ![g] = 0]

ArchiveNext == \E g \in Games : Forget(g) \/ \E u \in Users : Contribute(g, u)

ArchiveSpec == ArchiveInit /\ [][ArchiveNext]_vars
=============================================================================
