---------------------------- MODULE SnapshotRegister ----------------------------
(***************************************************************************)
(* What the snapshot jobs promise to the readers of a snapshot table: it   *)
(* always shows the rows of one version of the recorded games, replaced as *)
(* a whole, and the version never goes back.                               *)
(***************************************************************************)
EXTENDS Naturals

CONSTANTS
  Tables,
  RowsOf(_, _)    \* the rows a table shows of a version

VARIABLES
  version,        \* version of the recorded games
  shown,          \* [Tables -> Nat], the version each table shows
  contents        \* [Tables -> set of rows]

vars == <<version, shown, contents>>

RegisterInit ==
  /\ version = 0
  /\ shown = [t \in Tables |-> 0]
  /\ contents = [t \in Tables |-> RowsOf(t, 0)]

Change ==
  /\ version' = version + 1
  /\ UNCHANGED <<shown, contents>>

Publish(t) ==
  \E v \in shown[t] .. version :
     /\ shown' = [shown EXCEPT ![t] = v]
     /\ contents' = [contents EXCEPT ![t] = RowsOf(t, v)]
     /\ UNCHANGED version

RegisterNext == Change \/ \E t \in Tables : Publish(t)

RegisterSpec == RegisterInit /\ [][RegisterNext]_vars
=============================================================================
