------------------------------ MODULE MCEntStore ------------------------------
(***************************************************************************)
(* Recordings for the tables behind the ent client: two of one game, one   *)
(* with a blank player and one with a blank host, both refused, and one    *)
(* whose players share an id.                                              *)
(***************************************************************************)
EXTENDS EntStore

Recorded(hash, host, start, players, label, no, data, details) ==
  [hash |-> hash, host |-> host, start |-> start, players |-> players, label |-> label, no |-> no,
   data |-> data, details |-> details]

Seat(name, slot) == [name |-> name, slot |-> slot]

StoredRecordings ==
  {Recorded(1, 1, 1, <<Seat(1, 0), Seat(3, 1)>>, Nil, Nil, TRUE, {{"apm_timeline", "build_orders"}}),
   Recorded(2, 1, 1, <<Seat(1, 0), Seat(3, 1)>>, Some, 7, TRUE, {{"apm_timeline"}}),
   Recorded(3, 1, 2, <<Seat(3, 0), Seat(Zero, 1)>>, Some, Nil, TRUE, {}),
   Recorded(4, Zero, 1, <<Seat(1, 0)>>, Nil, Nil, FALSE, {{}}),
   Recorded(5, 2, 2, <<Seat(1, 255), Seat(2, 255)>>, Nil, Nil, FALSE, {{}}),
   Recorded(6, 2, 1, <<Seat(2, 0)>>, Nil, 9, FALSE, {{}})}
=============================================================================
