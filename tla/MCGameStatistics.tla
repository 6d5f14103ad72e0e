--------------------------- MODULE MCGameStatistics ---------------------------
(***************************************************************************)
(* A small instance of GameStatistics: seven recordings, one of each kind  *)
(* the statistics tell apart.                                              *)
(***************************************************************************)
EXTENDS GameStatistics, TLC

\* Two players are equally fast, and one is too fast to be true.
Speed == ("ann" :> 3) @@ ("Ann" :> 5) @@ ("bob" :> 3) @@ ("cat" :> 7) @@ ("dan" :> 1) @@ ("eve" :> 10) @@ ("flo" :> 0)

Player(n, t, r) ==
  [name |-> n, team |-> t, race |-> r, observer |-> FALSE, apm |-> Speed[n], eapm |-> Speed[n] \div 2 + t]

\* Six players, the first three against the others.
Three(names, t, u, races) ==
  [s \in 1 .. 6 |-> Player(names[s], IF s <= 3 THEN t ELSE u, races[s])]

Names == <<"ann", "bob", "cat", "dan", "eve", "flo">>
Respelled == <<"Ann", "dan", "cat", "bob", "eve", "flo">>
PTZvsTTZ == <<"Protoss", "Terran", "Zerg", "Terran", "Terran", "Zerg">>
TTZvsPTZ == <<"Terran", "Zerg", "Terran", "Zerg", "Terran", "Protoss">>

Rec(length, winner, map, players) == [length |-> length, winner |-> winner, map |-> map, players |-> players]

Won       == Rec(600, 1, "python", Three(Names, 1, 2, PTZvsTTZ))
Mirrored  == Rec(700, 3, "", Three(Respelled, 2, 3, TTZvsPTZ))
Undecided == Rec(800, 0, "python", Three(Names, 1, 2, PTZvsTTZ))
TwoMinutes == Rec(120, 2, "python", Three(Names, 1, 2, TTZvsPTZ))
JustLonger == Rec(121, 2, "lost temple", Three(Names, 1, 2, PTZvsTTZ))
Observed  == Rec(900, 1, "python",
               [s \in 1 .. 5 |-> [Player(Names[s], IF s <= 2 THEN 1 ELSE 2, PTZvsTTZ[s]) EXCEPT !.observer = (s = 5)]])
FreeForAll == Rec(900, 1, "python", [s \in 1 .. 6 |-> Player(Names[s], 1 + s \div 3, "Zerg")])

KindsOfRecordings == {Won, Mirrored, Undecided, TwoMinutes, JustLonger, Observed, FreeForAll}
OlderRecordings == {TwoMinutes, Won}

LowerCase == [n \in {"ann", "Ann", "bob", "cat", "dan", "eve", "flo"} |-> IF n = "Ann" THEN "ann" ELSE n]
Alphabet == ("Ann" :> 0) @@ ("ann" :> 1) @@ ("bob" :> 2) @@ ("cat" :> 3) @@ ("dan" :> 4) @@ ("eve" :> 5) @@ ("flo" :> 6)
=============================================================================
