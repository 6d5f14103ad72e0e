---------------------------- MODULE MCSeasonImport ----------------------------
(***************************************************************************)
(* A small instance of SeasonImport: sheets of three games in all dates,   *)
(* without execution, and one sheet that is executed.                      *)
(***************************************************************************)
EXTENDS SeasonImport

TeamA == <<"3x3_a", "3x3_b", "3x3_c">>
TeamB == <<"3x3_d", "3x3_e", "3x3_f">>
PTZ == <<"P", "T", "Z">>
ZZT == <<"Z", "Z", "T">>

MonthlyDays(year, month, day) == (year - 2025) * 12 * 31 + month * 31 + day

Season(l, n) == [kind |-> "season", label |-> l, no |-> n]
TeamsOn(date) == [kind |-> "teams", date |-> date, a |-> TeamA, b |-> TeamB]
Played(date, races, winner) == [kind |-> "game", date |-> date, a |-> races, b |-> PTZ, winner |-> winner]
On(day) == [year |-> 0, month |-> 3, day |-> day]

File(path, hash, game, day, minute, map, races) ==
  [path |-> path, hash |-> hash, game |-> game, start |-> MonthlyDays(2026, 3, day) * 1440 + minute, map |-> map,
   winners |-> Side(TeamA, races), losers |-> Side(TeamB, PTZ), auto |-> "3x3_a"]

Evening == File("f1", "h1", "g1", 10, 1300, "python", PTZ)
Night == File("f2", "h2", "g2", 11, 20, "python", PTZ)
Later == File("f3", "h3", "g3", 12, 1300, "lost temple", PTZ)
OtherRaces == File("f4", "h4", "g4", 12, 1200, "", ZZT)
Two == [File("f5", "h5", "g5", 12, 1000, "", PTZ) EXCEPT !.winners = {<<"3x3_a", "P">>}]

SavedFiles == {Evening, Night, Later, OtherRaces, Two}

Cells == {On(10), On(11), On(13), UnknownDate}

\* All dates of three rows, of one season or with another season before the last.
Sheets ==
  {<<Season("season 9", 9), TeamsOn(On(10)), Played(d[1], PTZ, "A"), Played(d[2], PTZ, "A"), Played(d[3], PTZ, "A")>> :
     d \in [1 .. 3 -> Cells]}
  \cup {<<Season("season 2", 2), TeamsOn(NoDate), Played(UnknownDate, PTZ, "A"), Season("cup", 0),
          Played([year |-> 2026, month |-> 3, day |-> 12], ZZT, "A"), Played(NoDate, PTZ, "B")>>}

ExecutedSheet ==
  <<Season("season 9", 9), TeamsOn(On(11)), Played(NoDate, PTZ, "A"), Played(NoDate, ZZT, "A"),
    Season("cup", 0), Played(On(12), PTZ, "A")>>

\* An empty sheet.
NoSheet == [sheet |-> <<>>, execute |-> FALSE, skipExisting |-> TRUE, fallback |-> FALSE]

Runs ==
  {NoSheet} \cup
  [sheet : Sheets, execute : {FALSE}, skipExisting : {TRUE}, fallback : BOOLEAN]
  \cup [sheet : {ExecutedSheet}, execute : {TRUE}, skipExisting : BOOLEAN, fallback : {TRUE}]

OldArchive == << [game |-> "g1", files |-> {[hash |-> "h1", by |-> "3x3_d"]}, season |-> <<"season 8", 8>>],
                 [game |-> "g3", files |-> {[hash |-> "h3", by |-> "3x3_a"]}, season |-> <<>>] >>

\* An upload while no season is current, and one of a matched recording in a later season.
OtherUploads ==
  {[file |-> Night, by |-> "3x3_e", season |-> <<>>],
   [file |-> OtherRaces, by |-> "3x3_b", season |-> <<"season 10", 10>>]}
=============================================================================
