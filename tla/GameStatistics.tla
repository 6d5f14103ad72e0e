---------------------------- MODULE GameStatistics ----------------------------
(***************************************************************************)
(* Who won, and what is counted from it: the outcome a recording is stored *)
(* with, the job that rewrites outcomes of short games, and the three      *)
(* statistics over the same rows: the 3v3 ranking and the race matchups    *)
(* (two SQL aggregates) and the record of one player (two queries and Go). *)
(*                                                                         *)
(* A game is identified by its recording.  How a snapshot is written is    *)
(* the subject of SnapshotJob; here an aggregate is a function of the rows.*)
(***************************************************************************)
EXTENDS Integers, Sequences, FiniteSets, FiniteSetsExt, Functions

CONSTANTS
  Recordings,       \* [length, winner, map, players]; players is a function of seats
  ApmLimit,         \* the highest apm that counts: 1000 in the code
  Unnormalized,     \* recordings that an older version may have stored
  KeyOf,            \* [names -> names]: lower case, without outer blanks
  NameOrder,        \* [names -> Int]: the order of the collation
  MigrationLimits,  \* values of -max-seconds
  Asked,            \* names somebody asks for
  MaxPageSize,      \* the longest page of a list: 100 and 500 in the code
  MaxGames,         \* bound: games stored at a time
  NoRequest

Races == {"Protoss", "Terran", "Zerg", "Other"}

ASSUME RecordingsAssumption ==
  /\ Unnormalized \subseteq Recordings /\ IsFiniteSet(Unnormalized)
  /\ \A r \in Recordings :
     /\ r.length \in Nat /\ r.winner \in Nat /\ IsFiniteSet(DOMAIN r.players)
     /\ \A s \in DOMAIN r.players : r.players[s].team \in Nat \ {0} /\ r.players[s].race \in Races
     /\ \A s \in DOMAIN r.players : r.players[s].apm \in Int /\ r.players[s].eapm \in Int

\* The team that the library names as the winner plays.
ASSUME WinnersAssumption ==
  \A r \in Recordings : r.winner > 0 =>
     \E s \in DOMAIN r.players : ~r.players[s].observer /\ r.players[s].team = r.winner

\* The collation tells any two names apart.
ASSUME NamesAssumption ==
  /\ \A r \in Recordings : \A s \in DOMAIN r.players : r.players[s].name \in DOMAIN NameOrder \cap DOMAIN KeyOf
  /\ \A n \in DOMAIN NameOrder : NameOrder[n] \in Int
  /\ \A m, n \in DOMAIN NameOrder : NameOrder[m] = NameOrder[n] => m = n

ASSUME LimitsAssumption ==
  /\ MigrationLimits \subseteq Nat \ {0} /\ Asked \subseteq DOMAIN KeyOf
  /\ ApmLimit \in Nat /\ MaxPageSize \in Nat

VARIABLES
  games,      \* [some recordings -> their rows]
  migrated,   \* short games of older versions have been rewritten
  request     \* NoRequest, or what GetPlayerStats has read

statisticsVars == <<games, migrated, request>>

-----------------------------------------------------------------------------
(* The outcome of a recording. *)

invalidGameMaxDurationSeconds == 120

isInvalidShortGameLength(seconds) == seconds > 0 /\ seconds <= invalidGameMaxDurationSeconds

\* Observers are left out.
Shown(r) == {s \in DOMAIN r.players : ~r.players[s].observer}

OutcomeFor(r, s) ==
  IF r.winner = 0 THEN "unknown"
  ELSE IF r.players[s].team = r.winner THEN "win" ELSE "loss"

extractPlayers(r) ==
  [s \in Shown(r) |-> [name     |-> r.players[s].name,
                       team     |-> r.players[s].team,
                       race     |-> r.players[s].race,
                       apm      |-> r.players[s].apm,
                       eapm     |-> r.players[s].eapm,
                       isWinner |-> r.winner > 0 /\ r.players[s].team = r.winner,
                       result   |-> OutcomeFor(r, s)]]

ParseReplayData(r) ==
  [length |-> r.length, winnerTeam |-> r.winner, map |-> r.map,
   playerCount |-> Cardinality(Shown(r)), players |-> extractPlayers(r)]

DrawnPlayer(p) ==
  [name |-> p.name, team |-> p.team, race |-> p.race, apm |-> p.apm, eapm |-> p.eapm,
   isWinner |-> FALSE, result |-> "draw"]

\* Mutant: the winning team stays on the game.
DrawnPlayersOnly(g) == [g EXCEPT !.players = [s \in DOMAIN g.players |-> DrawnPlayer(g.players[s])]]

\* What a short game becomes: a draw without a winner.
Drawn(g) ==
  [length |-> g.length, winnerTeam |-> 0, map |-> g.map, playerCount |-> g.playerCount,
   players |-> [s \in DOMAIN g.players |-> DrawnPlayer(g.players[s])]]

normalizeParsedOutcomeForShortGame(g) == IF isInvalidShortGameLength(g.length) THEN Drawn(g) ELSE g

-----------------------------------------------------------------------------
(* The 3v3 ranking. *)

TeamSize(g, t) == Cardinality({s \in DOMAIN g.players : g.players[s].team = t})

Teams(g) == {g.players[s].team : s \in DOMAIN g.players}

MinValidGameLengthSec == 120

\* Mutant: a game of exactly two minutes qualifies.
LongEnoughAtLimit(g) == g.length >= MinValidGameLengthSec

LongEnough(g) == g.length > MinValidGameLengthSec

Qualified3v3 ==
  {r \in DOMAIN games : /\ games[r].playerCount = 6
                        /\ LongEnough(games[r])
                        /\ Cardinality(Teams(games[r])) = 2
                        /\ \A t \in Teams(games[r]) : TeamSize(games[r], t) = 3}

\* The rows of players of these games.
Rows(of) == UNION {{[game |-> r, seat |-> s] : s \in DOMAIN games[r].players} : r \in of}

PlayerOf(row) == games[row.game].players[row.seat]

CountsAsWin(row) ==
  PlayerOf(row).result = "win" \/ (PlayerOf(row).result = "unknown" /\ PlayerOf(row).isWinner)

CountsAsLoss(row) ==
  \/ PlayerOf(row).result = "loss"
  \/ PlayerOf(row).result = "unknown" /\ ~PlayerOf(row).isWinner /\ games[row.game].winnerTeam > 0

\* ROUND(wins / games * 100, 1), in tenths.
RateOf(wins, n) == (2000 * wins + n) \div (2 * n)

\* percentile_cont(0.95) of the values from 0 to the limit, in tenths; 0 without any.  It is
\* the value at 19/20 of the way from the lowest to the highest, between two neighbours.
SpeedOf(value) ==
  LET valid == {x \in DOMAIN value : value[x] \in 0 .. ApmLimit}
      way == 19 * (Cardinality(valid) - 1)
      Nth(i) == Cardinality({v \in 1 .. ApmLimit : Cardinality({x \in valid : value[x] < v}) <= i})
      low == Nth(way \div 20)
      high == Nth(way \div 20 + 1)
  IN  IF valid = {} THEN 0 ELSE (20 * low + (way % 20) * (high - low) + 1) \div 2

\* Rows with one key are one player, shown by the first of its spellings.
compute3v3Rows(minGames) ==
  LET rows == Rows(Qualified3v3)
      Of(k) == {x \in rows : KeyOf[PlayerOf(x).name] = k}
      First(names) == CHOOSE n \in names : \A o \in names : NameOrder[n] <= NameOrder[o]
      Row(k) == LET wins == Cardinality({x \in Of(k) : CountsAsWin(x)})
                IN  [key |-> k, name |-> First({PlayerOf(x).name : x \in Of(k)}),
                     games |-> Cardinality(Of(k)), wins |-> wins,
                     losses |-> Cardinality({x \in Of(k) : CountsAsLoss(x)}),
                     draws |-> Cardinality({x \in Of(k) : PlayerOf(x).result = "draw"}),
                     win_rate |-> RateOf(wins, Cardinality(Of(k))),
                     avg_apm |-> SpeedOf([x \in Of(k) |-> PlayerOf(x).apm]),
                     avg_eapm |-> SpeedOf([x \in Of(k) |-> PlayerOf(x).eapm])]
      all == {Row(k) : k \in {KeyOf[PlayerOf(x).name] : x \in rows}}
  IN  {row \in all : row.games >= minGames}

-----------------------------------------------------------------------------
(* The race matchups. *)

MatchupGames ==
  {r \in DOMAIN games : /\ Cardinality(Teams(games[r])) = 2
                        /\ \A t \in Teams(games[r]) : 2 * TeamSize(games[r], t) = games[r].playerCount
                        /\ games[r].winnerTeam > 0
                        /\ LongEnough(games[r])}

\* P, T, Z and U in that order, by their places in the alphabet.
Comp(g, t) ==
  LET Count(race) == Cardinality({s \in DOMAIN g.players : g.players[s].team = t /\ g.players[s].race = race})
      p == Count("Protoss")
      pt == p + Count("Terran")
      ptz == pt + Count("Zerg")
  IN  [i \in 1 .. TeamSize(g, t) |->
         IF i <= p THEN 1 ELSE IF i <= pt THEN 2 ELSE IF i <= ptz THEN 4 ELSE 3]

\* Of two compositions of one size.
Leq(a, b) ==
  a = b \/ \E i \in DOMAIN a : a[i] < b[i] /\ \A j \in 1 .. i - 1 : a[j] = b[j]

\* The teams of a game, the smaller composition first, the smaller team among equals.
Canon(g) ==
  LET one == CHOOSE t \in Teams(g) : \A u \in Teams(g) : t <= u
      two == CHOOSE t \in Teams(g) : t # one
  IN  IF Leq(Comp(g, one), Comp(g, two)) THEN <<one, two>> ELSE <<two, one>>

MatchupOf(g) == LET teams == Canon(g) IN <<Comp(g, teams[1]), Comp(g, teams[2])>>

computeRows ==
  LET Of(m) == {r \in MatchupGames : MatchupOf(games[r]) = m}
      Wins(m, side) == Cardinality({r \in Of(m) : games[r].winnerTeam = Canon(games[r])[side]})
  IN  {[matchup |-> m, games |-> Cardinality(Of(m)), aWins |-> Wins(m, 1), bWins |-> Wins(m, 2),
        team_a_win_rate |-> RateOf(Wins(m, 1), Cardinality(Of(m))),
        team_b_win_rate |-> RateOf(Wins(m, 2), Cardinality(Of(m)))] : m \in {MatchupOf(games[r]) : r \in MatchupGames}}

-----------------------------------------------------------------------------
(* The lists of snapshot rows, sorted and in pages. *)

\* The rows of a table that a list shows: players with so many games, compositions of one size.
RankingList(rows, minGames) == {row \in rows : row.games >= minGames}

MatchupList(rows, teamSize) == {row \in rows : teamSize > 0 => Len(row.matchup[1]) = teamSize}

RankingColumns == {"win_rate", "wins", "games", "avg_apm", "avg_eapm", "name"}

MatchupColumns == {"games", "team_a_win_rate", "team_b_win_rate", "matchup"}

Up(column) == [column |-> column, down |-> FALSE]
Down(column) == [column |-> column, down |-> TRUE]

\* Mutant: the ascending orders leave ties.
RankingKeysWithTies(sortBy, down) ==
  IF down THEN <<Down(sortBy), Up("name")>> ELSE <<Up(sortBy)>>

\* resolveRankingOrder; a word that is no column means win_rate.
RankingKeys(sortBy, down) ==
  CASE sortBy = "name" -> << IF down THEN Down("name") ELSE Up("name") >>
    [] sortBy # "name" /\ ~down -> <<Up(sortBy), Up("name")>>
    [] sortBy = "win_rate" /\ down -> <<Down("win_rate"), Down("wins"), Down("games"), Up("name")>>
    [] sortBy = "wins" /\ down -> <<Down("wins"), Down("win_rate"), Down("games"), Up("name")>>
    [] sortBy = "games" /\ down -> <<Down("games"), Down("win_rate"), Down("wins"), Up("name")>>
    [] sortBy \in {"avg_apm", "avg_eapm"} /\ down -> <<Down(sortBy), Down("wins"), Down("games"), Up("name")>>

\* resolveOrder of the analyzer; a word that is no column means games.
MatchupKeys(sortBy, down) ==
  CASE sortBy = "matchup" -> << IF down THEN Down("matchup") ELSE Up("matchup") >>
    [] sortBy # "matchup" /\ ~down -> <<Up(sortBy), Up("matchup")>>
    [] sortBy = "games" /\ down -> <<Down("games"), Down("team_a_win_rate"), Up("matchup")>>
    [] sortBy \in {"team_a_win_rate", "team_b_win_rate"} /\ down -> <<Down(sortBy), Down("games"), Up("matchup")>>

NameBefore(a, b) == NameOrder[a.name] < NameOrder[b.name]

\* team_a || ' vs ' || team_b; a shorter composition comes first, the blank is a small letter.
MatchupBefore(a, b) ==
  LET code(m) == [i \in 1 .. Len(m[1]) + 1 + Len(m[2]) |->
                    IF i <= Len(m[1]) THEN m[1][i]
                    ELSE IF i = Len(m[1]) + 1 THEN 0 ELSE m[2][i - Len(m[1]) - 1]]
      x == code(a.matchup)
      y == code(b.matchup)
  IN  \E i \in DOMAIN x \cap DOMAIN y : x[i] < y[i] /\ \A j \in 1 .. i - 1 : x[j] = y[j]

Less(a, b, column) ==
  CASE column = "name" -> NameBefore(a, b)
    [] column = "matchup" -> MatchupBefore(a, b)
    [] OTHER -> a[column] < b[column]

\* ORDER BY: a comes before b by the first key in which they differ.
Precedes(a, b, keys) ==
  \E i \in DOMAIN keys :
     /\ \A j \in 1 .. i - 1 : a[keys[j].column] = b[keys[j].column]
     /\ IF keys[i].down THEN Less(b, a, keys[i].column) ELSE Less(a, b, keys[i].column)

\* The rows with their places.  Rows that tie share one: every query may order them differently.
Sorted(rows, keys) == {[row |-> x, place |-> Cardinality({y \in rows : Precedes(y, x, keys)}) + 1] : x \in rows}

\* Offset and limit.
Page(list, page, size) == {x \in list : x.place \in (page - 1) * size + 1 .. page * size}

TotalPages(n, size) == (n + size - 1) \div size

-----------------------------------------------------------------------------
(* The record of a player: all rows of the name, and then all rows of their games. *)

LongGames == {r \in DOMAIN games : games[r].length > invalidGameMaxDurationSeconds}

\* [key -> its games, wins and losses]
Tally(rows, key(_)) ==
  [k \in {key(x) : x \in rows} |->
     LET of == {x \in rows : key(x) = k}
     IN  [total  |-> Cardinality(of),
          wins   |-> Cardinality({x \in of : x.result = "win"}),
          losses |-> Cardinality({x \in of : x.result = "loss"})]]

PlayerRows(name) ==
  {[game |-> x.game, seat |-> x.seat, team |-> PlayerOf(x).team, race |-> PlayerOf(x).race,
    result |-> PlayerOf(x).result, map |-> games[x.game].map] :
      x \in {y \in Rows(LongGames) : PlayerOf(y).name = name}}

\* Without rows the answer is 404.
GetPlayerStats(name) ==
  /\ request # NoRequest => request.done
  /\ PlayerRows(name) # {}
  /\ request' = [name |-> name, records |-> PlayerRows(name), done |-> FALSE, same |-> TRUE]
  /\ UNCHANGED <<games, migrated>>

\* A game that is gone by now has no opponents.
OpponentsOf(records) ==
  LET ofGame(x) == IF x.game \in LongGames THEN Rows({x.game}) ELSE {}
  IN  UNION {{[record |-> x, race |-> PlayerOf(o).race, result |-> x.result, seat |-> o.seat] :
                o \in {p \in ofGame(x) : PlayerOf(p).team # x.team}} : x \in records}

AnswerPlayerStats ==
  /\ request # NoRequest /\ ~request.done
  /\ LET rows == request.records
         Having(res) == Cardinality({x \in rows : x.result = res})
     IN  request' = [name |-> request.name, done |-> TRUE, same |-> request.same,
                     total |-> Cardinality(rows), wins |-> Having("win"),
                     losses |-> Having("loss"), draws |-> Having("draw"),
                     races |-> Tally(rows, LAMBDA x : x.race),
                     maps |-> Tally({x \in rows : x.map # ""}, LAMBDA x : x.map),
                     matchups |-> Tally(OpponentsOf(rows), LAMBDA x : x.race)]
  /\ UNCHANGED <<games, migrated>>

-----------------------------------------------------------------------------
(* Writes. *)

\* A write between the two reads of a request is noted; one that has its answer is over.
Disturb == IF (request # NoRequest => request.done) THEN NoRequest ELSE [request EXCEPT !.same = FALSE]

\* A recording that is not stored yet.
createNewGame(r) ==
  /\ r \notin DOMAIN games /\ Cardinality(DOMAIN games) < MaxGames
  /\ games' = [x \in DOMAIN games \cup {r} |->
                 IF x = r THEN normalizeParsedOutcomeForShortGame(ParseReplayData(r)) ELSE games[x]]
  /\ request' = Disturb
  /\ UNCHANGED migrated

DeleteGame(r) ==
  /\ r \in DOMAIN games
  /\ games' = [x \in DOMAIN games \ {r} |-> games[x]]
  /\ request' = Disturb
  /\ UNCHANGED migrated

loadTargetGameIDs(limit) == {r \in DOMAIN games : games[r].length > 0 /\ games[r].length <= limit}

\* updateGames and updatePlayers, in one transaction.
NormalizeShortGames(limit) ==
  /\ games' = [r \in DOMAIN games |-> IF r \in loadTargetGameIDs(limit) THEN Drawn(games[r]) ELSE games[r]]
  /\ migrated' = (migrated \/ limit >= invalidGameMaxDurationSeconds)
  /\ request' = Disturb

StatisticsInit ==
  /\ \E old \in SUBSET Unnormalized : games = [r \in old |-> ParseReplayData(r)]
  /\ migrated = FALSE
  /\ request = NoRequest

StatisticsNext ==
  \/ \E r \in Recordings : createNewGame(r) \/ DeleteGame(r)
  \/ \E limit \in MigrationLimits : NormalizeShortGames(limit)
  \/ \E name \in Asked : GetPlayerStats(name)
  \/ AnswerPlayerStats

StatisticsSpec == StatisticsInit /\ [][StatisticsNext]_statisticsVars

-----------------------------------------------------------------------------
(* Properties. *)

\* Game, flag and result tell one story: nobody wins a game without a winning team, in
\* any other the winners are that team, and the losers all others.
TellsOneStory(g) ==
  \A s \in DOMAIN g.players :
     LET p == g.players[s] IN
     /\ p.isWinner <=> p.result = "win"
     /\ p.isWinner <=> (g.winnerTeam > 0 /\ p.team = g.winnerTeam)
     /\ p.result = "loss" <=> (g.winnerTeam > 0 /\ p.team # g.winnerTeam)

\* "Game policy: playtime <= 2 minutes is treated as invalid draw (no winner/loser)":
\* by the upload, and for rows of older versions by the migration job.
OutcomesAgree ==
  \A r \in DOMAIN games :
     /\ TellsOneStory(games[r])
     /\ (r \notin Unnormalized \/ migrated) /\ isInvalidShortGameLength(games[r].length) =>
          games[r].winnerTeam = 0 /\ \A s \in DOMAIN games[r].players : games[r].players[s].result = "draw"

\* Each qualified game is in the ranking six times, with three wins and three losses, or as
\* a draw, or undecided, and in the matchups once, as a win of the composition that won.
GamesCountedOnce ==
  LET ranking == compute3v3Rows(1)
      matchups == computeRows
      Total(rows, n(_)) == MapThenSumSet(n, rows)
      Decided == {r \in Qualified3v3 : games[r].winnerTeam > 0}
      Winners(r) == Comp(games[r], games[r].winnerTeam)
  IN  /\ Total(ranking, LAMBDA x : x.games) = 6 * Cardinality(Qualified3v3)
      /\ Total(ranking, LAMBDA x : x.wins) = 3 * Cardinality(Decided)
      /\ Total(ranking, LAMBDA x : x.losses) = 3 * Cardinality(Decided)
      /\ Decided \subseteq MatchupGames
      /\ Total(matchups, LAMBDA x : x.games) = Cardinality(MatchupGames)
      /\ \A x \in matchups :
           /\ x.aWins + x.bWins = x.games
           /\ x.matchup[1] # x.matchup[2] =>
                x.aWins = Cardinality({r \in MatchupGames : MatchupOf(games[r]) = x.matchup
                                                              /\ Winners(r) = x.matchup[1]})

\* The page of a player and the ranking agree on a player who spells the name one way and
\* plays 3v3 only, as long as no write came between the reads; whatever came between, the
\* parts of the page agree with each other.
RecordsMatchRanking ==
  request # NoRequest /\ request.done =>
     LET a == request
         key == KeyOf[a.name]
         row == CHOOSE x \in compute3v3Rows(1) : x.key = key
         Alone == /\ \A r \in DOMAIN games : \A s \in DOMAIN games[r].players :
                       games[r].players[s].name = a.name => r \in Qualified3v3 \/ r \notin LongGames
                  /\ \A r \in DOMAIN games : \A s \in DOMAIN games[r].players :
                       KeyOf[games[r].players[s].name] = key => games[r].players[s].name = a.name
         Sum(t, part) == SumFunction([k \in DOMAIN t |-> t[k][part]])
     IN  /\ a.same /\ Alone =>
              <<a.total, a.wins, a.losses, a.draws>> = <<row.games, row.wins, row.losses, row.draws>>
         /\ Sum(a.races, "total") = a.total /\ Sum(a.races, "wins") = a.wins
         /\ Sum(a.races, "losses") = a.losses
         /\ a.same /\ Alone => Sum(a.matchups, "total") = 3 * a.total /\ Sum(a.matchups, "wins") = 3 * a.wins
         /\ \A k \in DOMAIN a.matchups : a.matchups[k].wins + a.matchups[k].losses <= a.matchups[k].total

StatisticsAgree == GamesCountedOnce /\ RecordsMatchRanking

\* Whatever a list is sorted by, in either direction, and whatever it is restricted to: a row
\* comes before another exactly when the order says so, and each page of any size is full, up
\* to the last, which holds the rest.  No two rows tie, so that page after page, each read by
\* a query of its own, shows each row once.
InPages(rows, keys) ==
  LET list == Sorted(rows, keys)
      n == Cardinality(rows)
  IN  /\ \A x, y \in list : x.place < y.place <=> Precedes(x.row, y.row, keys)
      /\ \A size \in 1 .. MaxPageSize :
           LET last == TotalPages(n, size)
           IN  \A p \in 1 .. last :
                 Cardinality(Page(list, p, size)) = IF p < last THEN size ELSE n - size * (last - 1)

PagesPartition ==
  LET ranking == compute3v3Rows(1)
      matchups == computeRows
  IN  /\ \A minGames \in {row.games : row \in ranking}, sortBy \in RankingColumns, down \in BOOLEAN :
           InPages(RankingList(ranking, minGames), RankingKeys(sortBy, down))
      /\ \A teamSize \in UNION {{0, Len(m.matchup[1])} : m \in matchups}, sortBy \in MatchupColumns, down \in BOOLEAN :
           InPages(MatchupList(matchups, teamSize), MatchupKeys(sortBy, down))
=============================================================================
