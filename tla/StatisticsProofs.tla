--------------------------- MODULE StatisticsProofs ---------------------------
(***************************************************************************)
(* Proofs about GameStatistics, for any recordings and any limits of the   *)
(* migration job: what is stored of a game is its outcome, or a draw; the  *)
(* pages of a list show each row once; and the three statistics count the  *)
(* same games.                                                             *)
(***************************************************************************)
EXTENDS GameStatistics, FiniteSetTheorems, WellFoundedInduction, TLAPS

-----------------------------------------------------------------------------
(* Finite sets: the least element, and sums of cardinalities. *)

LEMMA LeastNumber ==
  ASSUME NEW T \in SUBSET Nat, T # {} PROVE \E n \in T : \A m \in T : n <= m
<1>1. \E n \in T : \A m \in T : ~(<<m, n>> \in OpToRel(<, Nat))
  BY NatLessThanWellFounded, WFMin
<1>2. OpToRel(<, Nat) = {pair \in Nat \X Nat : pair[1] < pair[2]}
  BY DEF OpToRel
<1>3. \A m, n \in Nat : ~(<<m, n>> \in {pair \in Nat \X Nat : pair[1] < pair[2]}) => n <= m
  OBVIOUS
<1> QED BY <1>1, <1>2, <1>3

\* What induction over the subsets of a finite set rests on.
LEMMA SmallestSet ==
  ASSUME NEW S, IsFiniteSet(S), NEW T \in SUBSET SUBSET S, T # {}
  PROVE  \E U \in T : \A V \in T : V \subseteq U => V = U
<1>1. IsWellFoundedOn(StrictSubsetOrdering(S), SUBSET S)
  BY FS_StrictSubsetOrderingWellFounded, FS_FiniteSubsetsOfFinite
<1>2. \E U \in T : \A V \in T : ~(<<V, U>> \in StrictSubsetOrdering(S))
  BY <1>1, WFMin
<1> QED BY <1>2 DEF StrictSubsetOrdering

LEMMA LeastOfFinite ==
  ASSUME NEW S, IsFiniteSet(S), S # {}, NEW value, \A x \in S : value[x] \in Int
  PROVE  \E x \in S : \A y \in S : value[x] <= value[y]
<1> DEFINE below(x) == {y \in S : value[y] < value[x]}
           T == {below(x) : x \in S}
<1>1. T \in SUBSET SUBSET S /\ T # {}
  OBVIOUS
<1>2. PICK U \in T : \A V \in T : V \subseteq U => V = U
  <2> HIDE DEF T
  <2> QED BY <1>1, SmallestSet
<1>3. PICK x \in S : U = below(x)
  BY <1>2
<1>4. ASSUME NEW y \in S, value[y] < value[x] PROVE FALSE
  <2>1. below(y) \subseteq below(x) /\ y \in below(x) /\ y \notin below(y)
    BY <1>4
  <2> QED BY <1>2, <1>3, <2>1
<1> QED BY <1>4

\* MapThenSumSet and SumFunction define their sum by recursion over the subsets of S.
SumsParts(sum, S, part) ==
  sum = [s \in SUBSET S |->
           IF s = {} THEN 0
           ELSE Cardinality(part[CHOOSE x \in s : TRUE]) + sum[s \ {CHOOSE x \in s : TRUE}]]

\* part cuts a set in pieces, one for each element of S.
IsCut(S, part) ==
  /\ IsFiniteSet(S) /\ \A x \in S : IsFiniteSet(part[x])
  /\ \A x, y \in S : x # y => part[x] \cap part[y] = {}

\* What the pieces of some elements make up.
Pieces(part, s) == UNION {part[x] : x \in s}

LEMMA PiecesAreFinite ==
  ASSUME NEW S, NEW part, IsCut(S, part), NEW s \in SUBSET S PROVE IsFiniteSet(Pieces(part, s))
<1> DEFINE image == {part[x] : x \in s}
           f == [x \in s |-> part[x]]
<1>1. IsFiniteSet(s)
  BY FS_Subset DEF IsCut
<1>2. f \in Surjection(s, image)
  BY DEF Surjection
<1>3. IsFiniteSet(image)
  <2> HIDE DEF f, image
  <2> QED BY <1>1, <1>2, FS_Surjection DEF ExistsSurjection
<1>4. \A p \in image : IsFiniteSet(p)
  BY DEF IsCut
<1>5. IsFiniteSet(UNION image)
  <2> HIDE DEF image
  <2> QED BY <1>3, <1>4, FS_UNION
<1> QED BY <1>5 DEF Pieces

LEMMA OnePieceMore ==
  ASSUME NEW S, NEW part, IsCut(S, part), NEW s \in SUBSET S, NEW x \in s
  PROVE  Cardinality(Pieces(part, s)) = Cardinality(part[x]) + Cardinality(Pieces(part, s \ {x}))
<1> DEFINE rest == Pieces(part, s \ {x})
<1>1. Pieces(part, s) = part[x] \cup rest
  BY DEF Pieces
<1>2. part[x] \cap rest = {}
  BY DEF IsCut, Pieces
<1>3. IsFiniteSet(part[x]) /\ IsFiniteSet(rest)
  BY PiecesAreFinite DEF IsCut
<1> HIDE DEF rest
<1>4. Cardinality(part[x]) \in Nat /\ Cardinality(rest) \in Nat
  BY <1>3, FS_CardinalityType
<1>5. Cardinality(part[x] \cup rest) = Cardinality(part[x]) + Cardinality(rest) - Cardinality(part[x] \cap rest)
  BY <1>3, FS_Union
<1>6. Cardinality(part[x] \cap rest) = 0
  BY <1>2, FS_EmptySet
<1> QED BY <1>1, <1>4, <1>5, <1>6 DEF rest

LEMMA NoPieces ==
  ASSUME NEW part PROVE Cardinality(Pieces(part, {})) = 0
<1>1. Pieces(part, {}) = {}
  BY DEF Pieces
<1> QED BY <1>1, FS_EmptySet

\* There is such a sum: the cardinality of what the pieces of a subset make up.
LEMMA SumOfPartsExists ==
  ASSUME NEW S, NEW part, IsCut(S, part) PROVE \E sum : SumsParts(sum, S, part)
<1> DEFINE sum == [s \in SUBSET S |-> Cardinality(Pieces(part, s))]
<1>1. \A s \in SUBSET S : sum[s] = Cardinality(Pieces(part, s))
  OBVIOUS
<1>2. ASSUME NEW s \in SUBSET S
      PROVE  sum[s] = IF s = {} THEN 0
                      ELSE Cardinality(part[CHOOSE x \in s : TRUE]) + sum[s \ {CHOOSE x \in s : TRUE}]
  <2> HIDE DEF sum
  <2>1. CASE s = {}
    BY <1>1, <2>1, NoPieces
  <2>2. CASE s # {}
    <3> DEFINE x == CHOOSE x \in s : TRUE
    <3>1. x \in s
      BY <2>2
    <3> HIDE DEF x
    <3>2. s \ {x} \in SUBSET S
      OBVIOUS
    <3>3. sum[s] = Cardinality(part[x]) + sum[s \ {x}]
      BY <1>1, <3>1, <3>2, OnePieceMore
    <3> QED BY <2>2, <3>3 DEF x
  <2> QED BY <2>1, <2>2
<1>3. sum = [s \in SUBSET S |-> sum[s]]
  OBVIOUS
<1> HIDE DEF sum
<1>4. SumsParts(sum, S, part)
  BY <1>2, <1>3, Zenon DEF SumsParts
<1> QED BY <1>4

\* And there is no other.
LEMMA SumOfPartsIsCount ==
  ASSUME NEW S, NEW part, IsCut(S, part), NEW sum, SumsParts(sum, S, part)
  PROVE  sum[S] = Cardinality(Pieces(part, S))
<1> DEFINE wrong == {s \in SUBSET S : sum[s] # Cardinality(Pieces(part, s))}
<1>1. ASSUME wrong # {} PROVE FALSE
  <2>1. PICK s \in wrong : \A t \in wrong : t \subseteq s => t = s
    <3>1. wrong \in SUBSET SUBSET S /\ IsFiniteSet(S)
      BY DEF IsCut
    <3> HIDE DEF wrong
    <3> QED BY <1>1, <3>1, SmallestSet
  <2>2. CASE s = {}
    <3>1. sum[s] = 0
      BY <2>2 DEF SumsParts
    <3> QED BY <2>1, <2>2, <3>1, NoPieces
  <2>3. CASE s # {}
    <3> DEFINE x == CHOOSE x \in s : TRUE
    <3>1. x \in s
      BY <2>3
    <3>2. sum[s] = Cardinality(part[x]) + sum[s \ {x}]
      BY <2>3 DEF SumsParts
    <3> HIDE DEF x
    <3>3. sum[s \ {x}] = Cardinality(Pieces(part, s \ {x}))
      BY <2>1, <3>1
    <3>4. Cardinality(Pieces(part, s)) = Cardinality(part[x]) + Cardinality(Pieces(part, s \ {x}))
      BY <3>1, OnePieceMore
    <3> QED BY <2>1, <3>2, <3>3, <3>4
  <2> QED BY <2>2, <2>3
<1> QED BY <1>1

-----------------------------------------------------------------------------
(* The rows of games. *)

\* The row of a drawn game, spelled out.
DrawnRow(r) ==
  [length |-> r.length, winnerTeam |-> 0, map |-> r.map, playerCount |-> Cardinality(Shown(r)),
   players |-> [s \in Shown(r) |-> [name |-> r.players[s].name, team |-> r.players[s].team,
                                    race |-> r.players[s].race, apm |-> r.players[s].apm,
                                    eapm |-> r.players[s].eapm, isWinner |-> FALSE, result |-> "draw"]]]

\* What OutcomesAgree needs to be inductive: there are only two rows a recording can have.
RowsAreOutcomes ==
  \A r \in DOMAIN games :
     /\ r \in Recordings
     /\ games[r] \in {ParseReplayData(r), DrawnRow(r)}
     /\ (r \notin Unnormalized \/ migrated) /\ isInvalidShortGameLength(r.length) => games[r] = DrawnRow(r)

\* Drawing a game again changes nothing.
LEMMA DrawnIsDrawn ==
  ASSUME NEW r PROVE Drawn(ParseReplayData(r)) = DrawnRow(r) /\ Drawn(DrawnRow(r)) = DrawnRow(r)
<1>1. ASSUME NEW s \in Shown(r)
      PROVE  DrawnPlayer(extractPlayers(r)[s]) = DrawnRow(r).players[s]
  BY DEF extractPlayers, DrawnPlayer, DrawnRow
<1>2. Drawn(ParseReplayData(r)) = DrawnRow(r)
  <2>1. DOMAIN extractPlayers(r) = Shown(r)
    BY DEF extractPlayers
  <2> QED BY <1>1, <2>1 DEF Drawn, ParseReplayData, DrawnRow
<1>3. Drawn(DrawnRow(r)) = DrawnRow(r)
  BY DEF Drawn, DrawnRow, DrawnPlayer
<1> QED BY <1>2, <1>3

LEMMA LengthIsKept ==
  ASSUME NEW r PROVE ParseReplayData(r).length = r.length /\ DrawnRow(r).length = r.length
BY DEF ParseReplayData, DrawnRow

LEMMA RowTellsOneStory ==
  ASSUME NEW r \in Recordings
  PROVE  TellsOneStory(ParseReplayData(r)) /\ TellsOneStory(DrawnRow(r))
<1>1. ASSUME NEW s \in Shown(r) PROVE r.players[s].team \in Nat \ {0} /\ r.winner \in Nat
  BY <1>1, RecordingsAssumption DEF Shown
<1>2. TellsOneStory(DrawnRow(r))
  BY DEF TellsOneStory, DrawnRow
<1>3. TellsOneStory(ParseReplayData(r))
  <2> SUFFICES ASSUME NEW s \in Shown(r)
               PROVE  LET p == ParseReplayData(r).players[s] IN
                      /\ p.isWinner <=> p.result = "win"
                      /\ p.isWinner <=> (r.winner > 0 /\ p.team = r.winner)
                      /\ p.result = "loss" <=> (r.winner > 0 /\ p.team # r.winner)
    BY DEF TellsOneStory, ParseReplayData, extractPlayers
  <2> DEFINE p == ParseReplayData(r).players[s]
  <2>1. /\ p.team = r.players[s].team
        /\ p.isWinner = (r.winner > 0 /\ r.players[s].team = r.winner)
        /\ p.result = OutcomeFor(r, s)
    BY DEF ParseReplayData, extractPlayers
  <2>2. (p.isWinner) <=> (r.winner > 0 /\ r.players[s].team = r.winner)
    BY <2>1
  <2>3. /\ OutcomeFor(r, s) = "win" <=> (r.winner > 0 /\ r.players[s].team = r.winner)
        /\ OutcomeFor(r, s) = "loss" <=> (r.winner > 0 /\ r.players[s].team # r.winner)
    BY <1>1 DEF OutcomeFor
  <2> HIDE DEF p
  <2> QED BY <2>1, <2>2, <2>3, Zenon DEF p
<1> QED BY <1>2, <1>3

LEMMA RowsInitially == StatisticsInit => RowsAreOutcomes
BY RecordingsAssumption DEF StatisticsInit, RowsAreOutcomes

LEMMA CreateKeepsRows ==
  ASSUME RowsAreOutcomes, NEW r \in Recordings, createNewGame(r) PROVE RowsAreOutcomes'
<1>1. ASSUME NEW x \in DOMAIN games' PROVE x = r \/ (x \in DOMAIN games /\ games'[x] = games[x] /\ x # r)
  BY <1>1 DEF createNewGame
<1>2. games'[r] = IF isInvalidShortGameLength(r.length) THEN DrawnRow(r) ELSE ParseReplayData(r)
  BY DrawnIsDrawn, LengthIsKept DEF createNewGame, normalizeParsedOutcomeForShortGame
<1>3. migrated' = migrated
  BY DEF createNewGame
<1> QED BY <1>1, <1>2, <1>3 DEF RowsAreOutcomes

LEMMA MigrationKeepsRows ==
  ASSUME RowsAreOutcomes, NEW limit \in MigrationLimits, NormalizeShortGames(limit)
  PROVE  RowsAreOutcomes'
<1>0. limit \in Nat
  BY LimitsAssumption
<1> SUFFICES ASSUME NEW r \in DOMAIN games'
             PROVE  /\ r \in Recordings
                    /\ games'[r] \in {ParseReplayData(r), DrawnRow(r)}
                    /\ (r \notin Unnormalized \/ migrated') /\ isInvalidShortGameLength(r.length)
                         => games'[r] = DrawnRow(r)
  BY DEF RowsAreOutcomes
<1>1. /\ r \in DOMAIN games
      /\ games'[r] = IF r \in loadTargetGameIDs(limit) THEN Drawn(games[r]) ELSE games[r]
      /\ migrated' => migrated \/ limit >= 120
  BY DEF NormalizeShortGames, invalidGameMaxDurationSeconds
<1>2. r \in Recordings /\ games[r] \in {ParseReplayData(r), DrawnRow(r)} /\ r.length \in Nat
  BY <1>1, RecordingsAssumption DEF RowsAreOutcomes
<1>3. games[r].length = r.length /\ Drawn(games[r]) = DrawnRow(r)
  BY <1>2, DrawnIsDrawn, LengthIsKept
<1>4. limit >= 120 /\ isInvalidShortGameLength(r.length) => r \in loadTargetGameIDs(limit)
  BY <1>0, <1>1, <1>2, <1>3 DEF loadTargetGameIDs, isInvalidShortGameLength, invalidGameMaxDurationSeconds
<1> QED BY <1>1, <1>2, <1>3, <1>4 DEF RowsAreOutcomes

LEMMA RowsStep == RowsAreOutcomes /\ [StatisticsNext]_statisticsVars => RowsAreOutcomes'
<1> SUFFICES ASSUME RowsAreOutcomes, [StatisticsNext]_statisticsVars PROVE RowsAreOutcomes'
  OBVIOUS
<1>1. ASSUME NEW r \in Recordings, createNewGame(r) PROVE RowsAreOutcomes'
  BY <1>1, CreateKeepsRows
<1>2. ASSUME NEW r \in Recordings, DeleteGame(r) PROVE RowsAreOutcomes'
  BY <1>2 DEF DeleteGame, RowsAreOutcomes
<1>3. ASSUME NEW limit \in MigrationLimits, NormalizeShortGames(limit) PROVE RowsAreOutcomes'
  BY <1>3, MigrationKeepsRows
<1>4. CASE \/ UNCHANGED statisticsVars
           \/ \E name \in Asked : GetPlayerStats(name)
           \/ AnswerPlayerStats
  BY <1>4 DEF GetPlayerStats, AnswerPlayerStats, statisticsVars, RowsAreOutcomes
<1> QED BY <1>1, <1>2, <1>3, <1>4 DEF StatisticsNext

LEMMA RowsGiveOutcomes == RowsAreOutcomes => OutcomesAgree
<1> SUFFICES ASSUME RowsAreOutcomes, NEW r \in DOMAIN games
             PROVE  /\ TellsOneStory(games[r])
                    /\ (r \notin Unnormalized \/ migrated) /\ isInvalidShortGameLength(games[r].length) =>
                         games[r].winnerTeam = 0 /\ \A s \in DOMAIN games[r].players : games[r].players[s].result = "draw"
  BY DEF OutcomesAgree
<1>1. r \in Recordings /\ games[r] \in {ParseReplayData(r), DrawnRow(r)} /\ games[r].length = r.length
  BY LengthIsKept DEF RowsAreOutcomes
<1>2. TellsOneStory(games[r])
  BY <1>1, RowTellsOneStory
<1>3. games[r] = DrawnRow(r) =>
        games[r].winnerTeam = 0 /\ \A s \in DOMAIN games[r].players : games[r].players[s].result = "draw"
  BY DEF DrawnRow
<1> QED BY <1>1, <1>2, <1>3 DEF RowsAreOutcomes

\* Whatever is uploaded, deleted and migrated in whatever order, flags, results and winning
\* team of a stored game tell one story, and a short game is a draw once it is uploaded or
\* migrated.
THEOREM OutcomesAlwaysAgree == StatisticsSpec => []OutcomesAgree
BY RowsInitially, RowsStep, RowsGiveOutcomes, PTL DEF StatisticsSpec

-----------------------------------------------------------------------------
(* Sorting: the positions of a finite set in a strict order without ties. *)

IsStrictOrder(before, S) ==
  /\ \A x \in S : <<x, x>> \notin before
  /\ \A x, y, z \in S : <<x, y>> \in before /\ <<y, z>> \in before => <<x, z>> \in before
  /\ \A x, y \in S : x # y => <<x, y>> \in before \/ <<y, x>> \in before

\* The position of each element, counted from one.
PositionsIn(before, S) == [x \in S |-> Cardinality({y \in S : <<y, x>> \in before}) + 1]

\* Every number from one to the size of the set is the position of one element.
LEMMA PositionsAreNumbers ==
  ASSUME NEW S, IsFiniteSet(S), NEW before, IsStrictOrder(before, S)
  PROVE  PositionsIn(before, S) \in Bijection(S, 1 .. Cardinality(S))
<1> DEFINE below(x) == {y \in S : <<y, x>> \in before}
           pos == PositionsIn(before, S)
           n == Cardinality(S)
<1>1. \A x \in S : pos[x] = Cardinality(below(x)) + 1
  BY DEF PositionsIn
<1>2. \A x \in S : IsFiniteSet(below(x)) /\ Cardinality(below(x)) \in Nat
  BY FS_Subset, FS_CardinalityType
<1>3. n \in Nat
  BY FS_CardinalityType
<1>4. ASSUME NEW x \in S PROVE Cardinality(below(x)) < n
  <2>1. below(x) \in SUBSET S /\ below(x) # S
    BY DEF IsStrictOrder
  <2> HIDE DEF below
  <2>2. Cardinality(below(x)) <= n /\ Cardinality(below(x)) # n
    BY <2>1, FS_Subset
  <2> QED BY <1>2, <1>3, <2>2
<1>5. ASSUME NEW x \in S, NEW y \in S, <<y, x>> \in before
      PROVE  Cardinality(below(y)) < Cardinality(below(x))
  <2>1. below(y) \in SUBSET below(x) /\ y \in below(x) /\ y \notin below(y)
    BY <1>5 DEF IsStrictOrder
  <2> HIDE DEF below
  <2>2. Cardinality(below(y)) <= Cardinality(below(x)) /\ Cardinality(below(y)) # Cardinality(below(x))
    BY <1>2, <2>1, FS_Subset
  <2> QED BY <1>2, <2>2
<1> HIDE DEF below
<1>6. pos \in Injection(S, 1 .. n)
  <2>1. \A x \in S : pos[x] \in 1 .. n
    BY <1>1, <1>2, <1>3, <1>4
  <2>2. ASSUME NEW x \in S, NEW y \in S, x # y PROVE pos[x] # pos[y]
    <3>1. <<x, y>> \in before \/ <<y, x>> \in before
      BY <2>2 DEF IsStrictOrder
    <3>2. Cardinality(below(x)) # Cardinality(below(y))
      BY <1>2, <1>5, <3>1
    <3> QED BY <1>1, <1>2, <3>2
  <2>3. pos = [x \in S |-> pos[x]]
    BY DEF PositionsIn
  <2> HIDE DEF pos
  <2> QED BY <2>1, <2>2, <2>3 DEF Injection, IsInjective
<1>7. IsFiniteSet(1 .. n) /\ Cardinality(1 .. n) = n
  BY <1>3, FS_Interval
<1>8. pos \in Surjection(S, 1 .. n)
  <2> HIDE DEF pos
  <2> QED BY <1>6, <1>7, FS_Injection
<1> QED BY <1>6, <1>8 DEF Bijection

\* Positions follow the order.
LEMMA PositionsFollow ==
  ASSUME NEW S, IsFiniteSet(S), NEW before, IsStrictOrder(before, S), NEW x \in S, NEW y \in S
  PROVE  PositionsIn(before, S)[x] < PositionsIn(before, S)[y] <=> <<x, y>> \in before
<1> DEFINE below(z) == {w \in S : <<w, z>> \in before}
<1>1. \A z \in S : IsFiniteSet(below(z)) /\ Cardinality(below(z)) \in Nat
  BY FS_Subset, FS_CardinalityType
<1>2. ASSUME NEW w \in S, NEW z \in S, <<w, z>> \in before
      PROVE  Cardinality(below(w)) < Cardinality(below(z))
  <2>1. below(w) \in SUBSET below(z) /\ w \in below(z) /\ w \notin below(w)
    BY <1>2 DEF IsStrictOrder
  <2> HIDE DEF below
  <2>2. Cardinality(below(w)) <= Cardinality(below(z)) /\ Cardinality(below(w)) # Cardinality(below(z))
    BY <1>1, <2>1, FS_Subset
  <2> QED BY <1>1, <2>2
<1>3. x = y \/ <<x, y>> \in before \/ <<y, x>> \in before
  BY DEF IsStrictOrder
<1>4. <<x, x>> \notin before
  BY DEF IsStrictOrder
<1>5. \A z \in S : PositionsIn(before, S)[z] = Cardinality(below(z)) + 1
  BY DEF PositionsIn
<1> HIDE DEF below
<1> QED BY <1>1, <1>2, <1>3, <1>4, <1>5

\* So as many elements have a position between two numbers as there are numbers between them.
LEMMA PositionsCount ==
  ASSUME NEW S, IsFiniteSet(S), NEW before, IsStrictOrder(before, S),
         NEW a \in Nat, NEW b \in Nat, 1 <= a, a <= b + 1, b <= Cardinality(S)
  PROVE  Cardinality({x \in S : PositionsIn(before, S)[x] \in a .. b}) = b - a + 1
<1> DEFINE pos == PositionsIn(before, S)
           n == Cardinality(S)
           T == {x \in S : pos[x] \in a .. b}
           f == [x \in T |-> pos[x]]
<1>1. pos \in Bijection(S, 1 .. n)
  BY PositionsAreNumbers
<1>2. n \in Nat
  BY FS_CardinalityType
<1> HIDE DEF pos, n
<1>3. f \in Bijection(T, a .. b)
  <2>1. \A x, y \in T : f[x] = f[y] => x = y
    BY <1>1 DEF Bijection, Injection, IsInjective
  <2>2. \A i \in a .. b : \E x \in T : f[x] = i
    <3> SUFFICES ASSUME NEW i \in a .. b PROVE \E x \in T : f[x] = i
      OBVIOUS
    <3>1. i \in 1 .. n
      BY <1>2 DEF n
    <3>2. PICK x \in S : pos[x] = i
      BY <1>1, <3>1 DEF Bijection, Surjection
    <3> QED BY <3>2
  <2>3. f \in [T -> a .. b]
    OBVIOUS
  <2> HIDE DEF f, T
  <2> QED BY <2>1, <2>2, <2>3 DEF Bijection, Injection, Surjection, IsInjective
<1>4. IsFiniteSet(T)
  BY FS_Subset
<1>5. Cardinality(a .. b) = b - a + 1
  <2>1. Cardinality(a .. b) = IF a > b THEN 0 ELSE b - a + 1
    <3>1. a \in Int /\ b \in Int
      OBVIOUS
    <3> QED BY <3>1, FS_Interval, Zenon
  <2> QED BY <2>1
<1> HIDE DEF f, T
<1>6. Cardinality(a .. b) = Cardinality(T)
  BY <1>3, <1>4, FS_Bijection DEF ExistsBijection
<1> QED BY <1>5, <1>6 DEF T, pos

LEMMA DivisionIsInt ==
  ASSUME NEW n \in Nat, NEW size \in Nat \ {0} PROVE (n + size - 1) \div size \in Int
<1> DEFINE a == n + size - 1
<1>1. a \in Int /\ size \in Int /\ size > 0
  OBVIOUS
<1> HIDE DEF a
<1>2. a \div size \in Int
  BY <1>1
<1> QED BY <1>2 DEF a

LEMMA DivisionRest ==
  ASSUME NEW n \in Nat, NEW size \in Nat \ {0}
  PROVE  \E rest \in 0 .. size - 1 : n + size - 1 = size * ((n + size - 1) \div size) + rest
<1> DEFINE a == n + size - 1
<1>1. a \in Int /\ size \in Int /\ size > 0
  OBVIOUS
<1> HIDE DEF a
<1>2. a % size \in 0 .. size - 1 /\ a = size * (a \div size) + (a % size)
  BY <1>1
<1> QED BY <1>2 DEF a

LEMMA TimesGrows ==
  ASSUME NEW size \in Nat, NEW p \in Nat \ {0}, NEW last \in Int, p <= last
  PROVE  /\ p * size <= size * last /\ p * size >= size
         /\ p < last => p * size <= size * (last - 1)
<1>1. \A i, j \in Int : i <= j => i * size <= j * size
  OBVIOUS
<1>2. p * size <= last * size /\ last * size = size * last /\ 1 * size <= p * size
  BY <1>1
<1>3. p < last => p * size <= (last - 1) * size
  BY <1>1
<1> QED BY <1>2, <1>3

\* The pages of one size: each but the last is full, and the last has what is left.
LEMMA PagesOfOneSize ==
  ASSUME NEW S, IsFiniteSet(S), NEW before, IsStrictOrder(before, S),
         NEW size \in Nat \ {0}, NEW p \in 1 .. TotalPages(Cardinality(S), size)
  PROVE  Cardinality({x \in S : PositionsIn(before, S)[x] \in (p - 1) * size + 1 .. p * size})
           = IF p < TotalPages(Cardinality(S), size) THEN size
             ELSE Cardinality(S) - size * (TotalPages(Cardinality(S), size) - 1)
<1> DEFINE pos == PositionsIn(before, S)
           n == Cardinality(S)
           last == (n + size - 1) \div size
           a == (p - 1) * size + 1
           b == IF p < last THEN p * size ELSE n
<1>1. pos \in Bijection(S, 1 .. n)
  BY PositionsAreNumbers
<1>2. n \in Nat
  BY FS_CardinalityType
<1>3. p \in 1 .. last /\ TotalPages(Cardinality(S), size) = last
  BY DEF TotalPages
<1> HIDE DEF n, pos
<1>4. /\ a \in Nat /\ b \in Nat /\ 1 <= a /\ a <= b + 1 /\ b <= n
      /\ b - a + 1 = IF p < last THEN size ELSE n - size * (last - 1)
      /\ \A i \in 1 .. n : i \in a .. p * size <=> i \in a .. b
  <2>1. PICK rest \in 0 .. size - 1 : n + size - 1 = size * last + rest
    BY <1>2, DivisionRest
  <2>2. last \in Int
    BY <1>2, DivisionIsInt
  <2> HIDE DEF last
  <2>3. size * (last - 1) = size * last - size /\ (p - 1) * size = p * size - size
    BY <1>3, <2>2
  <2>4. p * size <= size * last /\ (p < last => p * size <= size * (last - 1)) /\ p * size >= size
    BY <1>3, <2>2, TimesGrows
  <2>5. size * last \in Int /\ p * size \in Int
    BY <1>3, <2>2
  <2> QED BY <1>2, <1>3, <2>1, <2>2, <2>3, <2>4, <2>5
<1> HIDE DEF a, b, last
<1>5. \A x \in S : pos[x] \in 1 .. n
  BY <1>1 DEF Bijection, Injection
<1>6. {x \in S : pos[x] \in a .. p * size} = {x \in S : pos[x] \in a .. b}
  BY <1>4, <1>5
<1>7. Cardinality({x \in S : pos[x] \in a .. b}) = b - a + 1
  BY <1>4, PositionsCount DEF pos, n
<1> QED BY <1>3, <1>4, <1>6, <1>7 DEF pos, n, a

-----------------------------------------------------------------------------
(* A list of rows, sorted by several keys. *)

\* Less orders the rows by this column, up to equal values.
IsColumn(S, column) ==
  /\ \A a \in S : ~Less(a, a, column)
  /\ \A a, b, c \in S : Less(a, b, column) /\ Less(b, c, column) => Less(a, c, column)
  /\ \A a, b \in S : a[column] # b[column] => Less(a, b, column) \/ Less(b, a, column)
  /\ \A a, b, c \in S : a[column] = b[column] =>
       (Less(a, c, column) <=> Less(b, c, column)) /\ (Less(c, a, column) <=> Less(c, b, column))

\* The pairs of rows in the order of the keys.
PairsBy(S, keys) == {pair \in S \X S : Precedes(pair[1], pair[2], keys)}

\* Keys that order the rows and together tell any two of them apart.
AreKeys(S, keys) ==
  \E n \in Nat :
     /\ DOMAIN keys = 1 .. n
     /\ \A i \in 1 .. n : IsColumn(S, keys[i].column)
     /\ \A a, b \in S : (\A i \in 1 .. n : a[keys[i].column] = b[keys[i].column]) => a = b

\* Keys from these columns, one of which is the last resort.
KeysWith(keys, columns, resort) ==
  \E n \in Nat :
     /\ DOMAIN keys = 1 .. n
     /\ \A i \in 1 .. n : keys[i].column \in columns
     /\ \E i \in 1 .. n : keys[i].column = resort

LEMMA KeysOrder == ASSUME NEW S, NEW keys, AreKeys(S, keys) PROVE IsStrictOrder(PairsBy(S, keys), S)
<1>0. PICK n \in Nat :
        /\ DOMAIN keys = 1 .. n
        /\ \A i \in 1 .. n : IsColumn(S, keys[i].column)
        /\ \A a, b \in S : (\A i \in 1 .. n : a[keys[i].column] = b[keys[i].column]) => a = b
  BY DEF AreKeys
<1> DEFINE same(a, b, i) == a[keys[i].column] = b[keys[i].column]
           less(a, b, i) == IF keys[i].down THEN Less(b, a, keys[i].column) ELSE Less(a, b, keys[i].column)
<1>1. ASSUME NEW a \in S, NEW b \in S
      PROVE  <<a, b>> \in PairsBy(S, keys) <=>
               \E i \in 1 .. n : (\A j \in 1 .. i - 1 : same(a, b, j)) /\ less(a, b, i)
  BY <1>0 DEF PairsBy, Precedes
<1>2. ASSUME NEW i \in 1 .. n, NEW a \in S
      PROVE  /\ ~less(a, a, i)
             /\ \A b, c \in S : less(a, b, i) /\ less(b, c, i) => less(a, c, i)
             /\ \A b \in S : ~same(a, b, i) => less(a, b, i) \/ less(b, a, i)
             /\ \A b, c \in S : same(a, b, i) /\ less(b, c, i) => less(a, c, i)
             /\ \A b, c \in S : less(a, b, i) /\ same(b, c, i) => less(a, c, i)
  <2>1. IsColumn(S, keys[i].column)
    BY <1>0
  <2>2. CASE keys[i].down
    BY <2>1, <2>2 DEF IsColumn
  <2>3. CASE ~keys[i].down
    BY <2>1, <2>3 DEF IsColumn
  <2> QED BY <2>2, <2>3
<1>3. \A a, b \in S : (\A i \in 1 .. n : same(a, b, i)) => a = b
  BY <1>0
<1>4. \A a, b, c \in S, i \in 1 .. n : /\ same(a, b, i) => same(b, a, i)
                                       /\ same(a, b, i) /\ same(b, c, i) => same(a, c, i)
  OBVIOUS
<1> HIDE DEF same, less
<1>5. ASSUME NEW a \in S PROVE <<a, a>> \notin PairsBy(S, keys)
  BY <1>1, <1>2
<1>6. ASSUME NEW a \in S, NEW b \in S, NEW c \in S, <<a, b>> \in PairsBy(S, keys), <<b, c>> \in PairsBy(S, keys)
      PROVE  <<a, c>> \in PairsBy(S, keys)
  <2>1. PICK i \in 1 .. n : (\A j \in 1 .. i - 1 : same(a, b, j)) /\ less(a, b, i)
    BY <1>1, <1>6
  <2>2. PICK k \in 1 .. n : (\A j \in 1 .. k - 1 : same(b, c, j)) /\ less(b, c, k)
    BY <1>1, <1>6
  <2>3. CASE i < k
    <3>1. i \in 1 .. k - 1 /\ \A j \in 1 .. i - 1 : j \in 1 .. k - 1 /\ j \in 1 .. n
      BY <2>3
    <3>2. less(a, c, i) /\ \A j \in 1 .. i - 1 : same(a, c, j)
      BY <1>2, <1>4, <2>1, <2>2, <3>1
    <3> QED BY <1>1, <3>2
  <2>4. CASE k < i
    <3>1. k \in 1 .. i - 1 /\ \A j \in 1 .. k - 1 : j \in 1 .. i - 1 /\ j \in 1 .. n
      BY <2>4
    <3>2. less(a, c, k) /\ \A j \in 1 .. k - 1 : same(a, c, j)
      BY <1>2, <1>4, <2>1, <2>2, <3>1
    <3> QED BY <1>1, <3>2
  <2>5. CASE i = k
    <3>1. less(a, c, i)
      BY <1>2, <2>1, <2>2, <2>5
    <3>2. \A j \in 1 .. i - 1 : j \in 1 .. n
      OBVIOUS
    <3>3. \A j \in 1 .. i - 1 : same(a, c, j)
      BY <1>4, <2>1, <2>2, <2>5, <3>2
    <3> QED BY <1>1, <3>1, <3>3
  <2> QED BY <2>3, <2>4, <2>5
<1>7. ASSUME NEW a \in S, NEW b \in S, a # b PROVE <<a, b>> \in PairsBy(S, keys) \/ <<b, a>> \in PairsBy(S, keys)
  <2> DEFINE apart == {i \in 1 .. n : ~same(a, b, i)}
  <2>1. apart \in SUBSET Nat /\ apart # {}
    BY <1>3, <1>7
  <2>2. PICK i \in apart : \A j \in apart : i <= j
    <3> HIDE DEF apart
    <3> QED BY <2>1, LeastNumber
  <2>3. \A j \in 1 .. i - 1 : same(a, b, j) /\ same(b, a, j)
    <3> SUFFICES ASSUME NEW j \in 1 .. i - 1 PROVE same(a, b, j) /\ same(b, a, j)
      OBVIOUS
    <3>1. j \in 1 .. n /\ ~(i <= j)
      BY <2>2
    <3>2. j \notin apart
      BY <2>2, <3>1
    <3> QED BY <1>4, <3>1, <3>2
  <2>4. less(a, b, i) \/ less(b, a, i)
    BY <1>2, <2>2
  <2> QED BY <1>1, <2>2, <2>3, <2>4
<1> QED BY <1>5, <1>6, <1>7 DEF IsStrictOrder

\* The places of a sorted list are the positions of its rows.
LEMMA PlacesArePositions ==
  ASSUME NEW S, NEW keys
  PROVE  Sorted(S, keys) = {[row |-> x, place |-> PositionsIn(PairsBy(S, keys), S)[x]] : x \in S}
<1>1. ASSUME NEW x \in S
      PROVE  PositionsIn(PairsBy(S, keys), S)[x] = Cardinality({y \in S : Precedes(y, x, keys)}) + 1
  <2>1. {y \in S : <<y, x>> \in PairsBy(S, keys)} = {y \in S : Precedes(y, x, keys)}
    BY DEF PairsBy
  <2> QED BY <2>1 DEF PositionsIn
<1> QED BY <1>1 DEF Sorted

\* A list by such keys is in order and in pages.
LEMMA KeysGivePages ==
  ASSUME NEW S, IsFiniteSet(S), NEW keys, AreKeys(S, keys) PROVE InPages(S, keys)
<1> DEFINE before == PairsBy(S, keys)
           pos == PositionsIn(before, S)
           entry(x) == [row |-> x, place |-> pos[x]]
           list == Sorted(S, keys)
<1>1. IsStrictOrder(before, S)
  BY KeysOrder
<1>2. list = {entry(x) : x \in S}
  BY PlacesArePositions
<1>3. \A x, y \in S : <<x, y>> \in before <=> Precedes(x, y, keys)
  BY DEF PairsBy
<1>4. \A x, y \in S : pos[x] < pos[y] <=> <<x, y>> \in before
  <2> HIDE DEF before
  <2> QED BY <1>1, PositionsFollow
<1> HIDE DEF before, pos, list
<1>5. \A x, y \in list : x.place < y.place <=> Precedes(x.row, y.row, keys)
  <2> SUFFICES ASSUME NEW x \in list, NEW y \in list PROVE x.place < y.place <=> Precedes(x.row, y.row, keys)
    OBVIOUS
  <2>1. PICK a \in S : x = entry(a)
    BY <1>2
  <2>2. PICK b \in S : y = entry(b)
    BY <1>2
  <2>3. x.row = a /\ y.row = b /\ x.place = pos[a] /\ y.place = pos[b]
    BY <2>1, <2>2
  <2> QED BY <1>3, <1>4, <2>3
<1>6. ASSUME NEW size \in 1 .. MaxPageSize, NEW p \in 1 .. TotalPages(Cardinality(S), size)
      PROVE  Cardinality(Page(list, p, size))
               = IF p < TotalPages(Cardinality(S), size) THEN size
                 ELSE Cardinality(S) - size * (TotalPages(Cardinality(S), size) - 1)
  <2> DEFINE places == (p - 1) * size + 1 .. p * size
             shown == {x \in S : pos[x] \in places}
             f == [x \in shown |-> entry(x)]
  <2>1. f \in Bijection(shown, Page(list, p, size))
    <3>1. \A x, y \in shown : f[x] = f[y] => x = y
      OBVIOUS
    <3>2. Page(list, p, size) = {f[x] : x \in shown}
      <4>1. Page(list, p, size) = {e \in {entry(x) : x \in S} : e.place \in places}
        BY <1>2 DEF Page
      <4>2. \A x \in S : entry(x).place = pos[x]
        OBVIOUS
      <4> HIDE DEF entry, places
      <4>3. Page(list, p, size) = {entry(x) : x \in shown}
        BY <4>1, <4>2
      <4> QED BY <4>3
    <3> HIDE DEF shown
    <3>3. f = [x \in shown |-> f[x]]
      OBVIOUS
    <3> HIDE DEF f
    <3> QED BY <3>1, <3>2, <3>3 DEF Bijection, Injection, Surjection, IsInjective
  <2>2. IsFiniteSet(shown)
    BY FS_Subset
  <2>3. Cardinality(shown) = IF p < TotalPages(Cardinality(S), size) THEN size
                             ELSE Cardinality(S) - size * (TotalPages(Cardinality(S), size) - 1)
    BY <1>1, PagesOfOneSize DEF pos
  <2> HIDE DEF shown, f
  <2>4. Cardinality(Page(list, p, size)) = Cardinality(shown)
    BY <2>1, <2>2, FS_Bijection DEF ExistsBijection
  <2> QED BY <2>3, <2>4
<1> QED BY <1>5, <1>6 DEF InPages, list

-----------------------------------------------------------------------------
(* What is known of a stored game, and the rows of its players. *)

GamesAreFinite == IsFiniteSet(DOMAIN games)

LEMMA FiniteInitially == StatisticsInit => GamesAreFinite
BY RecordingsAssumption, FS_Subset DEF StatisticsInit, GamesAreFinite

LEMMA FiniteStep == GamesAreFinite /\ [StatisticsNext]_statisticsVars => GamesAreFinite'
<1> SUFFICES ASSUME IsFiniteSet(DOMAIN games), [StatisticsNext]_statisticsVars PROVE IsFiniteSet(DOMAIN games')
  BY DEF GamesAreFinite
<1>1. ASSUME NEW r \in Recordings, createNewGame(r) PROVE IsFiniteSet(DOMAIN games')
  <2>1. DOMAIN games' = DOMAIN games \cup {r}
    BY <1>1 DEF createNewGame
  <2> QED BY <2>1, FS_AddElement
<1>2. ASSUME NEW r \in Recordings, DeleteGame(r) PROVE IsFiniteSet(DOMAIN games')
  <2>1. DOMAIN games' = DOMAIN games \ {r}
    BY <1>2 DEF DeleteGame
  <2> QED BY <2>1, FS_RemoveElement
<1>3. ASSUME NEW limit \in MigrationLimits, NormalizeShortGames(limit) PROVE IsFiniteSet(DOMAIN games')
  BY <1>3 DEF NormalizeShortGames
<1>4. CASE UNCHANGED statisticsVars \/ (\E name \in Asked : GetPlayerStats(name)) \/ AnswerPlayerStats
  BY <1>4 DEF GetPlayerStats, AnswerPlayerStats, statisticsVars
<1> QED BY <1>1, <1>2, <1>3, <1>4 DEF StatisticsNext

LEMMA GameFacts ==
  ASSUME RowsAreOutcomes, NEW r \in DOMAIN games
  PROVE  /\ IsFiniteSet(DOMAIN games[r].players)
         /\ games[r].playerCount = Cardinality(DOMAIN games[r].players)
         /\ games[r].winnerTeam \in Nat
         /\ \A s \in DOMAIN games[r].players :
              /\ games[r].players[s].team \in Nat \ {0}
              /\ games[r].players[s].race \in Races
              /\ games[r].players[s].name \in DOMAIN NameOrder
              /\ games[r].players[s].name \in DOMAIN KeyOf
<1>1. r \in Recordings /\ games[r] \in {ParseReplayData(r), DrawnRow(r)}
  BY DEF RowsAreOutcomes
<1>2. IsFiniteSet(Shown(r))
  <2>1. Shown(r) \in SUBSET DOMAIN r.players /\ IsFiniteSet(DOMAIN r.players)
    BY <1>1, RecordingsAssumption DEF Shown
  <2> QED BY <2>1, FS_Subset
<1>3. DOMAIN games[r].players = Shown(r) /\ games[r].playerCount = Cardinality(Shown(r))
  BY <1>1 DEF ParseReplayData, DrawnRow, extractPlayers
<1>4. games[r].winnerTeam \in Nat
  BY <1>1, RecordingsAssumption DEF ParseReplayData, DrawnRow
<1>5. ASSUME NEW s \in Shown(r)
      PROVE  /\ games[r].players[s].team = r.players[s].team
             /\ games[r].players[s].race = r.players[s].race
             /\ games[r].players[s].name = r.players[s].name
  BY <1>1 DEF ParseReplayData, DrawnRow, extractPlayers
<1>6. Shown(r) \subseteq DOMAIN r.players
  BY DEF Shown
<1>7. ASSUME NEW s \in DOMAIN r.players
      PROVE  /\ r.players[s].team \in Nat \ {0} /\ r.players[s].race \in Races
             /\ r.players[s].name \in DOMAIN NameOrder /\ r.players[s].name \in DOMAIN KeyOf
  BY <1>1, RecordingsAssumption, NamesAssumption
<1> QED BY <1>2, <1>3, <1>4, <1>5, <1>6, <1>7

LEMMA ImageIsFinite ==
  ASSUME NEW S, IsFiniteSet(S), NEW f PROVE IsFiniteSet({f[x] : x \in S})
<1> DEFINE image == {f[x] : x \in S}
           g == [x \in S |-> f[x]]
<1>1. g \in Surjection(S, image)
  BY DEF Surjection
<1> HIDE DEF g, image
<1>2. IsFiniteSet(image)
  BY <1>1, FS_Surjection
<1> QED BY <1>2 DEF image

\* The rows of players, game by game.
RowsOfGame == [r \in DOMAIN games |-> {[game |-> r, seat |-> s] : s \in DOMAIN games[r].players}]

LEMMA RowsAreCutByGame ==
  ASSUME RowsAreOutcomes, GamesAreFinite, NEW of \in SUBSET DOMAIN games
  PROVE  IsCut(of, RowsOfGame) /\ Pieces(RowsOfGame, of) = Rows(of) /\ IsFiniteSet(Rows(of))
<1>1. IsFiniteSet(of)
  BY FS_Subset DEF GamesAreFinite
<1>2. ASSUME NEW r \in of PROVE IsFiniteSet(RowsOfGame[r])
  <2> DEFINE seats == DOMAIN games[r].players
             f == [s \in seats |-> [game |-> r, seat |-> s]]
  <2>1. IsFiniteSet(seats)
    BY GameFacts
  <2>2. RowsOfGame[r] = {f[s] : s \in seats}
    BY DEF RowsOfGame
  <2> HIDE DEF seats, f
  <2> QED BY <2>1, <2>2, ImageIsFinite
<1>3. \A q, r \in of : q # r => RowsOfGame[q] \cap RowsOfGame[r] = {}
  BY DEF RowsOfGame
<1>4. IsCut(of, RowsOfGame)
  BY <1>1, <1>2, <1>3 DEF IsCut
<1>5. Pieces(RowsOfGame, of) = Rows(of)
  <2>1. \A r \in of : RowsOfGame[r] = {[game |-> r, seat |-> s] : s \in DOMAIN games[r].players}
    BY DEF RowsOfGame
  <2>2. {RowsOfGame[r] : r \in of} = {{[game |-> r, seat |-> s] : s \in DOMAIN games[r].players} : r \in of}
    BY <2>1, Zenon
  <2> QED BY <2>2 DEF Pieces, Rows
<1> QED BY <1>4, <1>5, PiecesAreFinite

LEMMA RowFacts ==
  ASSUME RowsAreOutcomes, NEW of \in SUBSET DOMAIN games, NEW x \in Rows(of)
  PROVE  /\ x.game \in of /\ x.seat \in DOMAIN games[x.game].players
         /\ x = [game |-> x.game, seat |-> x.seat]
         /\ PlayerOf(x).name \in DOMAIN NameOrder /\ PlayerOf(x).name \in DOMAIN KeyOf
         /\ PlayerOf(x).team \in Nat \ {0} /\ PlayerOf(x).race \in Races
<1>0. PICK r \in of : \E s \in DOMAIN games[r].players : x = [game |-> r, seat |-> s]
  BY DEF Rows
<1>1. PICK s \in DOMAIN games[r].players : x = [game |-> r, seat |-> s]
  BY <1>0
<1>2. PlayerOf(x) = games[r].players[s]
  BY <1>1 DEF PlayerOf
<1> QED BY <1>1, <1>2, GameFacts

-----------------------------------------------------------------------------
(* The rows of the ranking: one for each key. *)

RankedRows == Rows(Qualified3v3)

RankedKeys == {KeyOf[PlayerOf(x).name] : x \in RankedRows}

RowsOfKey(k) == {x \in RankedRows : KeyOf[PlayerOf(x).name] = k}

SpellingsOf(k) == {PlayerOf(x).name : x \in RowsOfKey(k)}

FirstSpelling(k) == CHOOSE n \in SpellingsOf(k) : \A o \in SpellingsOf(k) : NameOrder[n] <= NameOrder[o]

WonRowsOfKey(k) == {x \in RowsOfKey(k) : CountsAsWin(x)}

RankingRow(k) ==
  [key |-> k, name |-> FirstSpelling(k),
   games |-> Cardinality(RowsOfKey(k)), wins |-> Cardinality(WonRowsOfKey(k)),
   losses |-> Cardinality({x \in RowsOfKey(k) : CountsAsLoss(x)}),
   draws |-> Cardinality({x \in RowsOfKey(k) : PlayerOf(x).result = "draw"}),
   win_rate |-> RateOf(Cardinality(WonRowsOfKey(k)), Cardinality(RowsOfKey(k))),
   avg_apm |-> SpeedOf([x \in RowsOfKey(k) |-> PlayerOf(x).apm]),
   avg_eapm |-> SpeedOf([x \in RowsOfKey(k) |-> PlayerOf(x).eapm])]

LEMMA RankingHasRows == compute3v3Rows(1) = {row \in {RankingRow(k) : k \in RankedKeys} : row.games >= 1}
BY DEF compute3v3Rows, RankingRow, RankedKeys, FirstSpelling, SpellingsOf, WonRowsOfKey, RowsOfKey, RankedRows

LEMMA QualifiedAreGames == Qualified3v3 \in SUBSET DOMAIN games
BY DEF Qualified3v3

LEMMA RowsOfKeyFacts ==
  ASSUME RowsAreOutcomes, GamesAreFinite, NEW k \in RankedKeys
  PROVE  /\ IsFiniteSet(RowsOfKey(k)) /\ RowsOfKey(k) # {} /\ Cardinality(RowsOfKey(k)) \in Nat \ {0}
         /\ IsFiniteSet(WonRowsOfKey(k)) /\ Cardinality(WonRowsOfKey(k)) \in Nat
<1>1. IsFiniteSet(RankedRows)
  BY QualifiedAreGames, RowsAreCutByGame DEF RankedRows
<1>2. IsFiniteSet(RowsOfKey(k))
  BY <1>1, FS_Subset DEF RowsOfKey
<1>3. IsFiniteSet(WonRowsOfKey(k))
  BY <1>2, FS_Subset DEF WonRowsOfKey
<1>4. RowsOfKey(k) # {}
  BY DEF RankedKeys, RowsOfKey
<1> QED BY <1>2, <1>3, <1>4, FS_CardinalityType, FS_EmptySet

LEMMA SpellingFacts ==
  ASSUME RowsAreOutcomes, GamesAreFinite, NEW k \in RankedKeys
  PROVE  FirstSpelling(k) \in DOMAIN NameOrder /\ KeyOf[FirstSpelling(k)] = k
<1>1. IsFiniteSet(SpellingsOf(k)) /\ SpellingsOf(k) # {}
  <2> DEFINE f == [x \in RowsOfKey(k) |-> PlayerOf(x).name]
  <2>1. SpellingsOf(k) = {f[x] : x \in RowsOfKey(k)}
    BY DEF SpellingsOf
  <2>2. IsFiniteSet(RowsOfKey(k)) /\ RowsOfKey(k) # {}
    BY RowsOfKeyFacts
  <2> HIDE DEF f
  <2> QED BY <2>1, <2>2, ImageIsFinite
<1>2. ASSUME NEW n \in SpellingsOf(k) PROVE n \in DOMAIN NameOrder /\ KeyOf[n] = k
  <2>1. PICK x \in RowsOfKey(k) : n = PlayerOf(x).name
    BY DEF SpellingsOf
  <2>2. x \in Rows(Qualified3v3) /\ KeyOf[PlayerOf(x).name] = k
    BY DEF RowsOfKey, RankedRows
  <2> QED BY <2>1, <2>2, QualifiedAreGames, RowFacts
<1>3. \A n \in SpellingsOf(k) : NameOrder[n] \in Int
  BY <1>2, NamesAssumption
<1>4. \E n \in SpellingsOf(k) : \A o \in SpellingsOf(k) : NameOrder[n] <= NameOrder[o]
  BY <1>1, <1>3, LeastOfFinite
<1>5. FirstSpelling(k) \in SpellingsOf(k)
  BY <1>4 DEF FirstSpelling
<1> QED BY <1>2, <1>5

LEMMA RateIsNumber == ASSUME NEW w \in Nat, NEW n \in Nat \ {0} PROVE RateOf(w, n) \in Int
<1> DEFINE a == 2000 * w + n
           b == 2 * n
<1>1. a \in Int /\ b \in Int /\ b > 0
  OBVIOUS
<1> HIDE DEF a, b
<1>2. a \div b \in Int
  BY <1>1
<1> QED BY <1>2 DEF RateOf, a, b

\* The percentile lies between two numbers of values, whatever is counted.
LEMMA PercentileIsNumber ==
  ASSUME NEW n \in Nat, NEW A \in SUBSET (1 .. ApmLimit), NEW B \in SUBSET (1 .. ApmLimit)
  PROVE  (20 * Cardinality(A) + ((19 * (n - 1)) % 20) * (Cardinality(B) - Cardinality(A)) + 1) \div 2 \in Int
<1> DEFINE low == Cardinality(A)
           high == Cardinality(B)
           rest == (19 * (n - 1)) % 20
           sum == 20 * low + rest * (high - low) + 1
<1>1. low \in Nat /\ high \in Nat
  <2>1. IsFiniteSet(1 .. ApmLimit)
    BY LimitsAssumption, FS_Interval
  <2> QED BY <2>1, FS_Subset, FS_CardinalityType
<1>2. rest \in Int
  OBVIOUS
<1> HIDE DEF low, high, rest
<1>3. sum \in Int
  BY <1>1, <1>2
<1> HIDE DEF sum
<1>4. sum \div 2 \in Int
  BY <1>3
<1> QED BY <1>4 DEF sum, low, high, rest

LEMMA SpeedIsNumber ==
  ASSUME NEW value, IsFiniteSet(DOMAIN value)
  PROVE  SpeedOf(value) \in Int
<1> DEFINE valid == {x \in DOMAIN value : value[x] \in 0 .. ApmLimit}
           way == 19 * (Cardinality(valid) - 1)
           Below(i) == {v \in 1 .. ApmLimit : Cardinality({x \in valid : value[x] < v}) <= i}
<1>1. Cardinality(valid) \in Nat
  BY FS_Subset, FS_CardinalityType
<1>2. \A i : Below(i) \in SUBSET (1 .. ApmLimit)
  OBVIOUS
<1>3. SpeedOf(value)
        = IF valid = {} THEN 0
          ELSE (20 * Cardinality(Below(way \div 20))
                 + (way % 20) * (Cardinality(Below(way \div 20 + 1)) - Cardinality(Below(way \div 20))) + 1) \div 2
  BY DEF SpeedOf
<1> HIDE DEF valid, Below
<1> QED BY <1>1, <1>2, <1>3, PercentileIsNumber

LEMMA RankingRowFacts ==
  ASSUME RowsAreOutcomes, GamesAreFinite, NEW k \in RankedKeys
  PROVE  /\ RankingRow(k).games \in Nat \ {0} /\ RankingRow(k).wins \in Nat /\ RankingRow(k).win_rate \in Int
         /\ RankingRow(k).avg_apm \in Int /\ RankingRow(k).avg_eapm \in Int
         /\ RankingRow(k).name \in DOMAIN NameOrder /\ KeyOf[RankingRow(k).name] = k /\ RankingRow(k).key = k
<1>1. SpeedOf([x \in RowsOfKey(k) |-> PlayerOf(x).apm]) \in Int
  BY RowsOfKeyFacts, SpeedIsNumber
<1>2. SpeedOf([x \in RowsOfKey(k) |-> PlayerOf(x).eapm]) \in Int
  BY RowsOfKeyFacts, SpeedIsNumber
<1> QED BY <1>1, <1>2, RowsOfKeyFacts, SpellingFacts, RateIsNumber DEF RankingRow

\* Every key has a row, and the row has a game.
LEMMA RankingIsRows ==
  ASSUME RowsAreOutcomes, GamesAreFinite
  PROVE  compute3v3Rows(1) = {RankingRow(k) : k \in RankedKeys} /\ IsFiniteSet(compute3v3Rows(1))
<1>1. \A k \in RankedKeys : RankingRow(k).games \in Nat \ {0}
  BY RankingRowFacts
<1>2. compute3v3Rows(1) = {RankingRow(k) : k \in RankedKeys}
  BY <1>1, RankingHasRows
<1>3. IsFiniteSet(RankedKeys)
  <2> DEFINE f == [x \in RankedRows |-> KeyOf[PlayerOf(x).name]]
  <2>1. RankedKeys = {f[x] : x \in RankedRows}
    BY DEF RankedKeys
  <2>2. IsFiniteSet(RankedRows)
    BY QualifiedAreGames, RowsAreCutByGame DEF RankedRows
  <2> HIDE DEF f
  <2> QED BY <2>1, <2>2, ImageIsFinite
<1>4. IsFiniteSet({RankingRow(k) : k \in RankedKeys})
  <2> DEFINE f == [k \in RankedKeys |-> RankingRow(k)]
  <2>1. {RankingRow(k) : k \in RankedKeys} = {f[k] : k \in RankedKeys}
    OBVIOUS
  <2> HIDE DEF f
  <2> QED BY <1>3, <2>1, ImageIsFinite
<1> QED BY <1>2, <1>4

-----------------------------------------------------------------------------
(* The orders of a list of the ranking leave no ties. *)

\* Numbers in every column but one, and a name that tells any two rows apart.
AreNamedRows(S) ==
  /\ \A a \in S : (\A column \in RankingColumns \ {"name"} : a[column] \in Int) /\ a["name"] \in DOMAIN NameOrder
  /\ \A a, b \in S : a["name"] = b["name"] => a = b

LEMMA RankingHasColumns ==
  ASSUME NEW S, AreNamedRows(S), NEW column \in RankingColumns PROVE IsColumn(S, column)
<1>1. CASE column = "name"
  <2>1. \A a, b : Less(a, b, column) <=> NameOrder[a["name"]] < NameOrder[b["name"]]
    BY <1>1 DEF Less, NameBefore
  <2>2. \A a \in S : NameOrder[a["name"]] \in Int
    BY NamesAssumption DEF AreNamedRows
  <2>3. \A a, b \in S : a["name"] # b["name"] => NameOrder[a["name"]] # NameOrder[b["name"]]
    BY NamesAssumption DEF AreNamedRows
  <2> QED BY <1>1, <2>1, <2>2, <2>3 DEF IsColumn
<1>2. CASE column # "name"
  <2>1. \A a, b : Less(a, b, column) <=> a[column] < b[column]
    BY <1>2 DEF Less, RankingColumns
  <2>2. \A a \in S : a[column] \in Int
    BY <1>2 DEF AreNamedRows
  <2> QED BY <2>1, <2>2 DEF IsColumn
<1> QED BY <1>1, <1>2

LEMMA NameDecides ==
  ASSUME NEW S, AreNamedRows(S), NEW keys, KeysWith(keys, RankingColumns, "name")
  PROVE  AreKeys(S, keys)
<1>0. PICK n \in Nat : /\ DOMAIN keys = 1 .. n
                       /\ \A i \in 1 .. n : keys[i].column \in RankingColumns
                       /\ \E i \in 1 .. n : keys[i].column = "name"
  BY DEF KeysWith
<1>1. \A i \in 1 .. n : IsColumn(S, keys[i].column)
  BY <1>0, RankingHasColumns
<1>2. ASSUME NEW a \in S, NEW b \in S, \A i \in 1 .. n : a[keys[i].column] = b[keys[i].column]
      PROVE  a = b
  <2>1. PICK last \in 1 .. n : keys[last].column = "name"
    BY <1>0
  <2>2. a["name"] = b["name"]
    BY <1>2, <2>1
  <2> QED BY <2>2 DEF AreNamedRows
<1> QED BY <1>0, <1>1, <1>2 DEF AreKeys

LEMMA RankingKeysDecide ==
  ASSUME NEW S, AreNamedRows(S), NEW sortBy \in RankingColumns, NEW down \in BOOLEAN
  PROVE  AreKeys(S, RankingKeys(sortBy, down))
<1> DEFINE keys == RankingKeys(sortBy, down)
<1> SUFFICES KeysWith(keys, RankingColumns, "name")
  <2> HIDE DEF keys
  <2>1. AreKeys(S, keys)
    BY NameDecides
  <2> QED BY <2>1 DEF keys
<1>1. \A column : Up(column).column = column /\ Down(column).column = column
  BY DEF Up, Down
<1>2. CASE sortBy = "name"
  <2>1. keys = <<IF down THEN Down("name") ELSE Up("name")>>
    BY <1>2 DEF RankingKeys
  <2> HIDE DEF keys
  <2>2. DOMAIN keys = 1 .. 1 /\ keys[1].column = "name"
    BY <1>1, <2>1
  <2> QED BY <2>2 DEF KeysWith, RankingColumns
<1>3. CASE sortBy # "name" /\ ~down
  <2>1. keys = <<Up(sortBy), Up("name")>>
    BY <1>3 DEF RankingKeys
  <2> HIDE DEF keys
  <2>2. DOMAIN keys = 1 .. 2 /\ keys[1].column = sortBy /\ keys[2].column = "name"
    BY <1>1, <2>1
  <2> QED BY <2>2 DEF KeysWith, RankingColumns
<1>4. CASE sortBy # "name" /\ down
  <2>1. PICK k \in RankingColumns, l \in RankingColumns :
          keys = <<Down(sortBy), Down(k), Down(l), Up("name")>>
    <3>1. CASE sortBy = "win_rate"
      <4>1. keys = <<Down(sortBy), Down("wins"), Down("games"), Up("name")>>
        BY <1>4, <3>1 DEF RankingKeys
      <4> QED BY <4>1 DEF RankingColumns
    <3>2. CASE sortBy = "wins"
      <4>1. keys = <<Down(sortBy), Down("win_rate"), Down("games"), Up("name")>>
        BY <1>4, <3>2 DEF RankingKeys
      <4> QED BY <4>1 DEF RankingColumns
    <3>3. CASE sortBy = "games"
      <4>1. keys = <<Down(sortBy), Down("win_rate"), Down("wins"), Up("name")>>
        BY <1>4, <3>3 DEF RankingKeys
      <4> QED BY <4>1 DEF RankingColumns
    <3>4. CASE sortBy \in {"avg_apm", "avg_eapm"}
      <4>1. keys = <<Down(sortBy), Down("wins"), Down("games"), Up("name")>>
        BY <1>4, <3>4 DEF RankingKeys
      <4> QED BY <4>1 DEF RankingColumns
    <3> QED BY <1>4, <3>1, <3>2, <3>3, <3>4 DEF RankingColumns
  <2> HIDE DEF keys
  <2>2. /\ DOMAIN keys = 1 .. 4 /\ keys[1].column = sortBy /\ keys[2].column = k
        /\ keys[3].column = l /\ keys[4].column = "name"
    BY <1>1, <2>1
  <2>3. \A i \in 1 .. 4 : i = 1 \/ i = 2 \/ i = 3 \/ i = 4
    OBVIOUS
  <2> QED BY <2>1, <2>2, <2>3 DEF KeysWith, RankingColumns
<1> QED BY <1>2, <1>3, <1>4

LEMMA RankingHasNames ==
  ASSUME RowsAreOutcomes, GamesAreFinite PROVE AreNamedRows(compute3v3Rows(1))
<1>1. compute3v3Rows(1) = {RankingRow(k) : k \in RankedKeys}
  BY RankingIsRows
<1>2. ASSUME NEW k \in RankedKeys
      PROVE  /\ RankingRow(k)["games"] \in Int /\ RankingRow(k)["wins"] \in Int /\ RankingRow(k)["win_rate"] \in Int
             /\ RankingRow(k)["avg_apm"] \in Int /\ RankingRow(k)["avg_eapm"] \in Int
             /\ RankingRow(k)["name"] \in DOMAIN NameOrder
  BY RankingRowFacts
<1>3. \A j, k \in RankedKeys : RankingRow(j)["name"] = RankingRow(k)["name"] => j = k
  BY RankingRowFacts
<1> HIDE DEF compute3v3Rows
<1> QED BY <1>1, <1>2, <1>3 DEF AreNamedRows, RankingColumns

\* The players that have as many games as are asked for.
LEMMA RankingListPages ==
  ASSUME RowsAreOutcomes, GamesAreFinite, NEW minGames, NEW sortBy \in RankingColumns, NEW down \in BOOLEAN
  PROVE  InPages(RankingList(compute3v3Rows(1), minGames), RankingKeys(sortBy, down))
<1> DEFINE S == RankingList(compute3v3Rows(1), minGames)
<1>1. S \in SUBSET compute3v3Rows(1)
  BY DEF RankingList
<1>2. IsFiniteSet(S)
  BY <1>1, RankingIsRows, FS_Subset
<1>3. AreNamedRows(S)
  BY <1>1, RankingHasNames DEF AreNamedRows
<1> HIDE DEF S
<1>4. InPages(S, RankingKeys(sortBy, down))
  BY <1>2, <1>3, RankingKeysDecide, KeysGivePages
<1> QED BY <1>4 DEF S

-----------------------------------------------------------------------------
(* The order of the matchups: two compositions of one size, one after the other. *)

CompositionsOf(h) == [1 .. h -> 1 .. 4]

IsMatchup(m) == \E h \in Nat : m \in CompositionsOf(h) \X CompositionsOf(h)

\* As MatchupBefore spells a matchup: its letters by their places, and a blank.
CodeOf(m) ==
  [i \in 1 .. Len(m[1]) + 1 + Len(m[2]) |->
     IF i <= Len(m[1]) THEN m[1][i] ELSE IF i = Len(m[1]) + 1 THEN 0 ELSE m[2][i - Len(m[1]) - 1]]

CodeBefore(x, y) ==
  \E i \in DOMAIN x \cap DOMAIN y : x[i] < y[i] /\ \A j \in 1 .. i - 1 : x[j] = y[j]

LEMMA MatchupBeforeIsCodeBefore ==
  ASSUME NEW a, NEW b
  PROVE  MatchupBefore(a, b) <=> CodeBefore(CodeOf(a.matchup), CodeOf(b.matchup))
BY DEF MatchupBefore, CodeBefore, CodeOf

LEMMA LengthOfComposition ==
  ASSUME NEW h \in Nat, NEW c \in CompositionsOf(h) PROVE Len(c) = h
<1>1. c \in Seq(1 .. 4)
  BY DEF CompositionsOf
<1>2. DOMAIN c = 1 .. h
  BY DEF CompositionsOf
<1> QED BY <1>1, <1>2

LEMMA CodeFacts ==
  ASSUME NEW h \in Nat, NEW m \in CompositionsOf(h) \X CompositionsOf(h)
  PROVE  /\ DOMAIN CodeOf(m) = 1 .. 2 * h + 1
         /\ CodeOf(m)[h + 1] = 0
         /\ \A i \in 1 .. h : CodeOf(m)[i] = m[1][i] /\ CodeOf(m)[i] \in 1 .. 4
         /\ \A i \in h + 2 .. 2 * h + 1 : CodeOf(m)[i] = m[2][i - h - 1] /\ CodeOf(m)[i] \in 1 .. 4
<1>1. m[1] \in CompositionsOf(h) /\ m[2] \in CompositionsOf(h)
  OBVIOUS
<1>2. Len(m[1]) = h /\ Len(m[2]) = h
  BY <1>1, LengthOfComposition
<1>3. /\ \A i \in 1 .. h : m[1][i] \in 1 .. 4
      /\ \A i \in h + 2 .. 2 * h + 1 : m[2][i - h - 1] \in 1 .. 4
  <2>1. \A i \in h + 2 .. 2 * h + 1 : i - h - 1 \in 1 .. h
    OBVIOUS
  <2> QED BY <1>1, <2>1 DEF CompositionsOf
<1>4. CodeOf(m) = [i \in 1 .. 2 * h + 1 |-> IF i <= h THEN m[1][i] ELSE IF i = h + 1 THEN 0 ELSE m[2][i - h - 1]]
  <2>1. h + 1 + h = 2 * h + 1
    OBVIOUS
  <2> QED BY <1>2, <2>1 DEF CodeOf
<1> DEFINE dom == 1 .. 2 * h + 1
<1>5. h + 1 \in dom /\ ~(h + 1 <= h)
  OBVIOUS
<1>6. \A i \in 1 .. h : i \in dom /\ i <= h
  OBVIOUS
<1>7. \A i \in h + 2 .. 2 * h + 1 : i \in dom /\ ~(i <= h) /\ i # h + 1
  OBVIOUS
<1>8. DOMAIN CodeOf(m) = dom
  BY <1>4
<1>9. \A i \in dom : CodeOf(m)[i] = IF i <= h THEN m[1][i] ELSE IF i = h + 1 THEN 0 ELSE m[2][i - h - 1]
  BY <1>4
<1> HIDE DEF dom
<1>10. CodeOf(m)[h + 1] = 0
  BY <1>5, <1>9
<1>11. \A i \in 1 .. h : CodeOf(m)[i] = m[1][i]
  BY <1>6, <1>9
<1>12. \A i \in h + 2 .. 2 * h + 1 : CodeOf(m)[i] = m[2][i - h - 1]
  BY <1>7, <1>9
<1> QED BY <1>3, <1>8, <1>10, <1>11, <1>12 DEF dom

LEMMA CodesAreNumbers ==
  ASSUME NEW m, IsMatchup(m)
  PROVE  \E n \in Nat : DOMAIN CodeOf(m) = 1 .. n /\ \A i \in 1 .. n : CodeOf(m)[i] \in Nat
<1>1. PICK h \in Nat : m \in CompositionsOf(h) \X CompositionsOf(h)
  BY DEF IsMatchup
<1>2. \A i \in 1 .. 2 * h + 1 : i \in 1 .. h \/ i = h + 1 \/ i \in h + 2 .. 2 * h + 1
  OBVIOUS
<1>3. DOMAIN CodeOf(m) = 1 .. 2 * h + 1
  BY <1>1, CodeFacts
<1>4. ASSUME NEW i \in 1 .. 2 * h + 1 PROVE CodeOf(m)[i] \in Nat
  <2>1. CASE i \in 1 .. h
    <3>1. CodeOf(m)[i] \in 1 .. 4
      BY <1>1, <2>1, CodeFacts
    <3> QED BY <3>1
  <2>2. CASE i = h + 1
    BY <1>1, <2>2, CodeFacts
  <2>3. CASE i \in h + 2 .. 2 * h + 1
    <3>1. CodeOf(m)[i] \in 1 .. 4
      BY <1>1, <2>3, CodeFacts
    <3> QED BY <3>1
  <2> QED BY <1>2, <2>1, <2>2, <2>3
<1>5. 2 * h + 1 \in Nat
  OBVIOUS
<1> QED BY <1>3, <1>4, <1>5

\* Two matchups differ at a place that both have: when the sizes differ, at the blank of the smaller.
LEMMA CodesDiffer ==
  ASSUME NEW m, IsMatchup(m), NEW n, IsMatchup(n), m # n
  PROVE  \E i \in DOMAIN CodeOf(m) \cap DOMAIN CodeOf(n) : CodeOf(m)[i] # CodeOf(n)[i]
<1>1. PICK g \in Nat : m \in CompositionsOf(g) \X CompositionsOf(g)
  BY DEF IsMatchup
<1>2. PICK h \in Nat : n \in CompositionsOf(h) \X CompositionsOf(h)
  BY DEF IsMatchup
<1>3. CASE g < h
  <2>1. CodeOf(m)[g + 1] = 0 /\ CodeOf(n)[g + 1] \in 1 .. 4
    BY <1>1, <1>2, <1>3, CodeFacts
  <2>2. g + 1 \in DOMAIN CodeOf(m) \cap DOMAIN CodeOf(n)
    BY <1>1, <1>2, <1>3, CodeFacts
  <2> QED BY <2>1, <2>2
<1>4. CASE h < g
  <2>1. CodeOf(n)[h + 1] = 0 /\ CodeOf(m)[h + 1] \in 1 .. 4
    BY <1>1, <1>2, <1>4, CodeFacts
  <2>2. h + 1 \in DOMAIN CodeOf(m) \cap DOMAIN CodeOf(n)
    BY <1>1, <1>2, <1>4, CodeFacts
  <2> QED BY <2>1, <2>2
<1>5. CASE g = h
  <2>1. m[1] # n[1] \/ m[2] # n[2]
    BY <1>1, <1>2, <1>5
  <2>2. CASE m[1] # n[1]
    <3>1. PICK i \in 1 .. h : m[1][i] # n[1][i]
      BY <1>1, <1>2, <1>5, <2>2 DEF CompositionsOf
    <3>2. i \in DOMAIN CodeOf(m) \cap DOMAIN CodeOf(n)
      BY <1>1, <1>2, <1>5, CodeFacts
    <3>3. CodeOf(m)[i] = m[1][i] /\ CodeOf(n)[i] = n[1][i]
      BY <1>1, <1>2, <1>5, CodeFacts
    <3> QED BY <3>1, <3>2, <3>3
  <2>3. CASE m[2] # n[2]
    <3>1. PICK i \in 1 .. h : m[2][i] # n[2][i]
      BY <1>1, <1>2, <1>5, <2>3 DEF CompositionsOf
    <3> DEFINE j == i + h + 1
    <3>2. j \in h + 2 .. 2 * h + 1 /\ j \in 1 .. 2 * h + 1 /\ j - h - 1 = i
      OBVIOUS
    <3> HIDE DEF j
    <3>3. j \in DOMAIN CodeOf(m) \cap DOMAIN CodeOf(n)
      BY <1>1, <1>2, <1>5, <3>2, CodeFacts
    <3>4. CodeOf(m)[j] = m[2][i] /\ CodeOf(n)[j] = n[2][i]
      BY <1>1, <1>2, <1>5, <3>2, CodeFacts
    <3> QED BY <3>1, <3>3, <3>4
  <2> QED BY <2>1, <2>2, <2>3
<1> QED BY <1>3, <1>4, <1>5

LEMMA CodesAreOrdered ==
  ASSUME NEW m, IsMatchup(m), NEW n, IsMatchup(n), m # n
  PROVE  CodeBefore(CodeOf(m), CodeOf(n)) \/ CodeBefore(CodeOf(n), CodeOf(m))
<1> DEFINE x == CodeOf(m)
           y == CodeOf(n)
           T == {i \in DOMAIN x \cap DOMAIN y : x[i] # y[i]}
<1>1. PICK p \in Nat : DOMAIN x = 1 .. p /\ \A i \in 1 .. p : x[i] \in Nat
  BY CodesAreNumbers
<1>2. PICK q \in Nat : DOMAIN y = 1 .. q /\ \A i \in 1 .. q : y[i] \in Nat
  BY CodesAreNumbers
<1>3. T # {}
  BY CodesDiffer
<1> HIDE DEF x, y
<1>4. PICK i \in T : \A j \in T : i <= j
  <2>1. T \in SUBSET Nat
    BY <1>1
  <2> HIDE DEF T
  <2> QED BY <1>3, <2>1, LeastNumber
<1>5. \A j \in 1 .. i - 1 : x[j] = y[j]
  <2> SUFFICES ASSUME NEW j \in 1 .. i - 1 PROVE x[j] = y[j]
    OBVIOUS
  <2>0. i \in 1 .. p /\ i \in 1 .. q
    BY <1>1, <1>2
  <2>1. j \in 1 .. p /\ j \in 1 .. q /\ ~(i <= j)
    BY <2>0
  <2>2. j \notin T
    BY <1>4, <2>1
  <2> QED BY <1>1, <1>2, <2>1, <2>2
<1>6. i \in DOMAIN x \cap DOMAIN y /\ (x[i] < y[i] \/ y[i] < x[i])
  BY <1>1, <1>2
<1>7. CodeBefore(x, y) \/ CodeBefore(y, x)
  BY <1>5, <1>6, Zenon DEF CodeBefore
<1> QED BY <1>7 DEF x, y

LEMMA CodesAreTransitive ==
  ASSUME NEW l, IsMatchup(l), NEW m, IsMatchup(m), NEW n, IsMatchup(n),
         CodeBefore(CodeOf(l), CodeOf(m)), CodeBefore(CodeOf(m), CodeOf(n))
  PROVE  CodeBefore(CodeOf(l), CodeOf(n))
<1> DEFINE x == CodeOf(l)
           y == CodeOf(m)
           z == CodeOf(n)
<1>1. PICK p \in Nat : DOMAIN x = 1 .. p /\ \A i \in 1 .. p : x[i] \in Nat
  BY CodesAreNumbers
<1>2. PICK q \in Nat : DOMAIN y = 1 .. q /\ \A i \in 1 .. q : y[i] \in Nat
  BY CodesAreNumbers
<1>3. PICK r \in Nat : DOMAIN z = 1 .. r /\ \A i \in 1 .. r : z[i] \in Nat
  BY CodesAreNumbers
<1>4. PICK i \in DOMAIN x \cap DOMAIN y : x[i] < y[i] /\ \A j \in 1 .. i - 1 : x[j] = y[j]
  BY DEF CodeBefore
<1>5. PICK k \in DOMAIN y \cap DOMAIN z : y[k] < z[k] /\ \A j \in 1 .. k - 1 : y[j] = z[j]
  BY DEF CodeBefore
<1> HIDE DEF x, y, z
<1>0. i \in 1 .. p /\ i \in 1 .. q /\ k \in 1 .. q /\ k \in 1 .. r
  BY <1>1, <1>2, <1>3
<1> DEFINE f == IF i <= k THEN i ELSE k
<1>6. f \in DOMAIN x \cap DOMAIN z /\ f \in 1 .. q /\ f <= i /\ f <= k
  BY <1>1, <1>2, <1>3
<1>7. x[f] < z[f]
  <2>1. CASE i < k
    <3>0. i \in 1 .. k - 1
      BY <1>0, <2>1
    <3>1. y[i] = z[i]
      BY <1>5, <3>0
    <3> QED BY <1>0, <1>4, <2>1, <3>1
  <2>2. CASE k < i
    <3>0. k \in 1 .. i - 1
      BY <1>0, <2>2
    <3>1. x[k] = y[k]
      BY <1>4, <3>0
    <3> QED BY <1>0, <1>5, <2>2, <3>1
  <2>3. CASE i = k
    <3>1. x[i] \in Nat /\ y[i] \in Nat /\ z[i] \in Nat
      BY <1>1, <1>2, <1>3, <2>3
    <3> QED BY <1>4, <1>5, <2>3, <3>1
  <2> QED BY <1>0, <2>1, <2>2, <2>3
<1>8. \A j \in 1 .. f - 1 : x[j] = z[j]
  <2> SUFFICES ASSUME NEW j \in 1 .. f - 1 PROVE x[j] = z[j]
    OBVIOUS
  <2>1. j \in 1 .. i - 1 /\ j \in 1 .. k - 1
    BY <1>1, <1>2, <1>3, <1>6
  <2> QED BY <1>4, <1>5, <2>1
<1> HIDE DEF f
<1>9. CodeBefore(x, z)
  BY <1>6, <1>7, <1>8 DEF CodeBefore
<1> QED BY <1>9 DEF x, z

LEMMA CodesAreIrreflexive ==
  ASSUME NEW m, IsMatchup(m) PROVE ~CodeBefore(CodeOf(m), CodeOf(m))
<1>1. PICK p \in Nat : DOMAIN CodeOf(m) = 1 .. p /\ \A i \in 1 .. p : CodeOf(m)[i] \in Nat
  BY CodesAreNumbers
<1> QED BY <1>1 DEF CodeBefore

-----------------------------------------------------------------------------
(* The rows of the matchups. *)

\* A set of two elements is a pair of different ones.
LEMMA TwoElements ==
  ASSUME NEW S, Cardinality(S) = 2, IsFiniteSet(S), NEW a \in S
  PROVE  \E b \in S : b # a /\ S = {a, b}
<1>1. IsFiniteSet(S \ {a}) /\ Cardinality(S \ {a}) = 1
  BY FS_RemoveElement
<1>2. PICK b : S \ {a} = {b}
  BY <1>1, FS_Singleton
<1> QED BY <1>2

LEMMA TeamsFacts ==
  ASSUME RowsAreOutcomes, NEW r \in DOMAIN games
  PROVE  /\ Teams(games[r]) \in SUBSET (Nat \ {0}) /\ IsFiniteSet(Teams(games[r]))
         /\ \A t \in Teams(games[r]) : TeamSize(games[r], t) \in Nat
<1> DEFINE seats == DOMAIN games[r].players
           f == [s \in seats |-> games[r].players[s].team]
<1>1. IsFiniteSet(seats)
  BY GameFacts
<1>2. Teams(games[r]) = {f[s] : s \in seats}
  BY DEF Teams
<1>3. IsFiniteSet(Teams(games[r]))
  <2> HIDE DEF seats, f
  <2> QED BY <1>1, <1>2, ImageIsFinite
<1>4. Teams(games[r]) \in SUBSET (Nat \ {0})
  BY GameFacts DEF Teams
<1>5. ASSUME NEW t \in Teams(games[r]) PROVE TeamSize(games[r], t) \in Nat
  <2>1. IsFiniteSet({s \in seats : games[r].players[s].team = t})
    BY <1>1, FS_Subset
  <2> QED BY <2>1, FS_CardinalityType DEF TeamSize
<1> QED BY <1>3, <1>4, <1>5

\* Canon lists the two teams, each once.
LEMMA CanonFacts ==
  ASSUME RowsAreOutcomes, NEW r \in DOMAIN games, Cardinality(Teams(games[r])) = 2
  PROVE  \E a, b \in Teams(games[r]) :
            a # b /\ Teams(games[r]) = {a, b} /\ Canon(games[r]) = <<a, b>>
<1> DEFINE g == games[r]
           T == Teams(g)
           one == CHOOSE t \in T : \A u \in T : t <= u
           two == CHOOSE t \in T : t # one
<1>1. T \in SUBSET Nat /\ IsFiniteSet(T) /\ Cardinality(T) = 2
  BY TeamsFacts
<1>2. T # {}
  BY <1>1, FS_EmptySet
<1>3. one \in T
  <2> HIDE DEF T
  <2>1. \E t \in T : \A u \in T : t <= u
    BY <1>1, <1>2, LeastNumber
  <2> QED BY <2>1
<1>4. Canon(g) = IF Leq(Comp(g, one), Comp(g, two)) THEN <<one, two>> ELSE <<two, one>>
  BY DEF Canon
<1> HIDE DEF T, one
<1> HIDE DEF two, g
<1>5. PICK b \in T : b # one /\ T = {one, b}
  <2>1. Cardinality(T) = 2 /\ IsFiniteSet(T)
    BY <1>1
  <2>2. one \in T
    BY <1>3
  <2> QED BY <2>1, <2>2, TwoElements
<1>6. two = b
  BY <1>5 DEF two
<1>7. CASE Leq(Comp(g, one), Comp(g, two))
  <2>1. Canon(g) = <<one, b>> /\ T = {one, b}
    BY <1>4, <1>5, <1>6, <1>7
  <2> QED BY <1>3, <1>5, <2>1 DEF T, g
<1>8. CASE ~Leq(Comp(g, one), Comp(g, two))
  <2>1. Canon(g) = <<b, one>> /\ T = {b, one}
    BY <1>4, <1>5, <1>6, <1>8
  <2> QED BY <1>3, <1>5, <2>1 DEF T, g
<1> QED BY <1>7, <1>8

LEMMA CompFacts ==
  ASSUME NEW g, NEW t, TeamSize(g, t) \in Nat PROVE Comp(g, t) \in CompositionsOf(TeamSize(g, t))
<1> DEFINE h == TeamSize(g, t)
           Count(race) == Cardinality({s \in DOMAIN g.players : g.players[s].team = t /\ g.players[s].race = race})
           p == Count("Protoss")
           pt == p + Count("Terran")
           ptz == pt + Count("Zerg")
<1>1. Comp(g, t) = [i \in 1 .. h |-> IF i <= p THEN 1 ELSE IF i <= pt THEN 2 ELSE IF i <= ptz THEN 4 ELSE 3]
  BY DEF Comp
<1> HIDE DEF h, p, pt, ptz
<1> QED BY <1>1 DEF CompositionsOf, h

LEMMA MatchupOfGame ==
  ASSUME RowsAreOutcomes, NEW r \in MatchupGames
  PROVE  IsMatchup(MatchupOf(games[r]))
<1>1. /\ r \in DOMAIN games /\ Cardinality(Teams(games[r])) = 2
      /\ \A t \in Teams(games[r]) : 2 * TeamSize(games[r], t) = games[r].playerCount
  BY DEF MatchupGames
<1>2. PICK a, b \in Teams(games[r]) : Canon(games[r]) = <<a, b>>
  BY <1>1, CanonFacts
<1>3. TeamSize(games[r], a) \in Nat /\ TeamSize(games[r], b) \in Nat
  BY <1>1, TeamsFacts
<1>4. TeamSize(games[r], a) = TeamSize(games[r], b)
  BY <1>1, <1>3
<1>5. /\ Comp(games[r], a) \in CompositionsOf(TeamSize(games[r], a))
      /\ Comp(games[r], b) \in CompositionsOf(TeamSize(games[r], a))
  BY <1>3, <1>4, CompFacts
<1>6. MatchupOf(games[r]) = <<Comp(games[r], a), Comp(games[r], b)>>
  BY <1>2 DEF MatchupOf
<1> QED BY <1>3, <1>5, <1>6 DEF IsMatchup

KnownMatchups == {MatchupOf(games[r]) : r \in MatchupGames}

GamesOfMatchup(m) == {r \in MatchupGames : MatchupOf(games[r]) = m}

WinsOfSide(m, side) == {r \in GamesOfMatchup(m) : games[r].winnerTeam = Canon(games[r])[side]}

MatchupRow(m) ==
  [matchup |-> m, games |-> Cardinality(GamesOfMatchup(m)),
   aWins |-> Cardinality(WinsOfSide(m, 1)), bWins |-> Cardinality(WinsOfSide(m, 2)),
   team_a_win_rate |-> RateOf(Cardinality(WinsOfSide(m, 1)), Cardinality(GamesOfMatchup(m))),
   team_b_win_rate |-> RateOf(Cardinality(WinsOfSide(m, 2)), Cardinality(GamesOfMatchup(m)))]

LEMMA MatchupsAreRows == computeRows = {MatchupRow(m) : m \in KnownMatchups}
BY DEF computeRows, MatchupRow, KnownMatchups, WinsOfSide, GamesOfMatchup

LEMMA MatchupGamesAreFinite == ASSUME GamesAreFinite PROVE IsFiniteSet(MatchupGames)
<1>1. MatchupGames \in SUBSET DOMAIN games
  BY DEF MatchupGames
<1> QED BY <1>1, FS_Subset DEF GamesAreFinite

LEMMA MatchupRowFacts ==
  ASSUME RowsAreOutcomes, GamesAreFinite, NEW m \in KnownMatchups
  PROVE  /\ MatchupRow(m).matchup = m /\ IsMatchup(m)
         /\ MatchupRow(m).games \in Nat \ {0}
         /\ MatchupRow(m).team_a_win_rate \in Int /\ MatchupRow(m).team_b_win_rate \in Int
<1>1. IsFiniteSet(GamesOfMatchup(m)) /\ GamesOfMatchup(m) # {}
  <2>1. IsFiniteSet(GamesOfMatchup(m))
    BY MatchupGamesAreFinite, FS_Subset DEF GamesOfMatchup
  <2> QED BY <2>1 DEF GamesOfMatchup, KnownMatchups
<1>2. IsFiniteSet(WinsOfSide(m, 1)) /\ IsFiniteSet(WinsOfSide(m, 2))
  BY <1>1, FS_Subset DEF WinsOfSide
<1>3. /\ Cardinality(GamesOfMatchup(m)) \in Nat \ {0}
      /\ Cardinality(WinsOfSide(m, 1)) \in Nat /\ Cardinality(WinsOfSide(m, 2)) \in Nat
  BY <1>1, <1>2, FS_CardinalityType, FS_EmptySet
<1>4. IsMatchup(m)
  BY MatchupOfGame DEF KnownMatchups
<1>5. /\ RateOf(Cardinality(WinsOfSide(m, 1)), Cardinality(GamesOfMatchup(m))) \in Int
      /\ RateOf(Cardinality(WinsOfSide(m, 2)), Cardinality(GamesOfMatchup(m))) \in Int
  BY <1>3, RateIsNumber
<1> QED BY <1>3, <1>4, <1>5 DEF MatchupRow

LEMMA MatchupsAreFinite == ASSUME GamesAreFinite PROVE IsFiniteSet(computeRows)
<1> DEFINE f == [r \in MatchupGames |-> MatchupOf(games[r])]
           h == [m \in KnownMatchups |-> MatchupRow(m)]
<1>1. KnownMatchups = {f[r] : r \in MatchupGames}
  BY DEF KnownMatchups
<1>2. computeRows = {h[m] : m \in KnownMatchups}
  BY MatchupsAreRows
<1> HIDE DEF f, h
<1>3. IsFiniteSet(KnownMatchups)
  BY <1>1, MatchupGamesAreFinite, ImageIsFinite
<1> QED BY <1>2, <1>3, ImageIsFinite

-----------------------------------------------------------------------------
(* The orders of a list of matchups leave no ties, and the pages of both lists. *)

\* Numbers in every column but one, and a matchup that tells any two rows apart.
AreMatchupRows(S) ==
  /\ \A a \in S : (\A column \in MatchupColumns \ {"matchup"} : a[column] \in Int) /\ IsMatchup(a["matchup"])
  /\ \A a, b \in S : a["matchup"] = b["matchup"] => a = b

LEMMA MatchupsHaveColumns ==
  ASSUME NEW S, AreMatchupRows(S), NEW column \in MatchupColumns PROVE IsColumn(S, column)
<1>1. CASE column = "matchup"
  <2>1. \A a, b : Less(a, b, column) <=> CodeBefore(CodeOf(a["matchup"]), CodeOf(b["matchup"]))
    BY <1>1, MatchupBeforeIsCodeBefore DEF Less
  <2>2. \A a \in S : ~Less(a, a, column)
    BY <2>1, CodesAreIrreflexive DEF AreMatchupRows
  <2>3. \A a, b, c \in S : Less(a, b, column) /\ Less(b, c, column) => Less(a, c, column)
    BY <2>1, CodesAreTransitive DEF AreMatchupRows
  <2>4. \A a, b \in S : a["matchup"] # b["matchup"] => Less(a, b, column) \/ Less(b, a, column)
    BY <2>1, CodesAreOrdered DEF AreMatchupRows
  <2> QED BY <1>1, <2>1, <2>2, <2>3, <2>4 DEF IsColumn
<1>2. CASE column # "matchup"
  <2>1. \A a, b : Less(a, b, column) <=> a[column] < b[column]
    BY <1>2 DEF Less, MatchupColumns
  <2>2. \A a \in S : a[column] \in Int
    BY <1>2 DEF AreMatchupRows
  <2> QED BY <2>1, <2>2 DEF IsColumn
<1> QED BY <1>1, <1>2

LEMMA MatchupDecides ==
  ASSUME NEW S, AreMatchupRows(S), NEW keys, KeysWith(keys, MatchupColumns, "matchup")
  PROVE  AreKeys(S, keys)
<1>0. PICK n \in Nat : /\ DOMAIN keys = 1 .. n
                       /\ \A i \in 1 .. n : keys[i].column \in MatchupColumns
                       /\ \E i \in 1 .. n : keys[i].column = "matchup"
  BY DEF KeysWith
<1>1. \A i \in 1 .. n : IsColumn(S, keys[i].column)
  BY <1>0, MatchupsHaveColumns
<1>2. ASSUME NEW a \in S, NEW b \in S, \A i \in 1 .. n : a[keys[i].column] = b[keys[i].column]
      PROVE  a = b
  <2>1. PICK last \in 1 .. n : keys[last].column = "matchup"
    BY <1>0
  <2>2. a["matchup"] = b["matchup"]
    BY <1>2, <2>1
  <2> QED BY <2>2 DEF AreMatchupRows
<1> QED BY <1>0, <1>1, <1>2 DEF AreKeys

LEMMA MatchupKeysDecide ==
  ASSUME NEW S, AreMatchupRows(S), NEW sortBy \in MatchupColumns, NEW down \in BOOLEAN
  PROVE  AreKeys(S, MatchupKeys(sortBy, down))
<1> DEFINE keys == MatchupKeys(sortBy, down)
<1> SUFFICES KeysWith(keys, MatchupColumns, "matchup")
  <2> HIDE DEF keys
  <2>1. AreKeys(S, keys)
    BY MatchupDecides
  <2> QED BY <2>1 DEF keys
<1>1. \A column : Up(column).column = column /\ Down(column).column = column
  BY DEF Up, Down
<1>2. CASE sortBy = "matchup"
  <2>1. keys = <<IF down THEN Down("matchup") ELSE Up("matchup")>>
    BY <1>2 DEF MatchupKeys
  <2> HIDE DEF keys
  <2>2. DOMAIN keys = 1 .. 1 /\ keys[1].column = "matchup"
    BY <1>1, <2>1
  <2> QED BY <2>2 DEF KeysWith, MatchupColumns
<1>3. CASE sortBy # "matchup" /\ ~down
  <2>1. keys = <<Up(sortBy), Up("matchup")>>
    BY <1>3 DEF MatchupKeys
  <2> HIDE DEF keys
  <2>2. DOMAIN keys = 1 .. 2 /\ keys[1].column = sortBy /\ keys[2].column = "matchup"
    BY <1>1, <2>1
  <2> QED BY <2>2 DEF KeysWith, MatchupColumns
<1>4. CASE sortBy # "matchup" /\ down
  <2>1. PICK k \in MatchupColumns : keys = <<Down(sortBy), Down(k), Up("matchup")>>
    <3>1. CASE sortBy = "games"
      <4>1. keys = <<Down(sortBy), Down("team_a_win_rate"), Up("matchup")>>
        BY <1>4, <3>1 DEF MatchupKeys
      <4> QED BY <4>1 DEF MatchupColumns
    <3>2. CASE sortBy \in {"team_a_win_rate", "team_b_win_rate"}
      <4>1. keys = <<Down(sortBy), Down("games"), Up("matchup")>>
        BY <1>4, <3>2 DEF MatchupKeys
      <4> QED BY <4>1 DEF MatchupColumns
    <3> QED BY <1>4, <3>1, <3>2 DEF MatchupColumns
  <2> HIDE DEF keys
  <2>2. /\ DOMAIN keys = 1 .. 3 /\ keys[1].column = sortBy /\ keys[2].column = k
        /\ keys[3].column = "matchup"
    BY <1>1, <2>1
  <2>3. \A i \in 1 .. 3 : i = 1 \/ i = 2 \/ i = 3
    OBVIOUS
  <2> QED BY <2>1, <2>2, <2>3 DEF KeysWith, MatchupColumns
<1> QED BY <1>2, <1>3, <1>4

LEMMA MatchupsAreTold ==
  ASSUME RowsAreOutcomes, GamesAreFinite PROVE AreMatchupRows(computeRows)
<1>1. \A m \in KnownMatchups :
        /\ MatchupRow(m)["games"] \in Int
        /\ MatchupRow(m)["team_a_win_rate"] \in Int /\ MatchupRow(m)["team_b_win_rate"] \in Int
        /\ MatchupRow(m)["matchup"] = m /\ IsMatchup(m)
  BY MatchupRowFacts
<1>2. computeRows = {MatchupRow(m) : m \in KnownMatchups}
  BY MatchupsAreRows
<1> HIDE DEF computeRows
<1> QED BY <1>1, <1>2 DEF AreMatchupRows, MatchupColumns

\* The matchups of teams as large as is asked for.
LEMMA MatchupListPages ==
  ASSUME RowsAreOutcomes, GamesAreFinite, NEW teamSize, NEW sortBy \in MatchupColumns, NEW down \in BOOLEAN
  PROVE  InPages(MatchupList(computeRows, teamSize), MatchupKeys(sortBy, down))
<1> DEFINE S == MatchupList(computeRows, teamSize)
<1>1. S \in SUBSET computeRows
  BY DEF MatchupList
<1>2. IsFiniteSet(S)
  BY <1>1, MatchupsAreFinite, FS_Subset
<1>3. AreMatchupRows(S)
  BY <1>1, MatchupsAreTold DEF AreMatchupRows
<1> HIDE DEF S
<1>4. InPages(S, MatchupKeys(sortBy, down))
  BY <1>2, <1>3, MatchupKeysDecide, KeysGivePages
<1> QED BY <1>4 DEF S

LEMMA PagesFromRows == RowsAreOutcomes /\ GamesAreFinite => PagesPartition
BY RankingListPages, MatchupListPages DEF PagesPartition

\* Whatever is stored, whatever column a list of players or matchups is sorted by, upwards or
\* downwards, and whatever it is restricted to: no two rows tie, places follow the order, and
\* with any page size up to the largest each page but the last is full and the last holds the
\* rest.
THEOREM PagesAlwaysPartition == StatisticsSpec => []PagesPartition
BY RowsInitially, RowsStep, FiniteInitially, FiniteStep, PagesFromRows, PTL DEF StatisticsSpec

-----------------------------------------------------------------------------
(* Totals of the columns of a list. *)

\* The recursion of the library's sums, with a value for each element.
SumsValues(sum, S, value) ==
  sum = [s \in SUBSET S |->
           IF s = {} THEN 0
           ELSE value[CHOOSE x \in s : TRUE] + sum[s \ {CHOOSE x \in s : TRUE}]]

\* When the values are the sizes of the pieces of a set, their sum is its size.
LEMMA SumIsCount ==
  ASSUME NEW S, NEW part, IsCut(S, part), NEW value, \A x \in S : value[x] = Cardinality(part[x])
  PROVE  (CHOOSE sum : SumsValues(sum, S, value))[S] = Cardinality(Pieces(part, S))
<1>1. ASSUME NEW sum PROVE SumsValues(sum, S, value) <=> SumsParts(sum, S, part)
  <2> DEFINE byValue == [s \in SUBSET S |-> IF s = {} THEN 0
                           ELSE value[CHOOSE x \in s : TRUE] + sum[s \ {CHOOSE x \in s : TRUE}]]
             byPart  == [s \in SUBSET S |-> IF s = {} THEN 0
                           ELSE Cardinality(part[CHOOSE x \in s : TRUE]) + sum[s \ {CHOOSE x \in s : TRUE}]]
  <2>1. ASSUME NEW s \in SUBSET S, s # {}
        PROVE  value[CHOOSE x \in s : TRUE] = Cardinality(part[CHOOSE x \in s : TRUE])
    <3>1. (CHOOSE x \in s : TRUE) \in s
      BY <2>1
    <3> QED BY <3>1
  <2>2. byValue = byPart
    BY <2>1
  <2> HIDE DEF byValue, byPart
  <2>3. (sum = byValue) <=> (sum = byPart)
    BY <2>2
  <2> QED BY <2>3 DEF SumsValues, SumsParts, byValue, byPart
<1>2. PICK known : SumsParts(known, S, part)
  BY SumOfPartsExists
<1>3. SumsValues(known, S, value)
  BY <1>1, <1>2
<1> DEFINE chosen == CHOOSE sum : SumsValues(sum, S, value)
<1>4. SumsValues(chosen, S, value)
  BY <1>3
<1> HIDE DEF chosen
<1>5. SumsParts(chosen, S, part)
  BY <1>1, <1>4
<1>6. chosen[S] = Cardinality(Pieces(part, S))
  BY <1>5, SumOfPartsIsCount
<1> QED BY <1>6 DEF chosen

LEMMA TotalOfGames ==
  ASSUME NEW S, NEW part, IsCut(S, part), \A x \in S : x.games = Cardinality(part[x])
  PROVE  MapThenSumSet(LAMBDA x : x.games, S) = Cardinality(Pieces(part, S))
<1> DEFINE value == [x \in S |-> x.games]
<1>1. \A x \in S : value[x] = Cardinality(part[x])
  OBVIOUS
<1>2. ASSUME NEW sum
      PROVE  SumsValues(sum, S, value) <=>
               sum = [s \in SUBSET S |-> IF s = {} THEN 0
                        ELSE (CHOOSE x \in s : TRUE).games + sum[s \ {CHOOSE x \in s : TRUE}]]
  <2>1. ASSUME NEW s \in SUBSET S, s # {}
        PROVE  value[CHOOSE x \in s : TRUE] = (CHOOSE x \in s : TRUE).games
    <3>1. (CHOOSE x \in s : TRUE) \in s
      BY <2>1
    <3> QED BY <3>1
  <2> HIDE DEF value
  <2>2. [s \in SUBSET S |-> IF s = {} THEN 0
           ELSE value[CHOOSE x \in s : TRUE] + sum[s \ {CHOOSE x \in s : TRUE}]]
         = [s \in SUBSET S |-> IF s = {} THEN 0
              ELSE (CHOOSE x \in s : TRUE).games + sum[s \ {CHOOSE x \in s : TRUE}]]
    BY <2>1
  <2> QED BY <2>2, Zenon DEF SumsValues
<1>3. MapThenSumSet(LAMBDA x : x.games, S) = (CHOOSE sum : SumsValues(sum, S, value))[S]
  <2> HIDE DEF value
  <2> QED BY <1>2, Zenon DEF MapThenSumSet, MapThenFoldSet
<1> HIDE DEF value
<1> QED BY <1>1, <1>3, SumIsCount

-----------------------------------------------------------------------------
(* Counting what each game brings to the ranking. *)

LEMMA EqualPieces ==
  ASSUME NEW S, NEW part, IsCut(S, part), NEW c \in Nat, \A x \in S : Cardinality(part[x]) = c
  PROVE  Cardinality(Pieces(part, S)) = c * Cardinality(S)
<1> DEFINE wrong == {s \in SUBSET S : Cardinality(Pieces(part, s)) # c * Cardinality(s)}
<1>0. IsFiniteSet(S)
  BY DEF IsCut
<1>1. ASSUME wrong # {} PROVE FALSE
  <2>1. PICK s \in wrong : \A t \in wrong : t \subseteq s => t = s
    <3>1. wrong \in SUBSET SUBSET S
      OBVIOUS
    <3> HIDE DEF wrong
    <3> QED BY <1>0, <1>1, <3>1, SmallestSet
  <2>2. CASE s = {}
    <3>1. Cardinality(s) = 0 /\ Cardinality(Pieces(part, s)) = 0
      BY <2>2, NoPieces, FS_EmptySet
    <3> QED BY <2>1, <3>1
  <2>3. CASE s # {}
    <3>1. PICK x \in s : TRUE
      BY <2>3
    <3> DEFINE rest == s \ {x}
    <3>2. Cardinality(Pieces(part, rest)) = c * Cardinality(rest)
      <4>1. rest \in SUBSET S /\ rest \subseteq s /\ rest # s
        BY <3>1
      <4> HIDE DEF rest
      <4> QED BY <2>1, <4>1
    <3>3. Cardinality(Pieces(part, s)) = c + Cardinality(Pieces(part, rest))
      BY <3>1, OnePieceMore
    <3>4. IsFiniteSet(s)
      BY <1>0, FS_Subset
    <3>5. Cardinality(rest) = Cardinality(s) - 1 /\ Cardinality(s) \in Nat
      BY <3>1, <3>4, FS_RemoveElement, FS_CardinalityType
    <3> HIDE DEF rest
    <3>6. c + c * (Cardinality(s) - 1) = c * Cardinality(s)
      BY <3>5
    <3> QED BY <2>1, <3>2, <3>3, <3>5, <3>6
  <2> QED BY <2>2, <2>3
<1> QED BY <1>0, <1>1

LEMMA SameSize ==
  ASSUME NEW S, IsFiniteSet(S), NEW f, \A x, y \in S : f[x] = f[y] => x = y
  PROVE  Cardinality({f[x] : x \in S}) = Cardinality(S)
<1> DEFINE image == {f[x] : x \in S}
           g == [x \in S |-> f[x]]
<1>1. g \in Bijection(S, image)
  BY DEF Bijection, Injection, Surjection, IsInjective
<1> HIDE DEF g, image
<1>2. Cardinality(image) = Cardinality(S)
  BY <1>1, FS_Bijection DEF ExistsBijection
<1> QED BY <1>2 DEF image

\* The rows of the players of one game that hold a seat of a set.
RowsOfSeats(r, seats) == {[game |-> r, seat |-> s] : s \in seats}

LEMMA RowsOfSeatsCount ==
  ASSUME NEW r, NEW seats, IsFiniteSet(seats)
  PROVE  IsFiniteSet(RowsOfSeats(r, seats)) /\ Cardinality(RowsOfSeats(r, seats)) = Cardinality(seats)
<1> DEFINE f == [s \in seats |-> [game |-> r, seat |-> s]]
<1>1. RowsOfSeats(r, seats) = {f[s] : s \in seats}
  BY DEF RowsOfSeats
<1>2. \A s, t \in seats : f[s] = f[t] => s = t
  OBVIOUS
<1> HIDE DEF f
<1> QED BY <1>1, <1>2, ImageIsFinite, SameSize

\* A win is counted for the players of the winning team, and a loss for all others.
LEMMA CountsByTeam ==
  ASSUME RowsAreOutcomes, NEW r \in DOMAIN games, NEW s \in DOMAIN games[r].players
  PROVE  LET x == [game |-> r, seat |-> s]
             g == games[r]
         IN  /\ CountsAsWin(x) <=> g.winnerTeam > 0 /\ g.players[s].team = g.winnerTeam
             /\ CountsAsLoss(x) <=> g.winnerTeam > 0 /\ g.players[s].team # g.winnerTeam
<1> DEFINE x == [game |-> r, seat |-> s]
           g == games[r]
           p == g.players[s]
<1>1. /\ p.isWinner <=> p.result = "win"
      /\ p.isWinner <=> (g.winnerTeam > 0 /\ p.team = g.winnerTeam)
      /\ p.result = "loss" <=> (g.winnerTeam > 0 /\ p.team # g.winnerTeam)
  BY RowsGiveOutcomes DEF OutcomesAgree, TellsOneStory
<1>2. PlayerOf(x) = p /\ games[x.game].winnerTeam = g.winnerTeam
  BY DEF PlayerOf
<1> HIDE DEF x, g, p
<1>3. CountsAsWin(x) <=> g.winnerTeam > 0 /\ p.team = g.winnerTeam
  BY <1>1, <1>2 DEF CountsAsWin
<1>4. CountsAsLoss(x) <=> g.winnerTeam > 0 /\ p.team # g.winnerTeam
  BY <1>1, <1>2 DEF CountsAsLoss
<1> QED BY <1>3, <1>4 DEF x, g, p

LEMMA WinnerPlays ==
  ASSUME RowsAreOutcomes, NEW r \in DOMAIN games, games[r].winnerTeam > 0
  PROVE  games[r].winnerTeam \in Teams(games[r])
<1>1. r \in Recordings /\ games[r] \in {ParseReplayData(r), DrawnRow(r)}
  BY DEF RowsAreOutcomes
<1>2. games[r] = ParseReplayData(r)
  BY <1>1 DEF DrawnRow
<1>3. games[r].winnerTeam = r.winner /\ games[r].players = extractPlayers(r)
  BY <1>2 DEF ParseReplayData
<1>4. PICK s \in DOMAIN r.players : ~r.players[s].observer /\ r.players[s].team = r.winner
  BY <1>1, <1>3, WinnersAssumption
<1>5. s \in DOMAIN games[r].players /\ games[r].players[s].team = r.winner
  BY <1>3, <1>4 DEF extractPlayers, Shown
<1> QED BY <1>3, <1>5 DEF Teams

SeatsOf(r) == DOMAIN games[r].players
WinningSeats(r) == {s \in SeatsOf(r) : games[r].players[s].team = games[r].winnerTeam}
LosingSeats(r) == {s \in SeatsOf(r) : games[r].players[s].team # games[r].winnerTeam}

Decided3v3 == {r \in Qualified3v3 : games[r].winnerTeam > 0}

LEMMA QualifiedSeats ==
  ASSUME RowsAreOutcomes, NEW r \in Qualified3v3
  PROVE  /\ r \in DOMAIN games /\ IsFiniteSet(SeatsOf(r)) /\ Cardinality(SeatsOf(r)) = 6
         /\ r \in Decided3v3 =>
              /\ IsFiniteSet(WinningSeats(r)) /\ Cardinality(WinningSeats(r)) = 3
              /\ IsFiniteSet(LosingSeats(r)) /\ Cardinality(LosingSeats(r)) = 3
<1>1. r \in DOMAIN games /\ games[r].playerCount = 6 /\ \A t \in Teams(games[r]) : TeamSize(games[r], t) = 3
  BY DEF Qualified3v3
<1>2. IsFiniteSet(SeatsOf(r)) /\ Cardinality(SeatsOf(r)) = 6
  BY <1>1, GameFacts DEF SeatsOf
<1>3. ASSUME r \in Decided3v3 PROVE Cardinality(WinningSeats(r)) = 3
  <2>1. games[r].winnerTeam \in Teams(games[r])
    BY <1>1, <1>3, WinnerPlays DEF Decided3v3
  <2>2. WinningSeats(r) = {s \in DOMAIN games[r].players : games[r].players[s].team = games[r].winnerTeam}
    BY DEF WinningSeats, SeatsOf
  <2> QED BY <1>1, <2>1, <2>2 DEF TeamSize
<1>4. IsFiniteSet(WinningSeats(r)) /\ IsFiniteSet(LosingSeats(r))
  BY <1>2, FS_Subset DEF WinningSeats, LosingSeats
<1>5. ASSUME r \in Decided3v3 PROVE Cardinality(LosingSeats(r)) = 3
  <2>1. LosingSeats(r) = SeatsOf(r) \ WinningSeats(r) /\ SeatsOf(r) \cap WinningSeats(r) = WinningSeats(r)
    BY DEF LosingSeats, WinningSeats
  <2>2. Cardinality(SeatsOf(r) \ WinningSeats(r)) = Cardinality(SeatsOf(r)) - Cardinality(SeatsOf(r) \cap WinningSeats(r))
    BY <1>2, FS_Difference
  <2> QED BY <1>2, <1>3, <1>5, <2>1, <2>2
<1> QED BY <1>1, <1>2, <1>3, <1>4, <1>5

LEMMA TotalOfWins ==
  ASSUME NEW S, NEW part, IsCut(S, part), \A x \in S : x.wins = Cardinality(part[x])
  PROVE  MapThenSumSet(LAMBDA x : x.wins, S) = Cardinality(Pieces(part, S))
<1> DEFINE value == [x \in S |-> x.wins]
<1>1. \A x \in S : value[x] = Cardinality(part[x])
  OBVIOUS
<1>2. ASSUME NEW sum
      PROVE  SumsValues(sum, S, value) <=>
               sum = [s \in SUBSET S |-> IF s = {} THEN 0
                        ELSE (CHOOSE x \in s : TRUE).wins + sum[s \ {CHOOSE x \in s : TRUE}]]
  <2>1. ASSUME NEW s \in SUBSET S, s # {}
        PROVE  value[CHOOSE x \in s : TRUE] = (CHOOSE x \in s : TRUE).wins
    <3>1. (CHOOSE x \in s : TRUE) \in s
      BY <2>1
    <3> QED BY <3>1
  <2> HIDE DEF value
  <2>2. [s \in SUBSET S |-> IF s = {} THEN 0
           ELSE value[CHOOSE x \in s : TRUE] + sum[s \ {CHOOSE x \in s : TRUE}]]
         = [s \in SUBSET S |-> IF s = {} THEN 0
              ELSE (CHOOSE x \in s : TRUE).wins + sum[s \ {CHOOSE x \in s : TRUE}]]
    BY <2>1
  <2> QED BY <2>2, Zenon DEF SumsValues
<1>3. MapThenSumSet(LAMBDA x : x.wins, S) = (CHOOSE sum : SumsValues(sum, S, value))[S]
  <2> HIDE DEF value
  <2> QED BY <1>2, Zenon DEF MapThenSumSet, MapThenFoldSet
<1> HIDE DEF value
<1> QED BY <1>1, <1>3, SumIsCount

LEMMA TotalOfLosses ==
  ASSUME NEW S, NEW part, IsCut(S, part), \A x \in S : x.losses = Cardinality(part[x])
  PROVE  MapThenSumSet(LAMBDA x : x.losses, S) = Cardinality(Pieces(part, S))
<1> DEFINE value == [x \in S |-> x.losses]
<1>1. \A x \in S : value[x] = Cardinality(part[x])
  OBVIOUS
<1>2. ASSUME NEW sum
      PROVE  SumsValues(sum, S, value) <=>
               sum = [s \in SUBSET S |-> IF s = {} THEN 0
                        ELSE (CHOOSE x \in s : TRUE).losses + sum[s \ {CHOOSE x \in s : TRUE}]]
  <2>1. ASSUME NEW s \in SUBSET S, s # {}
        PROVE  value[CHOOSE x \in s : TRUE] = (CHOOSE x \in s : TRUE).losses
    <3>1. (CHOOSE x \in s : TRUE) \in s
      BY <2>1
    <3> QED BY <3>1
  <2> HIDE DEF value
  <2>2. [s \in SUBSET S |-> IF s = {} THEN 0
           ELSE value[CHOOSE x \in s : TRUE] + sum[s \ {CHOOSE x \in s : TRUE}]]
         = [s \in SUBSET S |-> IF s = {} THEN 0
              ELSE (CHOOSE x \in s : TRUE).losses + sum[s \ {CHOOSE x \in s : TRUE}]]
    BY <2>1
  <2> QED BY <2>2, Zenon DEF SumsValues
<1>3. MapThenSumSet(LAMBDA x : x.losses, S) = (CHOOSE sum : SumsValues(sum, S, value))[S]
  <2> HIDE DEF value
  <2> QED BY <1>2, Zenon DEF MapThenSumSet, MapThenFoldSet
<1> HIDE DEF value
<1> QED BY <1>1, <1>3, SumIsCount


\* Some of the ranked rows, cut by the key of the player.
RowsWithKey(P, k) == {x \in P : KeyOf[PlayerOf(x).name] = k}

LEMMA CutByKey ==
  ASSUME RowsAreOutcomes, GamesAreFinite, NEW P \in SUBSET RankedRows
  PROVE  LET part == [x \in compute3v3Rows(1) |-> RowsWithKey(P, x.key)]
         IN  IsCut(compute3v3Rows(1), part) /\ Pieces(part, compute3v3Rows(1)) = P
<1> DEFINE S == compute3v3Rows(1)
           part == [x \in S |-> RowsWithKey(P, x.key)]
<1>1. S = {RankingRow(k) : k \in RankedKeys} /\ IsFiniteSet(S)
  BY RankingIsRows
<1>2. \A k \in RankedKeys : RankingRow(k).key = k
  BY RankingRowFacts
<1>3. IsFiniteSet(P)
  BY QualifiedAreGames, RowsAreCutByGame, FS_Subset DEF RankedRows
<1>4. \A k : IsFiniteSet(RowsWithKey(P, k))
  BY <1>3, FS_Subset DEF RowsWithKey
<1>5. \A x \in P : KeyOf[PlayerOf(x).name] \in RankedKeys
  BY DEF RankedKeys
<1> HIDE DEF S
<1>6. \A x, y \in S : x # y => x.key # y.key
  BY <1>1, <1>2
<1>7. IsCut(S, part)
  BY <1>1, <1>4, <1>6 DEF IsCut, RowsWithKey
<1>8. Pieces(part, S) = P
  <2>1. Pieces(part, S) \subseteq P
    BY DEF Pieces, RowsWithKey
  <2>2. ASSUME NEW x \in P PROVE x \in Pieces(part, S)
    <3> DEFINE k == KeyOf[PlayerOf(x).name]
    <3>1. RankingRow(k) \in S /\ RankingRow(k).key = k
      BY <1>1, <1>2, <1>5
    <3>2. x \in RowsWithKey(P, k)
      BY DEF RowsWithKey
    <3> HIDE DEF k
    <3>3. x \in part[RankingRow(k)]
      BY <3>1, <3>2
    <3> HIDE DEF part
    <3> QED BY <3>1, <3>3 DEF Pieces
  <2> QED BY <2>1, <2>2
<1> QED BY <1>7, <1>8 DEF S

\* Some rows of each game of a set, three of each or six of each.
LEMMA CountByGame ==
  ASSUME RowsAreOutcomes, GamesAreFinite, NEW of \in SUBSET DOMAIN games, NEW seats, NEW c \in Nat,
         \A r \in of : IsFiniteSet(seats[r]) /\ Cardinality(seats[r]) = c
  PROVE  Cardinality(UNION {RowsOfSeats(r, seats[r]) : r \in of}) = c * Cardinality(of)
<1> DEFINE part == [r \in of |-> RowsOfSeats(r, seats[r])]
<1>1. IsFiniteSet(of)
  BY FS_Subset DEF GamesAreFinite
<1>2. \A r \in of : IsFiniteSet(part[r]) /\ Cardinality(part[r]) = c
  BY RowsOfSeatsCount
<1>3. \A q, r \in of : q # r => part[q] \cap part[r] = {}
  BY DEF RowsOfSeats
<1>4. Pieces(part, of) = UNION {RowsOfSeats(r, seats[r]) : r \in of}
  BY DEF Pieces
<1> HIDE DEF part
<1>5. Cardinality(Pieces(part, of)) = c * Cardinality(of)
  BY <1>1, <1>2, <1>3, EqualPieces DEF IsCut
<1> QED BY <1>4, <1>5

WonRows == {x \in RankedRows : CountsAsWin(x)}
LostRows == {x \in RankedRows : CountsAsLoss(x)}

LEMMA RankedRowsCount ==
  ASSUME RowsAreOutcomes, GamesAreFinite PROVE Cardinality(RankedRows) = 6 * Cardinality(Qualified3v3)
<1> DEFINE seats == [r \in Qualified3v3 |-> SeatsOf(r)]
<1>1. \A r \in Qualified3v3 : IsFiniteSet(seats[r]) /\ Cardinality(seats[r]) = 6
  BY QualifiedSeats
<1>2. RankedRows = UNION {RowsOfSeats(r, seats[r]) : r \in Qualified3v3}
  BY DEF RankedRows, Rows, RowsOfSeats, SeatsOf
<1> HIDE DEF seats
<1> QED BY <1>1, <1>2, QualifiedAreGames, CountByGame

LEMMA RankedRowIs ==
  ASSUME NEW x
  PROVE  x \in RankedRows <=> \E r \in Qualified3v3 : \E s \in SeatsOf(r) : x = [game |-> r, seat |-> s]
BY DEF RankedRows, Rows, SeatsOf

LEMMA WonRowsCount ==
  ASSUME RowsAreOutcomes, GamesAreFinite PROVE Cardinality(WonRows) = 3 * Cardinality(Decided3v3)
<1> DEFINE seats == [r \in Decided3v3 |-> WinningSeats(r)]
           won == UNION {RowsOfSeats(r, seats[r]) : r \in Decided3v3}
<1>1. \A r \in Decided3v3 : IsFiniteSet(seats[r]) /\ Cardinality(seats[r]) = 3
  BY QualifiedSeats DEF Decided3v3
<1>2. WonRows = won
  <2>1. ASSUME NEW x \in WonRows PROVE x \in won
    <3>1. PICK r \in Qualified3v3 : \E s \in SeatsOf(r) : x = [game |-> r, seat |-> s]
      BY RankedRowIs DEF WonRows
    <3>2. PICK s \in SeatsOf(r) : x = [game |-> r, seat |-> s]
      BY <3>1
    <3>3. r \in Decided3v3 /\ s \in WinningSeats(r)
      <4>1. r \in DOMAIN games /\ CountsAsWin(x)
        BY QualifiedAreGames DEF WonRows
      <4> QED BY <3>2, <4>1, CountsByTeam DEF Decided3v3, WinningSeats, SeatsOf
    <3> QED BY <3>2, <3>3 DEF RowsOfSeats
  <2>2. ASSUME NEW x \in won PROVE x \in WonRows
    <3>1. PICK r \in Decided3v3 : x \in RowsOfSeats(r, WinningSeats(r))
      OBVIOUS
    <3>2. PICK s \in WinningSeats(r) : x = [game |-> r, seat |-> s]
      BY <3>1 DEF RowsOfSeats
    <3>3. r \in DOMAIN games /\ r \in Qualified3v3 /\ s \in SeatsOf(r)
      BY QualifiedAreGames DEF Decided3v3, WinningSeats
    <3>4. CountsAsWin(x)
      BY <3>2, <3>3, CountsByTeam DEF Decided3v3, WinningSeats, SeatsOf
    <3> QED BY <3>2, <3>3, <3>4, RankedRowIs DEF WonRows
  <2> HIDE DEF won
  <2> QED BY <2>1, <2>2
<1> HIDE DEF seats
<1>3. Decided3v3 \in SUBSET DOMAIN games
  BY QualifiedAreGames DEF Decided3v3
<1> QED BY <1>1, <1>2, <1>3, CountByGame

LEMMA LostRowsCount ==
  ASSUME RowsAreOutcomes, GamesAreFinite PROVE Cardinality(LostRows) = 3 * Cardinality(Decided3v3)
<1> DEFINE seats == [r \in Decided3v3 |-> LosingSeats(r)]
           lost == UNION {RowsOfSeats(r, seats[r]) : r \in Decided3v3}
<1>1. \A r \in Decided3v3 : IsFiniteSet(seats[r]) /\ Cardinality(seats[r]) = 3
  BY QualifiedSeats DEF Decided3v3
<1>2. LostRows = lost
  <2>1. ASSUME NEW x \in LostRows PROVE x \in lost
    <3>1. PICK r \in Qualified3v3 : \E s \in SeatsOf(r) : x = [game |-> r, seat |-> s]
      BY RankedRowIs DEF LostRows
    <3>2. PICK s \in SeatsOf(r) : x = [game |-> r, seat |-> s]
      BY <3>1
    <3>3. r \in Decided3v3 /\ s \in LosingSeats(r)
      <4>1. r \in DOMAIN games /\ CountsAsLoss(x)
        BY QualifiedAreGames DEF LostRows
      <4> QED BY <3>2, <4>1, CountsByTeam DEF Decided3v3, LosingSeats, SeatsOf
    <3> QED BY <3>2, <3>3 DEF RowsOfSeats
  <2>2. ASSUME NEW x \in lost PROVE x \in LostRows
    <3>1. PICK r \in Decided3v3 : x \in RowsOfSeats(r, LosingSeats(r))
      OBVIOUS
    <3>2. PICK s \in LosingSeats(r) : x = [game |-> r, seat |-> s]
      BY <3>1 DEF RowsOfSeats
    <3>3. r \in DOMAIN games /\ r \in Qualified3v3 /\ s \in SeatsOf(r)
      BY QualifiedAreGames DEF Decided3v3, LosingSeats
    <3>4. CountsAsLoss(x)
      BY <3>2, <3>3, CountsByTeam DEF Decided3v3, LosingSeats, SeatsOf
    <3> QED BY <3>2, <3>3, <3>4, RankedRowIs DEF LostRows
  <2> HIDE DEF lost
  <2> QED BY <2>1, <2>2
<1> HIDE DEF seats
<1>3. Decided3v3 \in SUBSET DOMAIN games
  BY QualifiedAreGames DEF Decided3v3
<1> QED BY <1>1, <1>2, <1>3, CountByGame

-----------------------------------------------------------------------------
(* Each game is counted once. *)

LEMMA RankingTotals ==
  ASSUME RowsAreOutcomes, GamesAreFinite
  PROVE  /\ MapThenSumSet(LAMBDA x : x.games, compute3v3Rows(1)) = 6 * Cardinality(Qualified3v3)
         /\ MapThenSumSet(LAMBDA x : x.wins, compute3v3Rows(1)) = 3 * Cardinality(Decided3v3)
         /\ MapThenSumSet(LAMBDA x : x.losses, compute3v3Rows(1)) = 3 * Cardinality(Decided3v3)
<1> DEFINE S == compute3v3Rows(1)
           parts(P) == [x \in S |-> RowsWithKey(P, x.key)]
<1>1. S = {RankingRow(k) : k \in RankedKeys}
  BY RankingIsRows
<1>2. /\ RankedRows \in SUBSET RankedRows /\ WonRows \in SUBSET RankedRows /\ LostRows \in SUBSET RankedRows
  BY DEF WonRows, LostRows
<1>3. ASSUME NEW P \in SUBSET RankedRows PROVE IsCut(S, parts(P)) /\ Pieces(parts(P), S) = P
  BY CutByKey
<1>4. ASSUME NEW k
      PROVE  /\ RankingRow(k).key = k
             /\ RankingRow(k).games = Cardinality(RowsWithKey(RankedRows, k))
             /\ RankingRow(k).wins = Cardinality(RowsWithKey(WonRows, k))
             /\ RankingRow(k).losses = Cardinality(RowsWithKey(LostRows, k))
  <2>1. /\ RowsWithKey(RankedRows, k) = RowsOfKey(k)
        /\ RowsWithKey(WonRows, k) = WonRowsOfKey(k)
        /\ RowsWithKey(LostRows, k) = {x \in RowsOfKey(k) : CountsAsLoss(x)}
    BY DEF RowsWithKey, WonRows, LostRows, RowsOfKey, WonRowsOfKey
  <2> QED BY <2>1 DEF RankingRow
<1>5. ASSUME NEW x \in S
      PROVE  /\ x.games = Cardinality(RowsWithKey(RankedRows, x.key))
             /\ x.wins = Cardinality(RowsWithKey(WonRows, x.key))
             /\ x.losses = Cardinality(RowsWithKey(LostRows, x.key))
  BY <1>1, <1>4
<1>6. /\ \A x \in S : x.games = Cardinality(parts(RankedRows)[x])
      /\ \A x \in S : x.wins = Cardinality(parts(WonRows)[x])
      /\ \A x \in S : x.losses = Cardinality(parts(LostRows)[x])
  BY <1>5
<1> HIDE DEF S, parts
<1>7. /\ MapThenSumSet(LAMBDA x : x.games, S) = Cardinality(Pieces(parts(RankedRows), S))
      /\ MapThenSumSet(LAMBDA x : x.wins, S) = Cardinality(Pieces(parts(WonRows), S))
      /\ MapThenSumSet(LAMBDA x : x.losses, S) = Cardinality(Pieces(parts(LostRows), S))
  BY <1>2, <1>3, <1>6, TotalOfGames, TotalOfWins, TotalOfLosses
<1>8. /\ Pieces(parts(RankedRows), S) = RankedRows
      /\ Pieces(parts(WonRows), S) = WonRows
      /\ Pieces(parts(LostRows), S) = LostRows
  BY <1>2, <1>3
<1> QED BY <1>7, <1>8, RankedRowsCount, WonRowsCount, LostRowsCount DEF S

LEMMA MatchupTotal ==
  ASSUME RowsAreOutcomes, GamesAreFinite
  PROVE  MapThenSumSet(LAMBDA x : x.games, computeRows) = Cardinality(MatchupGames)
<1> DEFINE S == computeRows
           part == [x \in S |-> GamesOfMatchup(x.matchup)]
<1>1. S = {MatchupRow(m) : m \in KnownMatchups} /\ IsFiniteSet(S)
  BY MatchupsAreRows, MatchupsAreFinite
<1>2. \A m \in KnownMatchups : MatchupRow(m).matchup = m /\ MatchupRow(m).games = Cardinality(GamesOfMatchup(m))
  BY DEF MatchupRow
<1>3. IsFiniteSet(MatchupGames)
  BY MatchupGamesAreFinite
<1>4. \A m : IsFiniteSet(GamesOfMatchup(m))
  BY <1>3, FS_Subset DEF GamesOfMatchup
<1> HIDE DEF S
<1>5. \A x, y \in S : x # y => x.matchup # y.matchup
  BY <1>1, <1>2
<1>6. IsCut(S, part)
  BY <1>1, <1>4, <1>5 DEF IsCut, GamesOfMatchup
<1>7. Pieces(part, S) = MatchupGames
  <2>1. Pieces(part, S) \subseteq MatchupGames
    BY DEF Pieces, GamesOfMatchup
  <2>2. ASSUME NEW r \in MatchupGames PROVE r \in Pieces(part, S)
    <3> DEFINE m == MatchupOf(games[r])
    <3>1. MatchupRow(m) \in S /\ MatchupRow(m).matchup = m
      BY <1>1, <1>2 DEF KnownMatchups
    <3>2. r \in GamesOfMatchup(m)
      BY DEF GamesOfMatchup
    <3> HIDE DEF m
    <3>3. r \in part[MatchupRow(m)]
      BY <3>1, <3>2
    <3> HIDE DEF part
    <3> QED BY <3>1, <3>3 DEF Pieces
  <2> QED BY <2>1, <2>2
<1>8. \A x \in S : x.games = Cardinality(part[x])
  BY <1>1, <1>2
<1> HIDE DEF part
<1>9. MapThenSumSet(LAMBDA x : x.games, S) = Cardinality(Pieces(part, S))
  BY <1>6, <1>8, TotalOfGames
<1> QED BY <1>7, <1>9 DEF S

LEMMA DecidedAreMatchups == ASSUME RowsAreOutcomes PROVE Decided3v3 \subseteq MatchupGames
<1> SUFFICES ASSUME NEW r \in Decided3v3 PROVE r \in MatchupGames
  OBVIOUS
<1>1. /\ r \in DOMAIN games /\ games[r].playerCount = 6 /\ LongEnough(games[r]) /\ games[r].winnerTeam > 0
      /\ Cardinality(Teams(games[r])) = 2 /\ \A t \in Teams(games[r]) : TeamSize(games[r], t) = 3
  BY DEF Decided3v3, Qualified3v3
<1>2. \A t \in Teams(games[r]) : 2 * TeamSize(games[r], t) = games[r].playerCount
  BY <1>1
<1> QED BY <1>1, <1>2 DEF MatchupGames

\* One of the two sides won a game of a matchup.
LEMMA SidesOfGame ==
  ASSUME RowsAreOutcomes, NEW m, NEW r \in GamesOfMatchup(m)
  PROVE  \E a, b : /\ a # b /\ Canon(games[r]) = <<a, b>>
                   /\ games[r].winnerTeam = a \/ games[r].winnerTeam = b
                   /\ m = <<Comp(games[r], a), Comp(games[r], b)>>
<1>1. r \in DOMAIN games /\ Cardinality(Teams(games[r])) = 2 /\ games[r].winnerTeam > 0
  BY DEF GamesOfMatchup, MatchupGames
<1>2. PICK a, b \in Teams(games[r]) : a # b /\ Teams(games[r]) = {a, b} /\ Canon(games[r]) = <<a, b>>
  BY <1>1, CanonFacts
<1>3. games[r].winnerTeam = a \/ games[r].winnerTeam = b
  BY <1>1, <1>2, WinnerPlays
<1>4. m = <<Comp(games[r], a), Comp(games[r], b)>>
  BY <1>2 DEF GamesOfMatchup, MatchupOf
<1> QED BY <1>2, <1>3, <1>4

LEMMA MatchupSides ==
  ASSUME RowsAreOutcomes, GamesAreFinite, NEW m \in KnownMatchups
  PROVE  /\ MatchupRow(m).aWins + MatchupRow(m).bWins = MatchupRow(m).games
         /\ m[1] # m[2] =>
              MatchupRow(m).aWins = Cardinality({r \in MatchupGames : MatchupOf(games[r]) = m
                                                   /\ Comp(games[r], games[r].winnerTeam) = m[1]})
<1> DEFINE of == GamesOfMatchup(m)
           A == WinsOfSide(m, 1)
           B == WinsOfSide(m, 2)
<1>1. A \cup B = of /\ A \cap B = {}
  BY SidesOfGame DEF WinsOfSide
<1>2. IsFiniteSet(of)
  BY MatchupGamesAreFinite, FS_Subset DEF GamesOfMatchup
<1>3. IsFiniteSet(A) /\ IsFiniteSet(B)
  BY <1>2, FS_Subset DEF WinsOfSide
<1>4. MatchupRow(m).games = Cardinality(of) /\ MatchupRow(m).aWins = Cardinality(A) /\ MatchupRow(m).bWins = Cardinality(B)
  BY DEF MatchupRow
<1>5. m[1] # m[2] =>
        A = {r \in MatchupGames : MatchupOf(games[r]) = m /\ Comp(games[r], games[r].winnerTeam) = m[1]}
  <2> SUFFICES ASSUME m[1] # m[2], NEW r \in of
               PROVE  r \in A <=> Comp(games[r], games[r].winnerTeam) = m[1]
    BY DEF GamesOfMatchup, WinsOfSide
  <2>1. PICK a, b : /\ a # b /\ Canon(games[r]) = <<a, b>>
                    /\ games[r].winnerTeam = a \/ games[r].winnerTeam = b
                    /\ m = <<Comp(games[r], a), Comp(games[r], b)>>
    BY SidesOfGame
  <2> QED BY <2>1 DEF WinsOfSide
<1> HIDE DEF of, A, B
<1>6. Cardinality(A \cup B) = Cardinality(A) + Cardinality(B) - Cardinality(A \cap B)
  BY <1>3, FS_Union
<1>7. Cardinality(A \cap B) = 0 /\ Cardinality(A) \in Nat /\ Cardinality(B) \in Nat
  BY <1>1, <1>3, FS_EmptySet, FS_CardinalityType
<1>8. Cardinality(A) + Cardinality(B) = Cardinality(of)
  BY <1>1, <1>6, <1>7
<1> QED BY <1>4, <1>5, <1>8

LEMMA CountedOnce == RowsAreOutcomes /\ GamesAreFinite => GamesCountedOnce
<1> SUFFICES ASSUME RowsAreOutcomes, GamesAreFinite PROVE GamesCountedOnce
  OBVIOUS
<1>1. {r \in Qualified3v3 : games[r].winnerTeam > 0} = Decided3v3
  BY DEF Decided3v3
<1>2. ASSUME NEW x \in computeRows
      PROVE  /\ x.aWins + x.bWins = x.games
             /\ x.matchup[1] # x.matchup[2] =>
                  x.aWins = Cardinality({r \in MatchupGames : MatchupOf(games[r]) = x.matchup
                                           /\ Comp(games[r], games[r].winnerTeam) = x.matchup[1]})
  <2>1. PICK m \in KnownMatchups : x = MatchupRow(m)
    BY MatchupsAreRows
  <2>2. x.matchup = m
    BY <2>1 DEF MatchupRow
  <2> QED BY <2>1, <2>2, MatchupSides
<1> QED BY <1>1, <1>2, RankingTotals, MatchupTotal, DecidedAreMatchups, Zenon DEF GamesCountedOnce

-----------------------------------------------------------------------------
(* The page of a player: what a request has read, and what it answers. *)

LEMMA SumOfFunction ==
  ASSUME NEW fun, NEW part, IsCut(DOMAIN fun, part), \A k \in DOMAIN fun : fun[k] = Cardinality(part[k])
  PROVE  SumFunction(fun) = Cardinality(Pieces(part, DOMAIN fun))
<1>1. SumFunction(fun) = (CHOOSE sum : SumsValues(sum, DOMAIN fun, fun))[DOMAIN fun]
  BY Zenon DEF SumFunction, SumFunctionOnSet, FoldFunctionOnSet, MapThenFoldSet, SumsValues
<1> QED BY <1>1, SumIsCount

TallyByRace(rows) == Tally(rows, LAMBDA x : x.race)

OfRace(rows, race) == {x \in rows : x.race = race}

RowsHaving(rows, result) == {x \in rows : x.result = result}

LEMMA TallyFacts ==
  ASSUME NEW rows, IsFiniteSet(rows)
  PROVE  LET t == TallyByRace(rows)
         IN  /\ DOMAIN t = {x.race : x \in rows} /\ IsFiniteSet(DOMAIN t)
             /\ \A k \in DOMAIN t : /\ t[k]["total"] = Cardinality(OfRace(rows, k))
                                    /\ t[k]["wins"] = Cardinality(OfRace(RowsHaving(rows, "win"), k))
                                    /\ t[k]["losses"] = Cardinality(OfRace(RowsHaving(rows, "loss"), k))
<1> DEFINE t == TallyByRace(rows)
           f == [x \in rows |-> x.race]
<1>1. t = [k \in {x.race : x \in rows} |->
             LET of == {x \in rows : x.race = k}
             IN  [total  |-> Cardinality(of),
                  wins   |-> Cardinality({x \in of : x.result = "win"}),
                  losses |-> Cardinality({x \in of : x.result = "loss"})]]
  BY DEF TallyByRace, Tally
<1>2. ASSUME NEW k
      PROVE  /\ {x \in rows : x.race = k} = OfRace(rows, k)
             /\ {x \in {y \in rows : y.race = k} : x.result = "win"} = OfRace(RowsHaving(rows, "win"), k)
             /\ {x \in {y \in rows : y.race = k} : x.result = "loss"} = OfRace(RowsHaving(rows, "loss"), k)
  BY DEF OfRace, RowsHaving
<1>3. DOMAIN t = {f[x] : x \in rows}
  BY <1>1
<1>4. IsFiniteSet(DOMAIN t)
  <2> HIDE DEF t, f
  <2> QED BY <1>3, ImageIsFinite
<1>5. ASSUME NEW k \in DOMAIN t
      PROVE  /\ t[k]["total"] = Cardinality({x \in rows : x.race = k})
             /\ t[k]["wins"] = Cardinality({x \in {y \in rows : y.race = k} : x.result = "win"})
             /\ t[k]["losses"] = Cardinality({x \in {y \in rows : y.race = k} : x.result = "loss"})
  BY <1>1
<1>6. DOMAIN t = {x.race : x \in rows}
  BY <1>1
<1> HIDE DEF t
<1> QED BY <1>2, <1>4, <1>5, <1>6 DEF t

\* Some of the counted rows, cut by race.
LEMMA RaceTotals ==
  ASSUME NEW rows, IsFiniteSet(rows), NEW column \in {"total", "wins", "losses"}, NEW P \in SUBSET rows,
         \A k \in DOMAIN TallyByRace(rows) : TallyByRace(rows)[k][column] = Cardinality(OfRace(P, k))
  PROVE  SumFunction([k \in DOMAIN TallyByRace(rows) |-> TallyByRace(rows)[k][column]]) = Cardinality(P)
<1> DEFINE t == TallyByRace(rows)
           fun == [k \in DOMAIN t |-> t[k][column]]
           part == [k \in DOMAIN t |-> OfRace(P, k)]
<1>1. DOMAIN t = {x.race : x \in rows} /\ IsFiniteSet(DOMAIN t)
  BY TallyFacts
<1>2. IsFiniteSet(P)
  BY FS_Subset
<1>3. \A k : IsFiniteSet(OfRace(P, k))
  BY <1>2, FS_Subset DEF OfRace
<1>4. DOMAIN fun = DOMAIN t
  OBVIOUS
<1>5. \A k \in DOMAIN t : fun[k] = Cardinality(part[k])
  OBVIOUS
<1> HIDE DEF t, fun
<1>6. IsCut(DOMAIN t, part)
  BY <1>1, <1>3 DEF IsCut, OfRace
<1>7. Pieces(part, DOMAIN t) = P
  <2>1. Pieces(part, DOMAIN t) \subseteq P
    BY DEF Pieces, OfRace
  <2>2. ASSUME NEW x \in P PROVE x \in Pieces(part, DOMAIN t)
    <3>1. x.race \in DOMAIN t /\ x \in OfRace(P, x.race)
      BY <1>1 DEF OfRace
    <3>2. x \in part[x.race]
      BY <3>1
    <3> HIDE DEF part
    <3> QED BY <3>1, <3>2 DEF Pieces
  <2> QED BY <2>1, <2>2
<1> HIDE DEF part
<1>8. SumFunction(fun) = Cardinality(Pieces(part, DOMAIN t))
  BY <1>4, <1>5, <1>6, SumOfFunction
<1> QED BY <1>7, <1>8 DEF fun, t

\* The columns of a tally add up to what was tallied.
LEMMA TallyAddsUp ==
  ASSUME NEW rows, IsFiniteSet(rows)
  PROVE  LET t == TallyByRace(rows)
             Sum(part) == SumFunction([k \in DOMAIN t |-> t[k][part]])
         IN  /\ Sum("total") = Cardinality(rows)
             /\ Sum("wins") = Cardinality(RowsHaving(rows, "win"))
             /\ Sum("losses") = Cardinality(RowsHaving(rows, "loss"))
<1>1. /\ rows \in SUBSET rows /\ RowsHaving(rows, "win") \in SUBSET rows /\ RowsHaving(rows, "loss") \in SUBSET rows
  BY DEF RowsHaving
<1>2. \A k \in DOMAIN TallyByRace(rows) :
         /\ TallyByRace(rows)[k]["total"] = Cardinality(OfRace(rows, k))
         /\ TallyByRace(rows)[k]["wins"] = Cardinality(OfRace(RowsHaving(rows, "win"), k))
         /\ TallyByRace(rows)[k]["losses"] = Cardinality(OfRace(RowsHaving(rows, "loss"), k))
  BY TallyFacts
<1>3. SumFunction([k \in DOMAIN TallyByRace(rows) |-> TallyByRace(rows)[k]["total"]]) = Cardinality(rows)
  BY <1>1, <1>2, RaceTotals
<1>4. SumFunction([k \in DOMAIN TallyByRace(rows) |-> TallyByRace(rows)[k]["wins"]]) = Cardinality(RowsHaving(rows, "win"))
  BY <1>1, <1>2, RaceTotals
<1>5. SumFunction([k \in DOMAIN TallyByRace(rows) |-> TallyByRace(rows)[k]["losses"]]) = Cardinality(RowsHaving(rows, "loss"))
  BY <1>1, <1>2, RaceTotals
<1> QED BY <1>3, <1>4, <1>5

LEMMA TallyBounds ==
  ASSUME NEW rows, IsFiniteSet(rows), NEW k \in DOMAIN TallyByRace(rows)
  PROVE  TallyByRace(rows)[k].wins + TallyByRace(rows)[k].losses <= TallyByRace(rows)[k].total
<1> DEFINE W == OfRace(RowsHaving(rows, "win"), k)
           L == OfRace(RowsHaving(rows, "loss"), k)
           A == OfRace(rows, k)
<1>1. W \cup L \in SUBSET A /\ W \in SUBSET rows /\ L \in SUBSET rows /\ A \in SUBSET rows /\ W \cap L = {}
  BY DEF OfRace, RowsHaving
<1>2. IsFiniteSet(W) /\ IsFiniteSet(L) /\ IsFiniteSet(A)
  BY <1>1, FS_Subset
<1>3. /\ TallyByRace(rows)[k]["wins"] = Cardinality(W)
      /\ TallyByRace(rows)[k]["losses"] = Cardinality(L)
      /\ TallyByRace(rows)[k]["total"] = Cardinality(A)
  BY TallyFacts
<1> HIDE DEF W, L, A
<1>4. Cardinality(W \cup L) = Cardinality(W) + Cardinality(L) - Cardinality(W \cap L)
  BY <1>2, FS_Union
<1>5. Cardinality(W \cap L) = 0 /\ Cardinality(W) \in Nat /\ Cardinality(L) \in Nat
  BY <1>1, <1>2, FS_EmptySet, FS_CardinalityType
<1>6. Cardinality(W \cup L) <= Cardinality(A)
  BY <1>1, <1>2, FS_Subset
<1> QED BY <1>3, <1>4, <1>5, <1>6

-----------------------------------------------------------------------------
(* The request: rows read at one time, opponents at another. *)

\* What the page says of the player's rows and of their opponents.
IsAnswer(a, rows, opponents) ==
  /\ a.total = Cardinality(rows) /\ a.wins = Cardinality(RowsHaving(rows, "win"))
  /\ a.losses = Cardinality(RowsHaving(rows, "loss")) /\ a.draws = Cardinality(RowsHaving(rows, "draw"))
  /\ a.races = TallyByRace(rows) /\ a.matchups = TallyByRace(opponents)

\* As long as no write came between, the rows and the opponents are those that are stored.
HasRead(rows, n, s) ==
  /\ request = [name |-> n, records |-> rows, done |-> FALSE, same |-> s]
  /\ IsFiniteSet(rows)
  /\ s = TRUE => rows = PlayerRows(n) /\ rows # {}

HasAnswered(rows, opponents, n, s) ==
  /\ request.done = TRUE /\ request.name = n /\ request.same = s
  /\ IsAnswer(request, rows, opponents) /\ IsFiniteSet(rows) /\ IsFiniteSet(opponents)
  /\ s = TRUE => rows = PlayerRows(n) /\ rows # {} /\ opponents = OpponentsOf(rows)

RequestIsRead ==
  request # NoRequest =>
    \/ \E rows, n, s : HasRead(rows, n, s)
    \/ \E rows, opponents, n, s : HasAnswered(rows, opponents, n, s)

LEMMA PlayerRowsAreFinite ==
  ASSUME RowsAreOutcomes, GamesAreFinite, NEW n PROVE IsFiniteSet(PlayerRows(n))
<1> DEFINE found == {y \in Rows(LongGames) : PlayerOf(y).name = n}
           f == [x \in found |-> [game |-> x.game, seat |-> x.seat, team |-> PlayerOf(x).team, race |-> PlayerOf(x).race,
                                  result |-> PlayerOf(x).result, map |-> games[x.game].map]]
<1>1. IsFiniteSet(found)
  <2>1. LongGames \in SUBSET DOMAIN games
    BY DEF LongGames
  <2>2. IsFiniteSet(Rows(LongGames))
    BY <2>1, RowsAreCutByGame
  <2> QED BY <2>2, FS_Subset
<1>2. PlayerRows(n) = {f[x] : x \in found}
  BY DEF PlayerRows
<1> HIDE DEF found, f
<1> QED BY <1>1, <1>2, ImageIsFinite

\* The opponents of one of the rows.
OpponentsIn(x) ==
  {[record |-> x, race |-> PlayerOf(o).race, result |-> x.result, seat |-> o.seat] :
     o \in {p \in (IF x.game \in LongGames THEN Rows({x.game}) ELSE {}) : PlayerOf(p).team # x.team}}

LEMMA OpponentsAreCut ==
  ASSUME RowsAreOutcomes, GamesAreFinite, NEW rows, IsFiniteSet(rows)
  PROVE  LET part == [x \in rows |-> OpponentsIn(x)]
         IN  IsCut(rows, part) /\ Pieces(part, rows) = OpponentsOf(rows)
<1> DEFINE part == [x \in rows |-> OpponentsIn(x)]
<1>1. ASSUME NEW x PROVE IsFiniteSet(OpponentsIn(x))
  <2> DEFINE all == IF x.game \in LongGames THEN Rows({x.game}) ELSE {}
             others == {p \in all : PlayerOf(p).team # x.team}
             f == [o \in others |-> [record |-> x, race |-> PlayerOf(o).race, result |-> x.result, seat |-> o.seat]]
  <2>1. IsFiniteSet(all)
    <3>1. CASE x.game \in LongGames
      <4>1. {x.game} \in SUBSET DOMAIN games
        BY <3>1 DEF LongGames
      <4>2. IsFiniteSet(Rows({x.game}))
        BY <4>1, RowsAreCutByGame
      <4> QED BY <3>1, <4>2
    <3>2. CASE x.game \notin LongGames
      BY <3>2, FS_EmptySet
    <3> QED BY <3>1, <3>2
  <2>2. OpponentsIn(x) = {f[o] : o \in others}
    BY DEF OpponentsIn
  <2> HIDE DEF all, f
  <2>3. IsFiniteSet(others)
    BY <2>1, FS_Subset
  <2> HIDE DEF others
  <2> QED BY <2>2, <2>3, ImageIsFinite
<1>2. \A x, y \in rows : x # y => OpponentsIn(x) \cap OpponentsIn(y) = {}
  BY DEF OpponentsIn
<1>3. IsCut(rows, part)
  BY <1>1, <1>2 DEF IsCut
<1>4. Pieces(part, rows) = OpponentsOf(rows)
  <2>1. {part[x] : x \in rows} = {OpponentsIn(x) : x \in rows}
    OBVIOUS
  <2>2. OpponentsOf(rows) = UNION {OpponentsIn(x) : x \in rows}
    BY DEF OpponentsOf, OpponentsIn
  <2> QED BY <2>1, <2>2 DEF Pieces
<1> QED BY <1>3, <1>4

LEMMA ReadInitially == StatisticsInit => RequestIsRead
BY DEF StatisticsInit, RequestIsRead

LEMMA ReadKeeps ==
  ASSUME RowsAreOutcomes, GamesAreFinite, NEW n \in Asked, GetPlayerStats(n) PROVE RequestIsRead'
<1>1. /\ request' = [name |-> n, records |-> PlayerRows(n), done |-> FALSE, same |-> TRUE]
      /\ PlayerRows(n) # {} /\ games' = games
  BY DEF GetPlayerStats
<1>2. IsFiniteSet(PlayerRows(n))
  BY PlayerRowsAreFinite
<1>3. PlayerRows(n)' = PlayerRows(n)
  BY <1>1 DEF PlayerRows, LongGames, Rows, PlayerOf
<1>0. PICK rows : rows = PlayerRows(n)
  OBVIOUS
<1>4. /\ request' = [name |-> n, records |-> rows, done |-> FALSE, same |-> TRUE]
      /\ rows # {} /\ rows = PlayerRows(n)' /\ IsFiniteSet(rows)
  BY <1>0, <1>1, <1>2, <1>3
<1>5. HasRead(rows, n, TRUE)'
  BY <1>4, Zenon DEF HasRead
<1> QED BY <1>5, Zenon DEF RequestIsRead

LEMMA AnswerKeeps ==
  ASSUME RowsAreOutcomes, GamesAreFinite, RequestIsRead, AnswerPlayerStats PROVE RequestIsRead'
<1>1. request # NoRequest /\ ~request.done /\ games' = games
  BY DEF AnswerPlayerStats
<1>2. PICK rows, n, s : /\ request = [name |-> n, records |-> rows, done |-> FALSE, same |-> s]
                        /\ IsFiniteSet(rows)
                        /\ s = TRUE => rows = PlayerRows(n) /\ rows # {}
  <2>1. \E rows, n, s : HasRead(rows, n, s)
    BY <1>1 DEF RequestIsRead, HasAnswered
  <2> QED BY <2>1 DEF HasRead
<1>3. request.records = rows /\ request.name = n /\ request.same = s
  BY <1>2
<1>0. PICK opponents : opponents = OpponentsOf(rows)
  OBVIOUS
<1>4. request' = [name |-> n, done |-> TRUE, same |-> s,
                  total |-> Cardinality(rows), wins |-> Cardinality(RowsHaving(rows, "win")),
                  losses |-> Cardinality(RowsHaving(rows, "loss")),
                  draws |-> Cardinality(RowsHaving(rows, "draw")),
                  races |-> TallyByRace(rows),
                  maps |-> Tally({x \in rows : x.map # ""}, LAMBDA x : x.map),
                  matchups |-> TallyByRace(opponents)]
  BY <1>0, <1>3, Zenon DEF AnswerPlayerStats, RowsHaving, TallyByRace
<1>5. IsFiniteSet(opponents)
  <2> DEFINE part == [x \in rows |-> OpponentsIn(x)]
  <2>1. IsCut(rows, part) /\ Pieces(part, rows) = OpponentsOf(rows)
    BY <1>2, OpponentsAreCut
  <2> HIDE DEF part
  <2>2. IsFiniteSet(Pieces(part, rows))
    BY <2>1, PiecesAreFinite
  <2> QED BY <1>0, <2>1, <2>2
<1>6. PlayerRows(n)' = PlayerRows(n)
  BY <1>1 DEF PlayerRows, LongGames, Rows, PlayerOf
<1>7. OpponentsOf(rows)' = opponents
  BY <1>0, <1>1 DEF OpponentsOf, LongGames, Rows, PlayerOf
<1>8. /\ IsAnswer(request, rows, opponents)'
      /\ request'.done = TRUE /\ request'.name = n /\ request'.same = s
  <2> DEFINE maps == Tally({x \in rows : x.map # ""}, LAMBDA x : x.map)
  <2>1. request' = [name |-> n, done |-> TRUE, same |-> s,
                    total |-> Cardinality(rows), wins |-> Cardinality(RowsHaving(rows, "win")),
                    losses |-> Cardinality(RowsHaving(rows, "loss")),
                    draws |-> Cardinality(RowsHaving(rows, "draw")),
                    races |-> TallyByRace(rows), maps |-> maps, matchups |-> TallyByRace(opponents)]
    BY <1>4, Zenon
  <2> HIDE DEF maps
  <2> QED BY <2>1 DEF IsAnswer
<1>9. s = TRUE => rows = PlayerRows(n)' /\ rows # {} /\ opponents = OpponentsOf(rows)'
  BY <1>0, <1>2, <1>6, <1>7
<1>10. IsFiniteSet(rows)
  BY <1>2
<1>11. HasAnswered(rows, opponents, n, s)'
  BY <1>5, <1>8, <1>9, <1>10, Zenon DEF HasAnswered
<1> QED BY <1>11, Zenon DEF RequestIsRead

LEMMA WriteKeeps ==
  ASSUME RequestIsRead, request' = Disturb PROVE RequestIsRead'
<1>1. CASE request # NoRequest => request.done
  <2>1. request' = NoRequest
    BY <1>1 DEF Disturb
  <2> QED BY <2>1 DEF RequestIsRead
<1>2. CASE request # NoRequest /\ ~request.done
  <2>1. PICK rows, n, s : HasRead(rows, n, s)
    BY <1>2 DEF RequestIsRead, HasAnswered
  <2>2. request' = [request EXCEPT !.same = FALSE]
    BY <1>2 DEF Disturb
  <2>3. request' = [name |-> n, records |-> rows, done |-> FALSE, same |-> FALSE] /\ IsFiniteSet(rows)
    BY <2>1, <2>2 DEF HasRead
  <2>4. HasRead(rows, n, FALSE)'
    BY <2>3, Zenon DEF HasRead
  <2> QED BY <2>4, Zenon DEF RequestIsRead
<1> QED BY <1>1, <1>2

LEMMA ReadStep ==
  RowsAreOutcomes /\ GamesAreFinite /\ RequestIsRead /\ [StatisticsNext]_statisticsVars => RequestIsRead'
<1> SUFFICES ASSUME RowsAreOutcomes, GamesAreFinite, RequestIsRead, [StatisticsNext]_statisticsVars
             PROVE  RequestIsRead'
  OBVIOUS
<1>1. ASSUME NEW r \in Recordings, createNewGame(r) \/ DeleteGame(r) PROVE RequestIsRead'
  BY <1>1, WriteKeeps DEF createNewGame, DeleteGame
<1>2. ASSUME NEW limit \in MigrationLimits, NormalizeShortGames(limit) PROVE RequestIsRead'
  BY <1>2, WriteKeeps DEF NormalizeShortGames
<1>3. ASSUME NEW n \in Asked, GetPlayerStats(n) PROVE RequestIsRead'
  BY <1>3, ReadKeeps
<1>4. ASSUME AnswerPlayerStats PROVE RequestIsRead'
  BY <1>4, AnswerKeeps
<1>5. CASE UNCHANGED statisticsVars
  <2>1. games' = games /\ request' = request
    BY <1>5 DEF statisticsVars
  <2>2. ASSUME NEW n PROVE PlayerRows(n)' = PlayerRows(n) /\ OpponentsOf(n)' = OpponentsOf(n)
    BY <2>1 DEF PlayerRows, OpponentsOf, LongGames, Rows, PlayerOf
  <2>3. CASE request = NoRequest
    BY <2>1, <2>3 DEF RequestIsRead
  <2>4. ASSUME NEW rows, NEW n, NEW s, HasRead(rows, n, s) PROVE RequestIsRead'
    <3>1. HasRead(rows, n, s)'
      BY <2>1, <2>2, <2>4, Zenon DEF HasRead
    <3> QED BY <3>1, Zenon DEF RequestIsRead
  <2>5. ASSUME NEW rows, NEW opponents, NEW n, NEW s, HasAnswered(rows, opponents, n, s) PROVE RequestIsRead'
    <3>1. IsAnswer(request, rows, opponents)'
      BY <2>1, <2>5, Zenon DEF HasAnswered, IsAnswer
    <3>2. HasAnswered(rows, opponents, n, s)'
      BY <2>1, <2>2, <2>5, <3>1, Zenon DEF HasAnswered
    <3> QED BY <3>2, Zenon DEF RequestIsRead
  <2> QED BY <2>3, <2>4, <2>5, Zenon DEF RequestIsRead
<1> QED BY <1>1, <1>2, <1>3, <1>4, <1>5 DEF StatisticsNext

-----------------------------------------------------------------------------
(* The page and the ranking. *)

\* As in RecordsMatchRanking: the player spells the name one way and plays 3v3 only.
PlaysAlone(n) ==
  /\ \A r \in DOMAIN games : \A s \in DOMAIN games[r].players :
       games[r].players[s].name = n => r \in Qualified3v3 \/ r \notin LongGames
  /\ \A r \in DOMAIN games : \A s \in DOMAIN games[r].players :
       KeyOf[games[r].players[s].name] = KeyOf[n] => games[r].players[s].name = n

PageRow(x) ==
  [game |-> x.game, seat |-> x.seat, team |-> PlayerOf(x).team, race |-> PlayerOf(x).race,
   result |-> PlayerOf(x).result, map |-> games[x.game].map]

LEMMA QualifiedAreLong == Qualified3v3 \subseteq LongGames
BY DEF Qualified3v3, LongGames, LongEnough, MinValidGameLengthSec, invalidGameMaxDurationSeconds

LEMMA RowIs ==
  ASSUME NEW of, NEW x
  PROVE  x \in Rows(of) <=> \E r \in of : \E s \in DOMAIN games[r].players : x = [game |-> r, seat |-> s]
BY DEF Rows

\* The rows of the page are the rows of the ranking.
LEMMA RowsOfAlone ==
  ASSUME NEW n, PlaysAlone(n)
  PROVE  {y \in Rows(LongGames) : PlayerOf(y).name = n} = RowsOfKey(KeyOf[n])
<1>1. ASSUME NEW y \in Rows(LongGames), PlayerOf(y).name = n PROVE y \in RowsOfKey(KeyOf[n])
  <2>0. PICK r \in LongGames : \E s \in DOMAIN games[r].players : y = [game |-> r, seat |-> s]
    BY RowIs
  <2>1. PICK s \in DOMAIN games[r].players : y = [game |-> r, seat |-> s]
    BY <2>0
  <2>2. r \in DOMAIN games /\ games[r].players[s].name = n
    BY <1>1, <2>1 DEF LongGames, PlayerOf
  <2>3. r \in Qualified3v3
    BY <2>2 DEF PlaysAlone
  <2>4. y \in Rows(Qualified3v3)
    BY <2>1, <2>3, RowIs
  <2> QED BY <1>1, <2>4 DEF RowsOfKey, RankedRows
<1>2. ASSUME NEW y \in RowsOfKey(KeyOf[n]) PROVE y \in Rows(LongGames) /\ PlayerOf(y).name = n
  <2>1. y \in Rows(Qualified3v3) /\ KeyOf[PlayerOf(y).name] = KeyOf[n]
    BY DEF RowsOfKey, RankedRows
  <2>2. PICK r \in Qualified3v3 : \E s \in DOMAIN games[r].players : y = [game |-> r, seat |-> s]
    BY <2>1, RowIs
  <2>3. PICK s \in DOMAIN games[r].players : y = [game |-> r, seat |-> s]
    BY <2>2
  <2>4. r \in DOMAIN games /\ r \in LongGames /\ PlayerOf(y) = games[r].players[s]
    BY <2>3, QualifiedAreGames, QualifiedAreLong DEF PlayerOf
  <2>5. PlayerOf(y).name = n
    BY <2>1, <2>4 DEF PlaysAlone
  <2>6. y \in Rows(LongGames)
    BY <2>3, <2>4, RowIs
  <2> QED BY <2>5, <2>6
<1> QED BY <1>1, <1>2

LEMMA PageRowsOfAlone ==
  ASSUME NEW n, PlaysAlone(n) PROVE PlayerRows(n) = {PageRow(x) : x \in RowsOfKey(KeyOf[n])}
BY RowsOfAlone DEF PlayerRows, PageRow

\* So the page has as many rows as the ranking, of any selection.
LEMMA AloneCounts ==
  ASSUME NEW n, PlaysAlone(n), IsFiniteSet(RowsOfKey(KeyOf[n])), NEW P \in SUBSET RowsOfKey(KeyOf[n])
  PROVE  Cardinality({PageRow(x) : x \in P}) = Cardinality(P)
<1> DEFINE f == [x \in P |-> PageRow(x)]
<1>1. IsFiniteSet(P)
  BY FS_Subset
<1>2. \A x \in P : x = [game |-> x.game, seat |-> x.seat]
  BY RowIs DEF RowsOfKey, RankedRows
<1>3. \A x, y \in P : f[x] = f[y] => x = y
  BY <1>2 DEF PageRow
<1>4. {PageRow(x) : x \in P} = {f[x] : x \in P}
  OBVIOUS
<1> HIDE DEF f
<1> QED BY <1>1, <1>3, <1>4, SameSize

LEMMA ResultCounts ==
  ASSUME RowsAreOutcomes, NEW x \in RankedRows
  PROVE  /\ CountsAsWin(x) <=> PlayerOf(x).result = "win"
         /\ CountsAsLoss(x) <=> PlayerOf(x).result = "loss"
<1>1. PICK r \in Qualified3v3 : \E s \in SeatsOf(r) : x = [game |-> r, seat |-> s]
  BY RankedRowIs
<1>2. PICK s \in SeatsOf(r) : x = [game |-> r, seat |-> s]
  BY <1>1
<1>3. r \in DOMAIN games /\ s \in DOMAIN games[r].players /\ PlayerOf(x) = games[r].players[s]
  BY <1>2, QualifiedAreGames DEF SeatsOf, PlayerOf
<1>4. /\ CountsAsWin(x) <=> games[r].winnerTeam > 0 /\ games[r].players[s].team = games[r].winnerTeam
      /\ CountsAsLoss(x) <=> games[r].winnerTeam > 0 /\ games[r].players[s].team # games[r].winnerTeam
  BY <1>2, <1>3, CountsByTeam
<1>5. /\ games[r].players[s].isWinner <=> games[r].players[s].result = "win"
      /\ games[r].players[s].isWinner <=> (games[r].winnerTeam > 0 /\ games[r].players[s].team = games[r].winnerTeam)
      /\ games[r].players[s].result = "loss" <=> (games[r].winnerTeam > 0 /\ games[r].players[s].team # games[r].winnerTeam)
  BY <1>3, RowsGiveOutcomes DEF OutcomesAgree, TellsOneStory
<1> QED BY <1>3, <1>4, <1>5

LEMMA PageMatchesRanking ==
  ASSUME RowsAreOutcomes, GamesAreFinite, NEW n, PlaysAlone(n), PlayerRows(n) # {},
         NEW a, NEW opponents, IsAnswer(a, PlayerRows(n), opponents)
  PROVE  LET row == CHOOSE x \in compute3v3Rows(1) : x.key = KeyOf[n]
         IN  <<a.total, a.wins, a.losses, a.draws>> = <<row.games, row.wins, row.losses, row.draws>>
<1> DEFINE k == KeyOf[n]
           row == CHOOSE x \in compute3v3Rows(1) : x.key = k
           Having(res) == {x \in RowsOfKey(k) : PlayerOf(x).result = res}
<1>1. PlayerRows(n) = {PageRow(x) : x \in RowsOfKey(k)}
  BY PageRowsOfAlone
<1>2. k \in RankedKeys
  <2>1. PICK x \in RowsOfKey(k) : TRUE
    BY <1>1
  <2> QED BY <2>1 DEF RowsOfKey, RankedKeys
<1>3. IsFiniteSet(RowsOfKey(k))
  BY <1>2, RowsOfKeyFacts
<1>4. row = RankingRow(k)
  <2>1. compute3v3Rows(1) = {RankingRow(j) : j \in RankedKeys} /\ \A j \in RankedKeys : RankingRow(j).key = j
    BY RankingIsRows, RankingRowFacts
  <2> HIDE DEF k
  <2> QED BY <1>2, <2>1
<1>5. ASSUME NEW res PROVE RowsHaving(PlayerRows(n), res) = {PageRow(x) : x \in Having(res)}
  <2>1. \A x : PageRow(x).result = PlayerOf(x).result
    BY DEF PageRow
  <2> HIDE DEF k
  <2> QED BY <1>1, <2>1 DEF RowsHaving
<1>6. ASSUME NEW res PROVE Cardinality(RowsHaving(PlayerRows(n), res)) = Cardinality(Having(res))
  BY <1>3, <1>5, AloneCounts
<1>7. Cardinality(PlayerRows(n)) = Cardinality(RowsOfKey(k))
  BY <1>1, <1>3, AloneCounts
<1>8. /\ Having("win") = WonRowsOfKey(k)
      /\ Having("loss") = {x \in RowsOfKey(k) : CountsAsLoss(x)}
      /\ Having("draw") = {x \in RowsOfKey(k) : PlayerOf(x).result = "draw"}
  BY ResultCounts DEF WonRowsOfKey, RowsOfKey
<1> HIDE DEF k, Having
<1>9. /\ RankingRow(k).games = Cardinality(PlayerRows(n))
      /\ RankingRow(k).wins = Cardinality(RowsHaving(PlayerRows(n), "win"))
      /\ RankingRow(k).losses = Cardinality(RowsHaving(PlayerRows(n), "loss"))
      /\ RankingRow(k).draws = Cardinality(RowsHaving(PlayerRows(n), "draw"))
  BY <1>6, <1>7, <1>8 DEF RankingRow
<1>10. a.total = row.games /\ a.wins = row.wins /\ a.losses = row.losses /\ a.draws = row.draws
  <2> HIDE DEF row
  <2> QED BY <1>4, <1>9 DEF IsAnswer
<1> QED BY <1>10 DEF k

\* Each row of the page has three opponents.
LEMMA ThreeOpponents ==
  ASSUME RowsAreOutcomes, GamesAreFinite, NEW n, PlaysAlone(n), NEW x \in PlayerRows(n)
  PROVE  Cardinality(OpponentsIn(x)) = 3
<1>1. PICK y \in RowsOfKey(KeyOf[n]) : x = PageRow(y)
  BY PageRowsOfAlone
<1>2. PICK r \in Qualified3v3 : \E s \in SeatsOf(r) : y = [game |-> r, seat |-> s]
  BY RankedRowIs DEF RowsOfKey
<1>3. PICK s \in SeatsOf(r) : y = [game |-> r, seat |-> s]
  BY <1>2
<1>4. /\ r \in DOMAIN games /\ r \in LongGames
      /\ x.game = r /\ x.team = games[r].players[s].team
  BY <1>1, <1>3, QualifiedAreGames, QualifiedAreLong DEF PageRow, PlayerOf
<1> DEFINE mine == {t \in SeatsOf(r) : games[r].players[t].team = x.team}
           others == {t \in SeatsOf(r) : games[r].players[t].team # x.team}
           f == [t \in others |-> [record |-> x, race |-> games[r].players[t].race, result |-> x.result, seat |-> t]]
<1>5. IsFiniteSet(SeatsOf(r)) /\ Cardinality(SeatsOf(r)) = 6
  BY QualifiedSeats
<1>6. Cardinality(mine) = 3
  <2>1. x.team \in Teams(games[r])
    BY <1>3, <1>4 DEF Teams, SeatsOf
  <2>2. TeamSize(games[r], x.team) = 3
    BY <2>1 DEF Qualified3v3
  <2> QED BY <2>2 DEF TeamSize, SeatsOf
<1>7. IsFiniteSet(others) /\ Cardinality(others) = 3
  <2>1. others = SeatsOf(r) \ mine /\ SeatsOf(r) \cap mine = mine /\ others \in SUBSET SeatsOf(r)
    OBVIOUS
  <2> HIDE DEF mine, others
  <2>2. Cardinality(SeatsOf(r) \ mine) = Cardinality(SeatsOf(r)) - Cardinality(SeatsOf(r) \cap mine)
    BY <1>5, FS_Difference
  <2>3. IsFiniteSet(others)
    BY <1>5, <2>1, FS_Subset
  <2> QED BY <1>5, <1>6, <2>1, <2>2, <2>3
<1>8. OpponentsIn(x) = {f[t] : t \in others}
  <2>1. OpponentsIn(x) = {[record |-> x, race |-> PlayerOf(o).race, result |-> x.result, seat |-> o.seat] :
                            o \in {p \in Rows({r}) : PlayerOf(p).team # x.team}}
    BY <1>4 DEF OpponentsIn
  <2>2. Rows({r}) = {[game |-> r, seat |-> t] : t \in SeatsOf(r)}
    BY RowIs DEF SeatsOf
  <2>3. \A t : PlayerOf([game |-> r, seat |-> t]) = games[r].players[t]
    BY DEF PlayerOf
  <2>4. {p \in Rows({r}) : PlayerOf(p).team # x.team} = {[game |-> r, seat |-> t] : t \in others}
    BY <2>2, <2>3
  <2>5. ASSUME NEW t \in others
        PROVE  f[t] = [record |-> x, race |-> PlayerOf([game |-> r, seat |-> t]).race, result |-> x.result,
                       seat |-> [game |-> r, seat |-> t].seat]
    BY <2>3
  <2> DEFINE g(o) == [record |-> x, race |-> PlayerOf(o).race, result |-> x.result, seat |-> o.seat]
             S == {p \in Rows({r}) : PlayerOf(p).team # x.team}
  <2>6. OpponentsIn(x) = {g(o) : o \in S}
    BY <2>1
  <2>7. \A t \in others : f[t] = g([game |-> r, seat |-> t])
    BY <2>5
  <2> HIDE DEF others, f, g, S
  <2>8. {g(o) : o \in S} = {f[t] : t \in others}
    <3>1. S = {[game |-> r, seat |-> t] : t \in others}
      BY <2>4 DEF S
    <3>2. ASSUME NEW o \in S PROVE \E t \in others : g(o) = f[t]
      BY <2>7, <3>1
    <3>3. ASSUME NEW t \in others PROVE \E o \in S : g(o) = f[t]
      BY <2>7, <3>1
    <3> QED BY <3>2, <3>3
  <2> QED BY <2>6, <2>8
<1>9. \A t, u \in others : f[t] = f[u] => t = u
  OBVIOUS
<1> HIDE DEF others, f
<1> QED BY <1>7, <1>8, <1>9, SameSize

LEMMA OpponentTotals ==
  ASSUME RowsAreOutcomes, GamesAreFinite, NEW n, PlaysAlone(n), NEW rows \in SUBSET PlayerRows(n)
  PROVE  Cardinality(OpponentsOf(rows)) = 3 * Cardinality(rows)
<1> DEFINE part == [x \in rows |-> OpponentsIn(x)]
<1>1. IsFiniteSet(rows)
  BY PlayerRowsAreFinite, FS_Subset
<1>2. IsCut(rows, part) /\ Pieces(part, rows) = OpponentsOf(rows)
  BY <1>1, OpponentsAreCut
<1>3. \A x \in rows : Cardinality(part[x]) = 3
  BY ThreeOpponents
<1> HIDE DEF part
<1> QED BY <1>2, <1>3, EqualPieces

LEMMA OpponentsOfWins ==
  ASSUME NEW rows PROVE RowsHaving(OpponentsOf(rows), "win") = OpponentsOf(RowsHaving(rows, "win"))
<1>1. ASSUME NEW x, NEW o \in OpponentsIn(x) PROVE o.result = x.result
  BY DEF OpponentsIn
<1>2. \A some : OpponentsOf(some) = UNION {OpponentsIn(x) : x \in some}
  BY DEF OpponentsOf, OpponentsIn
<1> QED BY <1>1, <1>2 DEF RowsHaving

LEMMA RecordsFromReads ==
  RowsAreOutcomes /\ GamesAreFinite /\ RequestIsRead => RecordsMatchRanking
<1> SUFFICES ASSUME RowsAreOutcomes, GamesAreFinite, RequestIsRead, request # NoRequest, request.done
             PROVE  RecordsMatchRanking
  BY DEF RecordsMatchRanking
<1>1. PICK rows, opponents, n, s : HasAnswered(rows, opponents, n, s)
  BY DEF RequestIsRead, HasRead
<1>2. /\ request.name = n /\ request.same = s
      /\ IsAnswer(request, rows, opponents) /\ IsFiniteSet(rows) /\ IsFiniteSet(opponents)
  BY <1>1 DEF HasAnswered
<1>3. ASSUME request.same, PlaysAlone(n) PROVE rows = PlayerRows(n) /\ rows # {} /\ opponents = OpponentsOf(rows)
  BY <1>1, <1>3 DEF HasAnswered
<1>4. /\ request.total = Cardinality(rows) /\ request.wins = Cardinality(RowsHaving(rows, "win"))
      /\ request.losses = Cardinality(RowsHaving(rows, "loss"))
      /\ request.races = TallyByRace(rows) /\ request.matchups = TallyByRace(opponents)
  BY <1>2 DEF IsAnswer
<1> DEFINE Sum(t, part) == SumFunction([k \in DOMAIN t |-> t[k][part]])
           row == CHOOSE x \in compute3v3Rows(1) : x.key = KeyOf[request.name]
<1>5. ASSUME request.same, PlaysAlone(n)
      PROVE  <<request.total, request.wins, request.losses, request.draws>> = <<row.games, row.wins, row.losses, row.draws>>
  BY <1>2, <1>3, <1>5, PageMatchesRanking
<1>6. /\ Sum(request.races, "total") = request.total
      /\ Sum(request.races, "wins") = request.wins
      /\ Sum(request.races, "losses") = request.losses
  BY <1>2, <1>4, TallyAddsUp
<1>7. ASSUME request.same, PlaysAlone(n)
      PROVE  Sum(request.matchups, "total") = 3 * request.total /\ Sum(request.matchups, "wins") = 3 * request.wins
  <2>1. Sum(request.matchups, "total") = Cardinality(opponents)
    BY <1>2, <1>4, TallyAddsUp
  <2>2. Sum(request.matchups, "wins") = Cardinality(RowsHaving(opponents, "win"))
    BY <1>2, <1>4, TallyAddsUp
  <2>3. Cardinality(opponents) = 3 * Cardinality(rows)
    BY <1>3, <1>7, OpponentTotals
  <2>4. RowsHaving(opponents, "win") = OpponentsOf(RowsHaving(rows, "win"))
    BY <1>3, <1>7, OpponentsOfWins
  <2>5. RowsHaving(rows, "win") \in SUBSET PlayerRows(n)
    BY <1>3, <1>7 DEF RowsHaving
  <2>6. Cardinality(OpponentsOf(RowsHaving(rows, "win"))) = 3 * Cardinality(RowsHaving(rows, "win"))
    BY <1>7, <2>5, OpponentTotals
  <2> HIDE DEF Sum
  <2> QED BY <1>4, <2>1, <2>2, <2>3, <2>4, <2>6
<1>8. \A k \in DOMAIN request.matchups : request.matchups[k].wins + request.matchups[k].losses <= request.matchups[k].total
  BY <1>2, <1>4, TallyBounds
<1>9. PlaysAlone(request.name) <=>
         /\ \A r \in DOMAIN games : \A t \in DOMAIN games[r].players :
              games[r].players[t].name = request.name => r \in Qualified3v3 \/ r \notin LongGames
         /\ \A r \in DOMAIN games : \A t \in DOMAIN games[r].players :
              KeyOf[games[r].players[t].name] = KeyOf[request.name] => games[r].players[t].name = request.name
  BY DEF PlaysAlone
<1>10. PlaysAlone(request.name) <=> PlaysAlone(n)
  BY <1>2
<1> QED BY <1>5, <1>6, <1>7, <1>8, <1>9, <1>10, Zenon DEF RecordsMatchRanking

LEMMA StatisticsFromRows ==
  RowsAreOutcomes /\ GamesAreFinite /\ RequestIsRead => StatisticsAgree
BY CountedOnce, RecordsFromReads DEF StatisticsAgree

\* Whatever is uploaded, deleted, migrated and asked for, between the two reads of a page too:
\* a 3v3 game is in the ranking six times, with three wins and three losses, a matchup adds up
\* to its games, and the page of a player agrees with itself and, undisturbed, with the ranking.
THEOREM StatisticsAlwaysAgree == StatisticsSpec => []StatisticsAgree
BY RowsInitially, RowsStep, FiniteInitially, FiniteStep, ReadInitially, ReadStep, StatisticsFromRows,
   PTL DEF StatisticsSpec
=============================================================================
