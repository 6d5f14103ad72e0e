------------------------------ MODULE SeasonMeta ------------------------------
(***************************************************************************)
(* The season of a game: games.season_label and season_no, the players'    *)
(* is_random_selected, and app_settings.current_season.  Requests of the   *)
(* API and the random-selection backfill write them in separate            *)
(* statements, each a transaction of its own; only the creation of a game  *)
(* writes number and flags together.                                       *)
(*                                                                         *)
(* Names: a label is a value of Labels with the number its digits spell; a *)
(* player is a seat of the game.                                           *)
(***************************************************************************)
EXTENDS Integers, Sequences, FiniteSets

CONSTANTS
  GameIds,          \* ids a game may get; an id is never used twice
  Seats,            \* the players of a game, 1 .. n in the order (team, id)
  Handlers,         \* requests the server works on at a time
  Labels,           \* season labels
  DigitsOf,         \* [Labels -> Nat], the number the digits spell; 0 without digits
  Asks,             \* set of [label, no]: the season a request may name
  CsvRows,          \* [Labels -> Seq([Seats -> BOOLEAN])], the file of the backfill
  OldGames,         \* games from before there were seasons
  None,             \* nil
  MaxSeasonRequests,\* bound: requests received, each file of an upload counted
  MaxSeasonFaults   \* bound: failed statements and server stops

Meta == [label: Labels \cup {None}, no: Int \cup {None}]
NoSeason == [label |-> None, no |-> None]

ASSUME SeasonAssumption ==
  /\ GameIds \subseteq Nat
  /\ OldGames \subseteq GameIds
  /\ DigitsOf \in [Labels -> Nat]
  /\ Asks \subseteq [label: Labels, no: Int \cup {None}]
  /\ CsvRows \in [Labels -> Seq([Seats -> BOOLEAN])]
  /\ None \notin Labels /\ None \notin Int /\ None \notin GameIds /\ None \notin [Seats -> BOOLEAN]
  /\ MaxSeasonRequests \in Nat /\ MaxSeasonFaults \in Nat

VARIABLES
  currentSeason,    \* the row of app_settings, None before it exists
  liveGames,        \* ids with a row in games
  usedIds,          \* ids ever given out
  seasonOf,         \* [GameIds -> Meta]
  randomSelected,   \* [GameIds -> [Seats -> BOOLEAN]]
  phase,            \* [Handlers -> next statement of the request]
  asked,            \* season the request carries (uploadOptions, seasonRequest)
  target,           \* game it writes
  filesLeft,        \* files of an upload that are not processed yet
  rowFound,         \* the row of app_settings was there when the request looked
  labelsLeft,       \* labels the backfill has not read yet
  flagWrites,       \* updates of players it has still to send
  received, seasonFaults,
  agreed,           \* history: games whose last number writes agreed and are complete
  inAgreement,      \* history: requests in "players" whose number no other contradicts
  planned,          \* history: selection the backfill gave a game, None before
  touched           \* history: games with a season write since the backfill read them

seasonData == <<currentSeason, liveGames, usedIds, seasonOf, randomSelected>>
requestData == <<phase, asked, target, filesLeft, rowFound>>
backfillData == <<labelsLeft, flagWrites, planned>>
seasonVars == <<currentSeason, liveGames, usedIds, seasonOf, randomSelected, phase, asked,
                target, filesLeft, rowFound, labelsLeft, flagWrites, received, seasonFaults,
                agreed, inAgreement, planned, touched>>

SeasonPhases == {"free", "find", "store", "options", "file", "game", "edit", "players"}

SeasonInit ==
  /\ currentSeason = None
  /\ liveGames = OldGames
  /\ usedIds = OldGames
  /\ seasonOf = [g \in GameIds |-> NoSeason]
  /\ randomSelected = [g \in GameIds |-> [s \in Seats |-> FALSE]]
  /\ phase = [h \in Handlers |-> "free"]
  /\ asked = [h \in Handlers |-> NoSeason]
  /\ target = [h \in Handlers |-> None]
  /\ filesLeft = [h \in Handlers |-> 0]
  /\ rowFound = [h \in Handlers |-> FALSE]
  /\ labelsLeft = {l \in Labels : CsvRows[l] # <<>> \/ DigitsOf[l] \in {7, 8}}
  /\ flagWrites = {}
  /\ received = 0
  /\ seasonFaults = 0
  /\ agreed = GameIds
  /\ inAgreement = {}
  /\ planned = [g \in GameIds |-> None]
  /\ touched = {}

-----------------------------------------------------------------------------
(* Labels and numbers. *)

inferSeasonNo(l) == IF DigitsOf[l] > 0 THEN DigitsOf[l] ELSE None

\* Mutant: the number is not inferred.
WithoutNumber(a) == a

\* A request that gives no number means the one in its label.
WithNumber(a) == [a EXCEPT !.no = IF @ = None THEN inferSeasonNo(a.label) ELSE @]

isRandomSelectedSeason(no) == no \in {7, 8}

\* The stored request; a number that is not positive is replaced by the inferred one.
getCurrentSeason ==
  IF currentSeason = None THEN NoSeason
  ELSE IF currentSeason.no # None /\ currentSeason.no > 0 THEN currentSeason
  ELSE [currentSeason EXCEPT !.no = inferSeasonNo(currentSeason.label)]

\* Uploads refuse an explicit number that is not positive
ValidForUpload(a) == a.no # None => a.no > 0

-----------------------------------------------------------------------------
(* Requests. *)

Finish(h) ==
  /\ phase' = [phase EXCEPT ![h] = "free"]
  /\ asked' = [asked EXCEPT ![h] = NoSeason]
  /\ target' = [target EXCEPT ![h] = None]
  /\ filesLeft' = [filesLeft EXCEPT ![h] = 0]
  /\ rowFound' = [rowFound EXCEPT ![h] = FALSE]

\* Mutant: the loop runs once more.
NextFileAgain(h) ==
  IF filesLeft[h] >= 0
  THEN /\ phase' = [phase EXCEPT ![h] = "file"]
       /\ target' = [target EXCEPT ![h] = None]
       /\ filesLeft' = [filesLeft EXCEPT ![h] = @ - 1]
       /\ UNCHANGED <<asked, rowFound>>
  ELSE Finish(h)

\* The loop over the files of an upload: one season for all of them.
NextFile(h) ==
  IF filesLeft[h] > 1
  THEN /\ phase' = [phase EXCEPT ![h] = "file"]
       /\ target' = [target EXCEPT ![h] = None]
       /\ filesLeft' = [filesLeft EXCEPT ![h] = @ - 1]
       /\ UNCHANGED <<asked, rowFound>>
  ELSE Finish(h)

Accept(h, p, a, g, n) ==
  /\ phase[h] = "free"
  /\ received' = received + (IF n = 0 THEN 1 ELSE n)
  /\ received' <= MaxSeasonRequests
  /\ phase' = [phase EXCEPT ![h] = p]
  /\ asked' = [asked EXCEPT ![h] = a]
  /\ target' = [target EXCEPT ![h] = g]
  /\ filesLeft' = [filesLeft EXCEPT ![h] = n]
  /\ UNCHANGED <<seasonData, rowFound, backfillData, seasonFaults, agreed, inAgreement, touched>>

AskCurrentSeason(h) == \E a \in Asks : Accept(h, "find", WithNumber(a), None, 0)

AskGameSeason(h) ==
  \E a \in Asks, g \in GameIds : Accept(h, "edit", WithNumber(a), g, 0)

AskUpload(h) ==
  \E n \in 1 .. MaxSeasonRequests :
     \/ Accept(h, "options", NoSeason, None, n)
     \/ \E a \in Asks : ValidForUpload(a) /\ Accept(h, "file", WithNumber(a), None, n)

\* setCurrentSeason looks for the row ...
FindSetting(h) ==
  /\ phase[h] = "find"
  /\ rowFound' = [rowFound EXCEPT ![h] = currentSeason # None]
  /\ phase' = [phase EXCEPT ![h] = "store"]
  /\ UNCHANGED <<seasonData, asked, target, filesLeft, backfillData, received, seasonFaults,
                 agreed, inAgreement, touched>>

\* ... and updates or creates it.  A second creation fails at the unique key.
StoreSetting(h) ==
  /\ phase[h] = "store"
  /\ currentSeason' = IF rowFound[h] \/ currentSeason = None THEN asked[h] ELSE currentSeason
  /\ Finish(h)
  /\ UNCHANGED <<liveGames, usedIds, seasonOf, randomSelected, backfillData, received,
                 seasonFaults, agreed, inAgreement, touched>>

\* An upload without season_label takes the current season, once for all its files.
ReadOptions(h) ==
  /\ phase[h] = "options"
  /\ asked' = [asked EXCEPT ![h] = getCurrentSeason]
  /\ rowFound' = [rowFound EXCEPT ![h] = currentSeason # None]
  /\ phase' = [phase EXCEPT ![h] = "file"]
  /\ UNCHANGED <<seasonData, target, filesLeft, backfillData, received,
                 seasonFaults, agreed, inAgreement, touched>>

\* A file of a new recording: game and players are created in one transaction.
CreateGame(h) ==
  /\ phase[h] = "file"
  /\ \E g \in GameIds \ usedIds :
        /\ liveGames' = liveGames \cup {g}
        /\ usedIds' = usedIds \cup {g}
        /\ seasonOf' = [seasonOf EXCEPT ![g] = asked[h]]
        /\ randomSelected' =
             [randomSelected EXCEPT ![g] = [s \in Seats |-> isRandomSelectedSeason(asked[h].no)]]
  /\ NextFile(h)
  /\ UNCHANGED <<currentSeason, backfillData, received, seasonFaults, agreed, inAgreement,
                 touched>>

\* A file of a recording the archive has: without a season nothing more is written.
FindGame(h) ==
  /\ phase[h] = "file"
  /\ \E g \in liveGames :
        IF asked[h] = NoSeason
        THEN NextFile(h)
        ELSE /\ phase' = [phase EXCEPT ![h] = "game"]
             /\ target' = [target EXCEPT ![h] = g]
             /\ UNCHANGED <<asked, filesLeft, rowFound>>
  /\ UNCHANGED <<seasonData, backfillData, received, seasonFaults, agreed, inAgreement, touched>>

\* A file that is refused (parse error, foreign players, failed upload).
RefuseFile(h) ==
  /\ phase[h] = "file"
  /\ NextFile(h)
  /\ UNCHANGED <<seasonData, backfillData, received, seasonFaults, agreed, inAgreement, touched>>

\* One UPDATE of games: a nil number is not in its SET list.
Stamped(old, a) == [label |-> a.label, no |-> IF a.no = None THEN old.no ELSE a.no]

\* Requests between their two statements on game g, other than h, with another number.
Contradicting(h, g, no) ==
  {i \in Handlers \ {h} : phase[i] = "players" /\ target[i] = g /\ asked[i].no # no}

\* UPDATE games of applySeasonToGame and of SetGameSeason, when the game exists.
StampGame(h, g) ==
  /\ seasonOf' = [seasonOf EXCEPT ![g] = Stamped(@, asked[h])]
  /\ UNCHANGED <<currentSeason, liveGames, usedIds, randomSelected>>
  /\ IF asked[h].no = None
     THEN UNCHANGED <<agreed, inAgreement, touched>>
     ELSE /\ touched' = touched \cup {g}
          /\ agreed' = IF seasonOf[g].no = asked[h].no THEN agreed ELSE agreed \ {g}
          /\ inAgreement' = (inAgreement \ Contradicting(h, g, asked[h].no))
                              \cup (IF Contradicting(h, g, asked[h].no) = {} THEN {h} ELSE {})

ApplySeason(h) ==
  /\ phase[h] = "game"
  /\ IF target[h] \notin liveGames
     THEN NextFile(h) /\ UNCHANGED <<seasonData, agreed, inAgreement, touched>>
     ELSE /\ StampGame(h, target[h])
          /\ IF asked[h].no = None THEN NextFile(h)
             ELSE phase' = [phase EXCEPT ![h] = "players"]
                  /\ UNCHANGED <<asked, target, filesLeft, rowFound>>
  /\ UNCHANGED <<backfillData, received, seasonFaults>>

\* SetGameSeason: 404 when the game does not exist.
EditSeason(h) ==
  /\ phase[h] = "edit"
  /\ IF target[h] \notin liveGames
     THEN Finish(h) /\ UNCHANGED <<seasonData, agreed, inAgreement, touched>>
     ELSE /\ StampGame(h, target[h])
          /\ IF asked[h].no = None THEN Finish(h)
             ELSE phase' = [phase EXCEPT ![h] = "players"]
                  /\ UNCHANGED <<asked, target, filesLeft, rowFound>>
  /\ UNCHANGED <<backfillData, received, seasonFaults>>

\* Mutant: players are updated only when they selected at random.
SelectedOnlyUp(old, no) == IF isRandomSelectedSeason(no) THEN [s \in Seats |-> TRUE] ELSE old

\* SET is_random_selected of all players of a game.
SelectedFor(old, no) == [s \in Seats |-> isRandomSelectedSeason(no)]

\* The second statement; it finds no player when the game was deleted in between.
WritePlayers(h) ==
  /\ phase[h] = "players"
  /\ LET g == target[h] IN
     /\ randomSelected' = IF g \in liveGames
                          THEN [randomSelected EXCEPT ![g] = SelectedFor(@, asked[h].no)]
                          ELSE randomSelected
     /\ agreed' = IF h \in inAgreement THEN agreed \cup {g} ELSE agreed
     /\ touched' = touched \cup {g}
  /\ inAgreement' = inAgreement \ {h}
  /\ NextFile(h)
  /\ UNCHANGED <<currentSeason, liveGames, usedIds, seasonOf, backfillData, received,
                 seasonFaults>>

\* DeleteGame, in one transaction.
RemoveGame ==
  /\ \E g \in liveGames : liveGames' = liveGames \ {g}
  /\ UNCHANGED <<currentSeason, usedIds, seasonOf, randomSelected, requestData, backfillData,
                 received, seasonFaults, agreed, inAgreement, touched>>

\* A statement fails: an error for this file, or for the request.
StatementFails(h) ==
  /\ phase[h] # "free"
  /\ seasonFaults < MaxSeasonFaults
  /\ seasonFaults' = seasonFaults + 1
  /\ IF phase[h] \in {"game", "players"} THEN NextFile(h) ELSE Finish(h)
  /\ inAgreement' = inAgreement \ {h}
  /\ UNCHANGED <<seasonData, backfillData, received, agreed, touched>>

-----------------------------------------------------------------------------
(* The random-selection backfill with -apply. *)

\* IsForcedRandomSeasonLabel; all season labels of the model are of the form it reads.
ForcedRandom(l) == DigitsOf[l] \in {7, 8}

\* The games of a label in the order of their start; ids are given out in that order.
GamesOfLabel(l) == {g \in liveGames : seasonOf[g].label = l}
Position(g, l) == Cardinality({x \in GamesOfLabel(l) : x <= g})

\* Rows and games are matched by position; extra ones are left unchanged.
Matched(l) == {g \in GamesOfLabel(l) : ForcedRandom(l) \/ Position(g, l) <= Len(CsvRows[l])}

SelectionFor(g, l) ==
  IF ForcedRandom(l) THEN [s \in Seats |-> TRUE] ELSE CsvRows[l][Position(g, l)]

FlagWrite == [game: GameIds, seat: Seats, to: BOOLEAN]

\* Mutant: only players that are not selected yet are updated.
WritesUpOnly(g, l) ==
  {w \in FlagWrite : w.game = g /\ w.to = SelectionFor(g, l)[w.seat] /\ w.to
                     /\ ~randomSelected[g][w.seat]}

\* Only players whose flag differs are updated.
WritesFor(g, l) ==
  {w \in FlagWrite : w.game = g /\ w.to = SelectionFor(g, l)[w.seat]
                     /\ w.to # randomSelected[g][w.seat]}

\* One query reads the games of a label with their players.
BackfillRead ==
  /\ flagWrites = {}
  /\ \E l \in labelsLeft :
        /\ labelsLeft' = labelsLeft \ {l}
        /\ flagWrites' = UNION {WritesFor(g, l) : g \in Matched(l)}
        /\ planned' = [g \in GameIds |-> IF g \in Matched(l) THEN SelectionFor(g, l) ELSE planned[g]]
        /\ touched' = touched \ Matched(l)
  /\ UNCHANGED <<seasonData, requestData, received, seasonFaults, agreed, inAgreement>>

Before(v, w) == v.game < w.game \/ (v.game = w.game /\ v.seat < w.seat)

\* Then each player is updated by its id; when it is gone the command ends.
BackfillWrite ==
  /\ \E w \in flagWrites :
        /\ \A v \in flagWrites \ {w} : Before(w, v)
        /\ IF w.game \in liveGames
           THEN /\ randomSelected' = [randomSelected EXCEPT ![w.game][w.seat] = w.to]
                /\ flagWrites' = flagWrites \ {w}
                /\ agreed' = agreed \ {w.game}
                /\ UNCHANGED <<labelsLeft, planned>>
           ELSE /\ labelsLeft' = {}
                /\ flagWrites' = {}
                /\ planned' = [g \in GameIds |-> None]
                /\ UNCHANGED <<randomSelected, agreed>>
  /\ UNCHANGED <<currentSeason, liveGames, usedIds, seasonOf, requestData, received,
                 seasonFaults, inAgreement, touched>>

-----------------------------------------------------------------------------
SeasonNext ==
  \/ \E h \in Handlers :
       \/ AskCurrentSeason(h) \/ AskGameSeason(h) \/ AskUpload(h)
       \/ FindSetting(h) \/ StoreSetting(h) \/ ReadOptions(h)
       \/ CreateGame(h) \/ FindGame(h) \/ RefuseFile(h)
       \/ ApplySeason(h) \/ EditSeason(h) \/ WritePlayers(h)
       \/ StatementFails(h)
  \/ RemoveGame
  \/ BackfillRead \/ BackfillWrite

SeasonSpec == SeasonInit /\ [][SeasonNext]_seasonVars

-----------------------------------------------------------------------------
(* Properties. *)

SeasonTypeOK ==
  /\ currentSeason \in [label: Labels, no: Int \cup {None}] \cup {None}
  /\ liveGames \subseteq usedIds /\ usedIds \subseteq GameIds
  /\ seasonOf \in [GameIds -> Meta]
  /\ randomSelected \in [GameIds -> [Seats -> BOOLEAN]]
  /\ phase \in [Handlers -> SeasonPhases]
  /\ asked \in [Handlers -> Meta]
  /\ \A h \in Handlers : phase[h] \in {"find", "store"} => asked[h].label \in Labels
  /\ target \in [Handlers -> GameIds \cup {None}]
  /\ filesLeft \in [Handlers -> Nat]
  /\ rowFound \in [Handlers -> BOOLEAN]
  /\ labelsLeft \subseteq Labels
  /\ flagWrites \subseteq FlagWrite
  /\ received \in 0 .. MaxSeasonRequests
  /\ seasonFaults \in 0 .. MaxSeasonFaults
  /\ agreed \subseteq GameIds
  /\ inAgreement \subseteq Handlers
  /\ planned \in [GameIds -> [Seats -> BOOLEAN] \cup {None}]
  /\ touched \subseteq GameIds

\* Season writes put the number on the game and is_random_selected on its players in
\* two transactions.  Whatever uploads and edits run at the same time, fail halfway or
\* follow one another: once a write of a number has completed that no concurrent write
\* contradicted, the players' flags are those of the number (and stay so until another
\* number is written or the backfill sets them by hand).
SelectionFollowsNumber ==
  \A g \in liveGames \cap agreed : seasonOf[g].no # None =>
     \A s \in Seats : randomSelected[g][s] = isRandomSelectedSeason(seasonOf[g].no)

\* When clients give no number that contradicts the digits of its label, a game with
\* such a label has its number, whichever way it came by the season: upload, default
\* season, edit, overlapping requests.  (A label without digits keeps the old number.)
HonestAsks ==
  \A a \in Asks : DigitsOf[a.label] > 0 => a.no = None \/ a.no = DigitsOf[a.label]

Fits(m) == m.label # None /\ DigitsOf[m.label] > 0 => m.no = DigitsOf[m.label]

NumberFitsLabel == HonestAsks => \A g \in GameIds : Fits(seasonOf[g])

\* ... because the season every request carries has its number, and the stored one.
SeasonsFit ==
  HonestAsks => /\ \A g \in GameIds : Fits(seasonOf[g])
                /\ \A h \in Handlers : Fits(asked[h])
                /\ currentSeason # None => Fits(currentSeason)

\* The backfill compares with flags it has read earlier and writes player by player.
\* A matched game that got no season in the meantime ends with the selection planned for
\* it, also when the season of other games changes or requests run between its updates.
BackfillTakesEffect ==
  \A g \in liveGames \ touched : planned[g] # None =>
     \A s \in Seats : \/ randomSelected[g][s] = planned[g][s]
                      \/ \E w \in flagWrites : w.game = g /\ w.seat = s

\* What requests between their two statements rely on.
PendingAgree ==
  /\ \A h \in Handlers : phase[h] = "players" =>
       /\ asked[h].no # None
       /\ target[h] \in usedIds
       /\ target[h] \in agreed => asked[h].no = seasonOf[target[h]].no
  /\ \A h \in inAgreement :
       /\ phase[h] = "players"
       /\ seasonOf[target[h]].no = asked[h].no
       /\ \A i \in Handlers : phase[i] = "players" /\ target[i] = target[h]
                                => asked[i].no = asked[h].no

\* What the backfill has still to write belongs to its plan, made for known games.
PlanKnown ==
  /\ \A g \in GameIds : planned[g] # None => g \in usedIds
  /\ \A w \in flagWrites : planned[w.game] # None /\ w.to = planned[w.game][w.seat]

\* The inductive invariant.
SeasonInv ==
  /\ SeasonsFit
  /\ SelectionFollowsNumber
  /\ PendingAgree
  /\ BackfillTakesEffect
  /\ PlanKnown

\* README: uploading a known replay again keeps the game and updates upload_count only.  An
\* upload that names no season, served while a season is current, should so leave a game
\* that has a season in it.
KnownReplayOnlyCounts ==
  [][\A h \in Handlers :
        LET g == target[h]
        IN  phase[h] = "game" /\ rowFound[h] /\ g \in liveGames /\ seasonOf[g] # NoSeason =>
              seasonOf'[g] = seasonOf[g]]_seasonVars
=============================================================================
