----------------------------- MODULE SeasonImport -----------------------------
(***************************************************************************)
(* cmd/season-import: it matches the games of a season sheet with the      *)
(* recordings of a directory, lists what the archive has, and uploads each *)
(* matched recording, or only sets the season of its game.                 *)
(*                                                                         *)
(* The archive is changed by single requests here (ReplayIngest and        *)
(* SeasonMeta have their statements); other clients send requests, too,    *)
(* any request may fail, and a failed one may have been served.            *)
(***************************************************************************)
EXTENDS Integers, Sequences, FiniteSets, FiniteSetsExt, SequencesExt

CONSTANTS
  ImportRuns,        \* [sheet, execute, skipExisting, fallback]: sheets and flags of the command
  Autosaves,         \* recordings: [path, hash, game, start, map, winners, losers, auto]
  DayNumber(_, _, _),\* the number of a day, from year, month and day
  NoDate, UnknownDate,
  ListLimit,         \* games on a page
  Stored,            \* games the archive may have at first
  Others,            \* uploads of other clients, with the season they bring: [file, by, season]
  MaxOthers, MaxImportFaults, MaxImports   \* bounds

\* A sheet is a sequence of rows, and a cell with a date names a day of every year.
ASSUME SheetsAssumption ==
  \A r \in ImportRuns :
     /\ r.sheet \in Seq(Range(r.sheet))
     /\ \A row \in Range(r.sheet) : row.kind \in {"season", "teams", "game"}
     /\ \A row \in Range(r.sheet) :
          row.kind # "season" /\ row.date \notin {NoDate, UnknownDate} =>
            \A year \in {row.date.year, 2025, 2026} : DayNumber(year, row.date.month, row.date.day) \in Int

\* A hash names one recording of one game, and the starts of games can be compared.
ASSUME AutosavesAssumption ==
  /\ IsFiniteSet(Autosaves)
  /\ \A c \in Autosaves : c.start \in Int
  /\ \A c, d \in Autosaves : c.hash = d.hash => c.game = d.game

\* The games of the archive are games of the recordings, numbered from 1; a file of a game
\* is a recording of that game.
ASSUME StoredAssumption ==
  /\ IsFiniteSet(DOMAIN Stored) /\ DOMAIN Stored = 1 .. Cardinality(DOMAIN Stored)
  /\ \A i \in DOMAIN Stored :
        /\ DOMAIN Stored[i] = {"game", "files", "season"}
        /\ \E c \in Autosaves : c.game = Stored[i].game
        /\ \A f \in Stored[i].files, c \in Autosaves : c.hash = f.hash => c.game = Stored[i].game

ASSUME OthersAssumption == \A o \in Others : o.file \in Autosaves

ASSUME ListLimitAssumption == ListLimit \in Nat \ {0}

VARIABLES
  command,           \* the element of ImportRuns
  importStep,        \* what the command does next
  expectedAt,        \* next row to match, or next matched row to send
  matched,           \* [row, file] in the order of the sheet
  listing,           \* the answers of the listing: offset, ids on the page, tries
  existing,          \* [hashes -> game ids], 0 when only the hash is known
  sentRows,           \* what became of the matched rows
  archive,           \* [game ids -> [game, files, season]]
  nextId, others, importFaults, imports,
  knownBefore,       \* history: hashes of the archive before it was listed
  lostGame,          \* history: a game was deleted since
  changedRows        \* history: rows whose game another client wrote since they were sent

importVars == <<command, importStep, expectedAt, matched, listing, existing, sentRows,
                archive, nextId, others, importFaults, imports, knownBefore, lostGame, changedRows>>
serverVars == <<archive, nextId, others, lostGame, changedRows>>

-----------------------------------------------------------------------------
(* The sheet. *)

\* Without a year: the first two seasons began in 2025.
normalizeDate(cell, no) ==
  IF cell \in {NoDate, UnknownDate} THEN NoDate
  ELSE IF cell.year # 0 THEN DayNumber(cell.year, cell.month, cell.day)
  ELSE DayNumber(IF no <= 2 /\ cell.month >= 11 THEN 2025 ELSE 2026, cell.month, cell.day)

\* The players of a side with their races.
Side(names, races) == {<<names[i], races[i]>> : i \in DOMAIN names}

\* What has been read: the season, the teams and the date that hold for the next rows.
NothingRead == [season |-> "", no |-> 0, date |-> NoDate, a |-> <<>>, b |-> <<>>, games |-> <<>>]

GameOf(read, row) ==
  LET date == IF row.date = UnknownDate THEN NoDate
              ELSE IF normalizeDate(row.date, read.no) # NoDate THEN normalizeDate(row.date, read.no)
              ELSE read.date
      a == Side(read.a, row.a)
      b == Side(read.b, row.b)
  IN  [season |-> read.season, no |-> read.no, date |-> date,
       winners |-> IF row.winner = "A" THEN a ELSE b,
       losers  |-> IF row.winner = "A" THEN b ELSE a]

ReadRow(read, row) ==
  LET date(r) == IF normalizeDate(r.date, read.no) # NoDate THEN normalizeDate(r.date, read.no) ELSE read.date
  IN  CASE row.kind = "season" -> [read EXCEPT !.season = row.label, !.no = row.no, !.date = NoDate]
        [] row.kind = "teams"  -> [read EXCEPT !.a = row.a, !.b = row.b, !.date = date(row)]
        [] row.kind = "game"   ->
             [read EXCEPT !.date = date(row),
                          !.games = IF read.season = "" \/ read.a = <<>> THEN @ ELSE Append(@, GameOf(read, row))]

parseSeasonCSV(sheet) ==
  LET Read[i \in 0 .. Len(sheet)] == IF i = 0 THEN NothingRead ELSE ReadRow(Read[i - 1], sheet[i])
  IN  Read[Len(sheet)].games

\* The dates before and after an undated game, in its season.
DatedIn(games, i, J) ==
  {j \in J : games[j].date # NoDate /\ \A k \in (i .. j) \cup (j .. i) : games[k].season = games[i].season}

attachDateHints(games) ==
  [i \in DOMAIN games |->
     LET earlier == IF games[i].date = NoDate THEN DatedIn(games, i, 1 .. i - 1) ELSE {}
         later == IF games[i].date = NoDate THEN DatedIn(games, i, i + 1 .. Len(games)) ELSE {}
     IN  [game |-> games[i],
          previous |-> IF earlier = {} THEN NoDate ELSE games[Max(earlier)].date,
          next     |-> IF later = {} THEN NoDate ELSE games[Min(later)].date]]

ExpectedOf(sheet) == attachDateHints(parseSeasonCSV(sheet))

-----------------------------------------------------------------------------
(* The directory. *)

InClan(name) == name \in {"3x3_a", "3x3_b", "3x3_c", "3x3_d", "3x3_e", "3x3_f"}

NamesOn(side) == {p[1] : p \in side}

scanReplays ==
  {c \in Autosaves : /\ Cardinality(c.winners) = 3 /\ Cardinality(c.losers) = 3
                     /\ \A n \in NamesOn(c.winners) \cup NamesOn(c.losers) : InClan(n)}

DayOf(c) == c.start \div (24 * 60)

Distance(a, b) == IF a < b THEN b - a ELSE a - b

candidateWithinDateHints(exp, c) ==
  /\ exp.previous # NoDate => DayOf(c) >= exp.previous - 1
  /\ exp.next # NoDate => DayOf(c) <= exp.next + 1

\* A game that began before midnight may be on the sheet of the next day, or the reverse.
WithinDate(exp, c) ==
  IF exp.game.date # NoDate THEN Distance(DayOf(c), exp.game.date) <= 1 ELSE candidateWithinDateHints(exp, c)

SameSignature(exp, c) == c.winners = exp.game.winners /\ c.losers = exp.game.losers

SamePlayers(exp, c) ==
  NamesOn(c.winners) = NamesOn(exp.game.winners) /\ NamesOn(c.losers) = NamesOn(exp.game.losers)

matchingCandidates(exp, used) ==
  {c \in scanReplays \ used : SameSignature(exp, c) /\ WithinDate(exp, c)}

playerCandidates(exp, used) ==
  {c \in scanReplays \ used : SamePlayers(exp, c) /\ WithinDate(exp, c)}

raceMismatchCount(exp, c) ==
  Cardinality((exp.game.winners \cup exp.game.losers) \ (c.winners \cup c.losers))

candidateScore(exp, c) ==
  LET near(minutes) == {o \in scanReplays \ {c} : Distance(o.start, c.start) <= minutes}
  IN  100 - 12 * raceMismatchCount(exp, c)
      - (IF exp.game.date # NoDate THEN 4 * Distance(DayOf(c), exp.game.date) ELSE 0)
      + (IF c.map # "" /\ \E o \in near(180) : o.map = c.map THEN 8 ELSE 0)
      + (IF near(90) # {} THEN 6 ELSE 0)

\* Mutant: the latest one.
LatestOf(cs) == {c \in cs : \A d \in cs : c.start >= d.start}

EarliestOf(cs) == {c \in cs : \A d \in cs : c.start <= d.start}

\* The highest score, then the fewest races that differ, then the earliest.
BestOf(exp, cs) ==
  LET score == Max({candidateScore(exp, c) : c \in cs})
      high == {c \in cs : candidateScore(exp, c) = score}
      races == Min({raceMismatchCount(exp, c) : c \in high})
  IN  EarliestOf({c \in high : raceMismatchCount(exp, c) = races})

FilesFor(exp, used, fallback) ==
  LET exact == matchingCandidates(exp, used)
      byPlayers == IF fallback THEN playerCandidates(exp, used) ELSE {}
  IN  IF exact # {} THEN EarliestOf(exact) ELSE IF byPlayers # {} THEN BestOf(exp, byPlayers) ELSE {}

Expected == ExpectedOf(command.sheet)

Used == {matched[i].file : i \in DOMAIN matched}

\* Files with one start time are in no particular order.
MatchRow ==
  /\ importStep = "match" /\ expectedAt <= Len(Expected)
  /\ LET choices == FilesFor(Expected[expectedAt], Used, command.fallback)
     IN  IF choices = {} THEN UNCHANGED matched
         ELSE \E c \in choices : matched' = Append(matched, [row |-> expectedAt, file |-> c])
  /\ expectedAt' = expectedAt + 1
  /\ UNCHANGED <<command, importStep, listing, existing, sentRows, serverVars, importFaults, imports, knownBefore>>

-----------------------------------------------------------------------------
(* The archive. *)

HashesOf(g) == {f.hash : f \in archive[g].files}

Hashes == UNION {HashesOf(g) : g \in DOMAIN archive}

\* The game of a file: by its hash, or by host and start; a new one otherwise.
GameFor(c) ==
  LET known == {g \in DOMAIN archive : c.hash \in HashesOf(g)}
      same == {g \in DOMAIN archive : archive[g].game = c.game}
  IN  IF known # {} THEN known ELSE IF same # {} THEN same ELSE {nextId}

\* A user has one file on a game.
WithFile(files, c, by) == IF \E f \in files : f.by = by THEN files ELSE files \cup {[hash |-> c.hash, by |-> by]}

Serve(c, by, season) ==
  \E g \in GameFor(c) :
     LET old == IF g \in DOMAIN archive THEN archive[g] ELSE [game |-> c.game, files |-> {}, season |-> <<>>]
         new == [old EXCEPT !.files = WithFile(@, c, by), !.season = IF season = <<>> THEN @ ELSE season]
     IN  /\ archive' = [x \in DOMAIN archive \cup {g} |-> IF x = g THEN new ELSE archive[x]]
         /\ nextId' = IF g = nextId THEN nextId + 1 ELSE nextId

SeasonOf(exp) == <<exp.game.season, exp.game.no>>

\* Mutant: the season is set only on a game without one.
SetsSeasonOnce(g, season) ==
  archive' = [archive EXCEPT ![g].season = IF @ = <<>> THEN season ELSE @]

SetsSeason(g, season) == archive' = [archive EXCEPT ![g].season = season]

\* Another client writes the game of the recordings of game.
OthersWrite(game) ==
  /\ others < MaxOthers
  /\ others' = others + 1
  /\ changedRows' = changedRows \cup {k \in DOMAIN sentRows : matched[k].file.game = game}
  /\ UNCHANGED <<command, importStep, expectedAt, matched, listing, existing, sentRows, importFaults, imports,
                 knownBefore>>

\* An upload brings the season it names, or else the one that is current on the server; a
\* game that is known already is moved to it, too.
OthersUpload ==
  \E o \in Others :
     /\ Serve(o.file, o.by, o.season)
     /\ OthersWrite(o.file.game)
     /\ UNCHANGED lostGame

\* PUT /games/:id/season
OthersSetSeason ==
  \E g \in DOMAIN archive, o \in Others :
     /\ o.season # <<>>
     /\ SetsSeason(g, o.season)
     /\ OthersWrite(archive[g].game)
     /\ UNCHANGED <<nextId, lostGame>>

OthersDelete ==
  \E g \in DOMAIN archive :
     /\ archive' = [x \in DOMAIN archive \ {g} |-> archive[x]]
     /\ OthersWrite(archive[g].game)
     /\ lostGame' = TRUE
     /\ UNCHANGED nextId

-----------------------------------------------------------------------------
(* What the archive has already. *)

Tries == 4

NoListing == [offset |-> 0, total |-> 1, ids |-> {}, tries |-> 0]

\* Without -execute the command only reports the matches.
StartListing ==
  /\ importStep = "match" /\ expectedAt > Len(Expected)
  /\ importStep' = IF ~command.execute THEN "done" ELSE IF command.skipExisting THEN "hashes" ELSE "send"
  /\ expectedAt' = 1
  /\ knownBefore' = Hashes
  /\ lostGame' = FALSE
  /\ UNCHANGED <<command, matched, listing, existing, sentRows, archive, nextId, others, importFaults, imports, changedRows>>

StartSending(found) ==
  /\ existing' = found
  /\ importStep' = "send"
  /\ listing' = NoListing

\* An older server names hashes only.
FastListing ==
  /\ importStep = "hashes"
  /\ \/ StartSending([h \in Hashes |-> CHOOSE g \in DOMAIN archive : h \in HashesOf(g)])
     \/ StartSending([h \in Hashes |-> 0])
  /\ UNCHANGED <<command, expectedAt, matched, sentRows, serverVars, importFaults, imports, knownBefore>>

\* fetchJSONWithRetry: at the fourth failure the hashes are read from the games instead;
\* a failure there ends the command.
AfterFailure ==
  IF listing.tries + 1 < Tries
  THEN listing' = [listing EXCEPT !.tries = @ + 1] /\ UNCHANGED importStep
  ELSE listing' = NoListing /\ importStep' = IF importStep = "hashes" THEN "page" ELSE "panic"

ListingFails ==
  /\ importStep \in {"hashes", "page", "game"}
  /\ importFaults < MaxImportFaults
  /\ importFaults' = importFaults + 1
  /\ AfterFailure
  /\ UNCHANGED <<command, expectedAt, matched, existing, sentRows, serverVars, imports, knownBefore>>

\* ListGames: the latest games first; two games of the model do not start together.
StartOf(g) == (CHOOSE c \in Autosaves : c.game = archive[g].game).start

Rank(g) == Cardinality({h \in DOMAIN archive : StartOf(h) > StartOf(g)})

GamesPage(offset) == {g \in DOMAIN archive : Rank(g) \in offset .. offset + ListLimit - 1}

\* ListGames reads the page ...
ReadPage ==
  /\ importStep = "page"
  /\ listing' = [listing EXCEPT !.ids = GamesPage(listing.offset)]
  /\ importStep' = "count"
  /\ UNCHANGED <<command, expectedAt, matched, existing, sentRows, serverVars, importFaults, imports, knownBefore>>

\* ... and counts the games in another statement.
CountGames ==
  /\ importStep = "count"
  /\ listing' = [listing EXCEPT !.total = Cardinality(DOMAIN archive), !.tries = 0]
  /\ importStep' = "game"
  /\ UNCHANGED <<command, expectedAt, matched, existing, sentRows, serverVars, importFaults, imports, knownBefore>>

\* The files of each game on the page; a game that is gone is an error, four times.
ReadGame ==
  /\ importStep = "game" /\ listing.ids # {}
  /\ LET g == Max(listing.ids)
     IN  IF g \in DOMAIN archive
         THEN /\ existing' = [h \in DOMAIN existing \cup HashesOf(g) |-> IF h \in HashesOf(g) THEN g ELSE existing[h]]
              /\ listing' = [listing EXCEPT !.ids = @ \ {g}, !.tries = 0]
              /\ UNCHANGED importStep
         ELSE AfterFailure /\ UNCHANGED existing
  /\ UNCHANGED <<command, expectedAt, matched, sentRows, serverVars, importFaults, imports, knownBefore>>

NextPage ==
  /\ importStep = "game" /\ listing.ids = {}
  /\ LET offset == listing.offset + ListLimit
     IN  IF offset < listing.total
         THEN importStep' = "page" /\ listing' = [listing EXCEPT !.offset = offset] /\ UNCHANGED existing
         ELSE StartSending(existing)
  /\ UNCHANGED <<command, expectedAt, matched, sentRows, serverVars, importFaults, imports, knownBefore>>

-----------------------------------------------------------------------------
(* The requests for the matched rows. *)

Current == matched[expectedAt]

Sending == importStep = "send" /\ expectedAt <= Len(matched)

Known == Current.file.hash \in DOMAIN existing

Conclude(result) ==
  /\ sentRows' = Append(sentRows, result)
  /\ expectedAt' = expectedAt + 1
  /\ UNCHANGED <<command, importStep, matched, listing, existing, imports, knownBefore, others, lostGame, changedRows>>

\* PUT /games/:id/season
updateGameSeason ==
  /\ Sending /\ Known /\ existing[Current.file.hash] > 0
  /\ LET g == existing[Current.file.hash]
     IN  IF g \in DOMAIN archive
         THEN /\ SetsSeason(g, SeasonOf(Expected[Current.row]))
              /\ \/ importFaults' = importFaults /\ Conclude("updated")
                 \/ importFaults < MaxImportFaults /\ importFaults' = importFaults + 1 /\ Conclude("failed")
         ELSE UNCHANGED <<archive, importFaults>> /\ Conclude("failed")
  /\ UNCHANGED nextId

SkipKnown ==
  /\ Sending /\ Known /\ existing[Current.file.hash] = 0
  /\ Conclude("skipped")
  /\ UNCHANGED <<archive, nextId, importFaults>>

\* POST /games/upload; season_no must be positive there.  A client that stops waiting
\* after 90 seconds does not know what became of it.
uploadReplay ==
  /\ Sending /\ ~Known
  /\ IF Expected[Current.row].game.no > 0
     THEN /\ Serve(Current.file, Current.file.auto, SeasonOf(Expected[Current.row]))
          /\ \/ importFaults' = importFaults /\ Conclude("uploaded")
             \/ importFaults < MaxImportFaults /\ importFaults' = importFaults + 1 /\ Conclude("failed")
     ELSE UNCHANGED <<archive, nextId, importFaults>> /\ Conclude("failed")

RequestFails ==
  /\ Sending /\ (Known => existing[Current.file.hash] > 0)
  /\ importFaults < MaxImportFaults
  /\ importFaults' = importFaults + 1
  /\ Conclude("failed")
  /\ UNCHANGED <<archive, nextId>>

Report ==
  /\ importStep = "send" /\ expectedAt > Len(matched)
  /\ importStep' = "done"
  /\ UNCHANGED <<command, expectedAt, matched, listing, existing, sentRows, serverVars, importFaults, imports,
                 knownBefore>>

\* The command is run again: the same sheet and directory, and the same matches.
RunAgain ==
  /\ importStep \in {"done", "panic"} /\ command.execute
  /\ imports < MaxImports
  /\ imports' = imports + 1
  /\ importStep' = IF command.skipExisting THEN "hashes" ELSE "send"
  /\ expectedAt' = 1
  /\ existing' = <<>>
  /\ sentRows' = <<>>
  /\ listing' = NoListing
  /\ knownBefore' = Hashes
  /\ lostGame' = FALSE
  /\ changedRows' = {}
  /\ UNCHANGED <<command, matched, archive, nextId, others, importFaults>>

ImportInit ==
  /\ command \in ImportRuns
  /\ importStep = "match" /\ expectedAt = 1
  /\ matched = <<>> /\ sentRows = <<>> /\ existing = <<>>
  /\ listing = NoListing
  /\ archive = (IF command.execute THEN Stored ELSE <<>>)
  /\ nextId = 1 + Cardinality(DOMAIN archive)
  /\ others = 0 /\ importFaults = 0 /\ imports = 1
  /\ knownBefore = {} /\ lostGame = FALSE /\ changedRows = {}

ImportNext ==
  \/ MatchRow
  \/ StartListing \/ FastListing \/ ListingFails
  \/ ReadPage \/ CountGames \/ ReadGame \/ NextPage
  \/ updateGameSeason \/ SkipKnown \/ uploadReplay \/ RequestFails
  \/ Report \/ RunAgain
  \/ importStep \in {"hashes", "page", "count", "game", "send"} /\ (OthersUpload \/ OthersSetSeason \/ OthersDelete)

ImportSpec == ImportInit /\ [][ImportNext]_importVars

-----------------------------------------------------------------------------
(* Properties. *)

\* Rows take the earliest file that fits, one after the other, and never give it back.  Of a
\* sheet of one season in the order of its dates no other choice matches more rows, also
\* when some rows have no date and are only bounded by their neighbours.
InOrder ==
  LET dated == {i \in DOMAIN Expected : Expected[i].game.date # NoDate}
  IN  /\ \A i, j \in DOMAIN Expected : Expected[i].game.season = Expected[j].game.season
      /\ \A i, j \in dated : i <= j => Expected[i].game.date <= Expected[j].game.date

MostRowsMatched ==
  importStep # "match" /\ imports = 1 /\ ~command.fallback /\ InOrder =>
    ~\E R \in SUBSET DOMAIN Expected :
        /\ Cardinality(R) > Len(matched)
        /\ \E f \in [R -> scanReplays] :
             /\ \A r \in R : f[r] \in matchingCandidates(Expected[r], {})
             /\ \A r, s \in R : f[r] = f[s] => r = s

\* However the hashes were listed, and whatever was uploaded meanwhile: unless a game was
\* deleted, no file is missed that was there before.
ListingMissesNothing ==
  importStep = "send" /\ command.skipExisting /\ ~lostGame => knownBefore \subseteq DOMAIN existing

\* A row reported as uploaded or updated has its game in the archive, with a file of its
\* player and with its season, whatever season the game had and whatever others did before;
\* unless another row names the same game, or another client has since deleted it, set its
\* season or uploaded a recording of it (which moves it to the season current then).
RowsAreImported ==
  \A k \in DOMAIN sentRows \ changedRows :
     LET c == matched[k].file
         Stands == \A j \in DOMAIN matched \ {k} : matched[j].file.game # c.game
     IN  sentRows[k] \in {"uploaded", "updated"} /\ Stands =>
           \E g \in DOMAIN archive :
              /\ archive[g].game = c.game
              /\ archive[g].season = SeasonOf(Expected[matched[k].row])
              /\ \E f \in archive[g].files : f.by = c.auto \/ f.hash = c.hash

\* Both together: what was listed is not uploaded again, what was sent has its season.
ImportTakesEffect == ListingMissesNothing /\ RowsAreImported
=============================================================================
