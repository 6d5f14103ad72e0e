----------------------------- MODULE ClientProofs -----------------------------
(***************************************************************************)
(* Proofs about the two clients of the API, which act on what they have    *)
(* read before: the connector on its cache (McpCache), for any connectors, *)
(* requests, seasons and time to live, and the season import on its        *)
(* listing and its matching (SeasonImport), for any sheets, recordings,    *)
(* archive, other clients and bounds.  The lemmas on finite sets are those *)
(* of StatisticsProofs.                                                    *)
(***************************************************************************)
EXTENDS McpCache, SeasonImport, StatisticsProofs, SequenceTheorems

-----------------------------------------------------------------------------
(* The cache of the connector. *)

McpInv == McpTypeOK /\ LoadsInOrder /\ StampsAreEarly /\ McpAnswersAreFresh

\* The payload is younger than the time to live and half a second.
Young(start, payload) == 2 * start < 2 * payload + (2 * TtlSeconds + 1) * TicksPerSecond

LEMMA QuotientBounds ==
  ASSUME NEW a \in Int, NEW b \in Nat \ {0}, NEW q \in Int, a \div b <= q PROVE a < b * (q + 1)
<1>0. b \in Int /\ b > 0 /\ a \div b \in Int
  BY DivisionIsInt
<1>1. a % b \in 0 .. b - 1 /\ a = b * (a \div b) + (a % b)
  BY <1>0
<1>2. \A m, n \in Int : m <= n => b * m <= b * n
  OBVIOUS
<1>3. b * (a \div b) <= b * q /\ b * (q + 1) = b * q + b
  BY <1>0, <1>2
<1>4. a % b < b /\ a % b \in Int /\ b * (a \div b) \in Int /\ b * q \in Int
  BY <1>0, <1>1
<1> QED BY <1>1, <1>3, <1>4

\* A record whose rounded age is within the time to live is young, also by its payload.
LEMMA YoungEnough ==
  ASSUME NEW file \in CacheFiles, NEW start \in Nat,
         file.generatedAt <= file.payload, AgeSeconds(file, start) <= TtlSeconds
  PROVE  Young(start, file.payload)
<1>1. /\ TtlSeconds \in Nat /\ TicksPerSecond \in Nat \ {0}
      /\ file.generatedAt \in Nat /\ file.payload \in Nat
  BY McpAssumption DEF CacheFiles
<1> DEFINE slack == (2 * TtlSeconds + 1) * TicksPerSecond
<1>2. slack \in Nat \ {0}
  <2>1. \A m, n \in Nat \ {0} : m * n \in Nat \ {0}
    OBVIOUS
  <2>2. 2 * TtlSeconds + 1 \in Nat \ {0}
    BY <1>1
  <2> QED BY <1>1, <2>1, <2>2
<1>3. CASE start < file.generatedAt
  <2> HIDE DEF slack
  <2>1. 2 * start < 2 * file.payload + slack
    BY <1>1, <1>2, <1>3
  <2> QED BY <2>1 DEF slack, Young
<1>4. CASE ~(start < file.generatedAt)
  <2> DEFINE age == start - file.generatedAt
             a == 2 * age + TicksPerSecond
             b == 2 * TicksPerSecond
  <2>1. a \div b <= TtlSeconds
    BY <1>4 DEF AgeSeconds, RoundedSeconds
  <2>2. age \in Nat /\ a \in Int /\ b \in Nat \ {0}
    BY <1>1, <1>4
  <2> HIDE DEF a, b
  <2>3. a < b * (TtlSeconds + 1)
    <3>1. TtlSeconds \in Int
      BY <1>1
    <3>2. b \in Nat \ {0} /\ a \in Int
      BY <2>2
    <3> HIDE DEF age
    <3> QED BY <2>1, <3>1, <3>2, QuotientBounds
  <2>4. b * (TtlSeconds + 1) = slack + TicksPerSecond
    BY <1>1 DEF b
  <2> HIDE DEF slack
  <2>5. 2 * age < slack
    BY <1>1, <1>2, <2>2, <2>3, <2>4 DEF a
  <2>6. 2 * start < 2 * file.payload + slack
    BY <1>1, <1>2, <1>4, <2>5
  <2> QED BY <2>6 DEF slack, Young
<1> QED BY <1>3, <1>4

\* The line of a load, and what is left after it.
LEMMA LineFacts ==
  ASSUME McpTypeOK, NEW c \in Connectors, connector[c].lines # <<>>
  PROVE  /\ Line(c) \in McpLines
         /\ Tail(connector[c].lines) \in Seq(McpLines)
         /\ SeasonAsked(Line(c)) \in McpSeasons
         /\ ForceRefresh(Line(c)) \in BOOLEAN
<1>1. connector[c].lines \in Seq(McpLines)
  BY DEF McpTypeOK, ChunkLoops
<1>2. Line(c) \in McpLines /\ Tail(connector[c].lines) \in Seq(McpLines)
  BY <1>1 DEF Line
<1>3. SeasonAsked(Line(c)) \in McpSeasons
  BY <1>2, McpAssumption DEF McpLines, SeasonAsked
<1>4. Line(c).forced \in BOOLEAN
  BY <1>2 DEF McpLines
<1>5. ForceRefresh(Line(c)) \in BOOLEAN
  BY <1>4, Zenon DEF ForceRefresh
<1> QED BY <1>2, <1>3, <1>5

\* A reply ends the load and leaves the others alone.
LEMMA ReplyKeeps ==
  ASSUME McpInv, NEW c \in Connectors, connector[c].lines # <<>>, UNCHANGED mcpTime,
         NEW status \in {"hit", "refresh", "stale", "error"}, NEW payload \in Nat,
         Reply(c, status, payload),
         status = "hit" => /\ ~ForceRefresh(Line(c))
                           /\ Young(connector[c].start, payload),
         status = "refresh" => connector[c].start <= payload
  PROVE  connector' \in [Connectors -> ChunkLoops] /\ mcpAnswer' \in McpReplies
         /\ LoadsInOrder' /\ McpAnswersAreFresh'
<1> USE DEF McpInv
<1> DEFINE idle == Resting(Tail(connector[c].lines))
<1>1. idle \in ChunkLoops
  BY LineFacts DEF Resting, Emptied, Contents, CacheFiles, ChunkLoops
<1>2. connector' = [connector EXCEPT ![c] = idle] /\ connector \in [Connectors -> ChunkLoops]
  BY DEF Reply, McpTypeOK
<1>3. connector' \in [Connectors -> ChunkLoops]
  BY <1>1, <1>2
<1>4. idle.step = "idle"
  BY DEF Resting
<1>5. LoadsInOrder'
  BY <1>2, <1>4 DEF LoadsInOrder
<1>6. mcpAnswer' = [status |-> status, start |-> connector[c].start, payload |-> payload,
                    forced |-> ForceRefresh(Line(c))]
  BY DEF Reply, McpReply
<1>7. connector[c].start \in Nat /\ ForceRefresh(Line(c)) \in BOOLEAN
  BY LineFacts DEF McpTypeOK, ChunkLoops
<1>8. mcpAnswer' \in McpReplies
  BY <1>6, <1>7 DEF McpReplies
<1>9. McpAnswersAreFresh'
  BY <1>6 DEF McpAnswersAreFresh, Young
<1> QED BY <1>3, <1>5, <1>8, <1>9

\* A loop that moves on within its line, or takes a new one, disturbs no other loop.
LEMMA MoveKeeps ==
  ASSUME McpInv, NEW c \in Connectors, NEW load \in ChunkLoops,
         connector' = [connector EXCEPT ![c] = load],
         UNCHANGED mcpTime,
         load.step \in {"reading", "fetching", "opening", "writing"} => load.lines # <<>> /\ load.start <= mcpTime,
         load.step \in {"opening", "writing"} => load.start <= load.payload
  PROVE  connector' \in [Connectors -> ChunkLoops] /\ LoadsInOrder'
BY DEF McpInv, McpTypeOK, LoadsInOrder

LEMMA AnswerAtOnceKeeps ==
  ASSUME McpInv, NEW c \in Connectors, AnswerAtOnce(c)
  PROVE  McpInv'
<1> USE DEF McpInv
<1> DEFINE idle == Resting(Tail(connector[c].lines))
<1>1. connector' = [connector EXCEPT ![c] = idle] /\ UNCHANGED <<mcpTime, cacheFile>>
  BY DEF AnswerAtOnce
<1>2. idle \in ChunkLoops /\ idle.step = "idle"
  BY LineFacts DEF AnswerAtOnce, Resting, Emptied, Contents, CacheFiles, ChunkLoops
<1>3. connector' \in [Connectors -> ChunkLoops] /\ LoadsInOrder'
  BY <1>1, <1>2, MoveKeeps
<1>4. mcpAnswer' = mcpAnswer \/ mcpAnswer' = McpReply("plain", 0, 0, FALSE)
  BY DEF AnswerAtOnce
<1>5. mcpAnswer' \in McpReplies /\ McpAnswersAreFresh'
  <2>1. CASE mcpAnswer' = mcpAnswer
    BY <2>1 DEF McpTypeOK, McpAnswersAreFresh
  <2>2. CASE mcpAnswer' = McpReply("plain", 0, 0, FALSE)
    BY <2>2 DEF McpReply, McpReplies, McpAnswersAreFresh
  <2> QED BY <1>4, <2>1, <2>2
<1> QED BY <1>1, <1>3, <1>5 DEF McpTypeOK, StampsAreEarly

\* The steps of a load before it writes: the call, the API's answer, the emptied file.
LEMMA StartLoadKeeps ==
  ASSUME McpInv, NEW c \in Connectors, StartLoad(c)
  PROVE  McpInv'
<1> USE DEF McpInv
<1> DEFINE load == [connector[c] EXCEPT !.step = "reading", !.start = mcpTime]
<1>1. connector' = [connector EXCEPT ![c] = load] /\ UNCHANGED <<mcpTime, cacheFile, mcpAnswer>>
  BY DEF StartLoad, McpTypeOK, ChunkLoops
<1>2. load \in ChunkLoops /\ load.step = "reading" /\ load.lines # <<>> /\ load.start <= mcpTime
  <2>1. connector[c] \in ChunkLoops /\ mcpTime \in Nat /\ connector[c].lines # <<>>
    BY DEF StartLoad, McpTypeOK
  <2>2. /\ load.step = "reading" /\ load.start = mcpTime /\ load.lines = connector[c].lines
        /\ load \in ChunkLoops
    BY <2>1 DEF ChunkLoops
  <2>3. mcpTime <= mcpTime
    BY <2>1
  <2> QED BY <2>1, <2>2, <2>3
<1>3. connector' \in [Connectors -> ChunkLoops] /\ LoadsInOrder'
  BY <1>1, <1>2, MoveKeeps
<1> QED BY <1>1, <1>3 DEF McpTypeOK, StampsAreEarly, McpAnswersAreFresh

LEMMA FetchJsonKeeps ==
  ASSUME McpInv, NEW c \in Connectors, FetchJson(c)
  PROVE  McpInv'
<1> USE DEF McpInv
<1> DEFINE load == [connector[c] EXCEPT !.step = "opening", !.payload = mcpTime]
<1>1. connector' = [connector EXCEPT ![c] = load] /\ UNCHANGED <<mcpTime, cacheFile, mcpAnswer>>
  BY DEF FetchJson, McpTypeOK, ChunkLoops
<1>2. connector[c].lines # <<>> /\ connector[c].start <= mcpTime
  BY DEF FetchJson, LoadsInOrder
<1>3. load \in ChunkLoops /\ load.lines # <<>> /\ load.start <= mcpTime /\ load.start <= load.payload
  BY <1>2 DEF McpTypeOK, ChunkLoops
<1>4. connector' \in [Connectors -> ChunkLoops] /\ LoadsInOrder'
  BY <1>1, <1>3, MoveKeeps
<1> QED BY <1>1, <1>4 DEF McpTypeOK, StampsAreEarly, McpAnswersAreFresh

LEMMA OpenCacheKeeps ==
  ASSUME McpInv, NEW c \in Connectors, OpenCache(c)
  PROVE  McpInv'
<1> USE DEF McpInv
<1> DEFINE load == [connector[c] EXCEPT !.step = "writing"]
           season == SeasonAsked(Line(c))
<1>1. connector' = [connector EXCEPT ![c] = load] /\ UNCHANGED <<mcpTime, mcpAnswer>>
  BY DEF OpenCache, McpTypeOK, ChunkLoops
<1>2. connector[c].lines # <<>> /\ connector[c].start <= mcpTime /\ connector[c].start <= connector[c].payload
  BY DEF OpenCache, LoadsInOrder
<1>3. load \in ChunkLoops /\ load.lines # <<>> /\ load.start <= mcpTime /\ load.start <= load.payload
  BY <1>2 DEF McpTypeOK, ChunkLoops
<1>4. connector' \in [Connectors -> ChunkLoops] /\ LoadsInOrder'
  BY <1>1, <1>3, MoveKeeps
<1>5. Emptied \in CacheFiles /\ Emptied.state = "empty"
  BY DEF Emptied, Contents, CacheFiles
<1>6. cacheFile' = [cacheFile EXCEPT ![season] = Emptied] /\ cacheFile \in [McpSeasons -> CacheFiles]
  BY DEF OpenCache, McpTypeOK
<1>7. cacheFile' \in [McpSeasons -> CacheFiles] /\ StampsAreEarly'
  BY <1>5, <1>6 DEF StampsAreEarly
<1> QED BY <1>1, <1>4, <1>7 DEF McpTypeOK, McpAnswersAreFresh

\* A young file is an answer, any other one is the record to fall back on.
LEMMA ReadCacheKeeps ==
  ASSUME McpInv, NEW c \in Connectors, ReadCache(c)
  PROVE  McpInv'
<1> USE DEF McpInv
<1> DEFINE season == SeasonAsked(Line(c))
           file == cacheFile[season]
           load == [connector[c] EXCEPT !.step = "fetching", !.cached = IF file.state = "whole" THEN file ELSE Emptied]
<1>1. connector[c].lines # <<>> /\ connector[c].start <= mcpTime /\ UNCHANGED <<mcpTime, cacheFile>>
  BY DEF ReadCache, LoadsInOrder
<1>2. season \in McpSeasons /\ file \in CacheFiles
  BY <1>1, LineFacts DEF McpTypeOK
<1>3. CASE /\ ~ForceRefresh(Line(c)) /\ file.state = "whole"
           /\ AgeSeconds(file, connector[c].start) <= TtlSeconds
  <2>1. Reply(c, "hit", file.payload)
    BY <1>3 DEF ReadCache
  <2>2. file.generatedAt <= file.payload /\ file.payload \in Nat /\ connector[c].start \in Nat
    BY <1>2, <1>3 DEF StampsAreEarly, CacheFiles, McpTypeOK, ChunkLoops
  <2>3. Young(connector[c].start, file.payload)
    BY <1>2, <1>3, <2>2, YoungEnough
  <2>4. /\ connector' \in [Connectors -> ChunkLoops] /\ mcpAnswer' \in McpReplies
        /\ LoadsInOrder' /\ McpAnswersAreFresh'
    BY <1>1, <1>3, <2>1, <2>2, <2>3, ReplyKeeps
  <2> QED BY <1>1, <2>4 DEF McpTypeOK, StampsAreEarly
<1>4. CASE ~(/\ ~ForceRefresh(Line(c)) /\ file.state = "whole"
             /\ AgeSeconds(file, connector[c].start) <= TtlSeconds)
  <2>1. connector' = [connector EXCEPT ![c] = load] /\ mcpAnswer' = mcpAnswer
    BY <1>4 DEF ReadCache, McpTypeOK, ChunkLoops
  <2>2. load \in ChunkLoops /\ load.lines # <<>> /\ load.start <= mcpTime /\ load.step = "fetching"
    BY <1>1, <1>2 DEF McpTypeOK, ChunkLoops, Emptied, Contents, CacheFiles
  <2>3. connector' \in [Connectors -> ChunkLoops] /\ LoadsInOrder'
    BY <1>1, <2>1, <2>2, MoveKeeps
  <2> QED BY <1>1, <2>1, <2>3 DEF McpTypeOK, StampsAreEarly, McpAnswersAreFresh
<1> QED BY <1>3, <1>4

\* The record is stamped with the time of the call, which is before the API's answer.
LEMMA WriteCacheKeeps ==
  ASSUME McpInv, NEW c \in Connectors, WriteCache(c)
  PROVE  McpInv'
<1> USE DEF McpInv
<1> DEFINE season == SeasonAsked(Line(c))
<1>1. connector[c].lines # <<>> /\ connector[c].start <= connector[c].payload /\ UNCHANGED mcpTime
  BY DEF WriteCache, LoadsInOrder
<1>2. connector[c].start \in Nat /\ connector[c].payload \in Nat
  BY DEF McpTypeOK, ChunkLoops
<1>3. PICK written \in {CacheRecord(c), Mixed} : cacheFile' = [cacheFile EXCEPT ![season] = written]
  BY DEF WriteCache
<1>4. written \in CacheFiles /\ (written.state = "whole" => written.generatedAt <= written.payload)
  BY <1>1, <1>2, <1>3 DEF CacheRecord, Mixed, Contents, CacheFiles
<1>5. cacheFile' \in [McpSeasons -> CacheFiles] /\ StampsAreEarly'
  BY <1>3, <1>4 DEF McpTypeOK, StampsAreEarly
<1>6. Reply(c, "refresh", connector[c].payload)
  BY DEF WriteCache
<1>7. /\ connector' \in [Connectors -> ChunkLoops] /\ mcpAnswer' \in McpReplies
      /\ LoadsInOrder' /\ McpAnswersAreFresh'
  BY <1>1, <1>2, <1>6, ReplyKeeps
<1> QED BY <1>1, <1>5, <1>7 DEF McpTypeOK

LEMMA LoadFailsKeeps ==
  ASSUME McpInv, NEW c \in Connectors, LoadFails(c)
  PROVE  McpInv'
<1> USE DEF McpInv
<1>1. connector[c].lines # <<>> /\ UNCHANGED <<mcpTime, cacheFile>>
  BY DEF LoadFails, LoadsInOrder
<1>2. PICK status \in {"stale", "error"}, payload \in Nat : Reply(c, status, payload)
  <2>1. connector[c].cached.payload \in Nat
    BY DEF McpTypeOK, ChunkLoops, CacheFiles
  <2> QED BY <2>1 DEF LoadFails
<1>3. /\ connector' \in [Connectors -> ChunkLoops] /\ mcpAnswer' \in McpReplies
      /\ LoadsInOrder' /\ McpAnswersAreFresh'
  BY <1>1, <1>2, ReplyKeeps
<1> QED BY <1>1, <1>3 DEF McpTypeOK, StampsAreEarly

LEMMA ConnectorStopsKeeps ==
  ASSUME McpInv, NEW c \in Connectors, ConnectorStops(c)
  PROVE  McpInv'
<1> USE DEF McpInv
<1> DEFINE load == [step |-> "stopped", lines |-> <<>>, start |-> 0, cached |-> Emptied, payload |-> 0]
<1>1. load = [Resting(<<>>) EXCEPT !.step = "stopped"]
  BY DEF Resting
<1>2. connector' = [connector EXCEPT ![c] = load] /\ UNCHANGED <<mcpTime, cacheFile, mcpAnswer>>
  BY <1>1 DEF ConnectorStops
<1>3. Emptied \in CacheFiles /\ <<>> \in Seq(McpLines)
  BY DEF Emptied, Contents, CacheFiles
<1>4. load \in ChunkLoops /\ load.step = "stopped"
  BY <1>3 DEF ChunkLoops
<1>5. connector' \in [Connectors -> ChunkLoops] /\ LoadsInOrder'
  BY <1>2, <1>4, MoveKeeps
<1> QED BY <1>2, <1>5 DEF McpTypeOK, StampsAreEarly, McpAnswersAreFresh

LEMMA McpInitially == McpInit => McpInv
<1> SUFFICES ASSUME McpInit PROVE McpInv OBVIOUS
<1>1. PICK chunk \in [Connectors -> McpChunks] : connector = [c \in Connectors |-> Resting(chunk[c])]
  BY DEF McpInit
<1>2. Emptied \in CacheFiles /\ Emptied.state = "empty"
  BY DEF Emptied, Contents, CacheFiles
<1>3. \A c \in Connectors : connector[c] \in ChunkLoops /\ connector[c].step = "idle"
  BY <1>1, <1>2, McpAssumption DEF Resting, ChunkLoops
<1>4. mcpAnswer \in McpReplies /\ mcpAnswer.status = "none"
  BY DEF McpInit, NoReply, McpReply, McpReplies
<1>5. McpTypeOK
  BY <1>1, <1>2, <1>3, <1>4 DEF McpInit, McpTypeOK
<1>6. LoadsInOrder
  BY <1>3 DEF LoadsInOrder
<1>7. StampsAreEarly
  BY <1>2 DEF McpInit, StampsAreEarly
<1>8. McpAnswersAreFresh
  BY <1>4 DEF McpAnswersAreFresh
<1> QED BY <1>5, <1>6, <1>7, <1>8 DEF McpInv

LEMMA McpStep == McpInv /\ [McpNext]_mcpVars => McpInv'
<1> SUFFICES ASSUME McpInv, [McpNext]_mcpVars PROVE McpInv' OBVIOUS
<1>1. CASE Tick
  BY <1>1 DEF Tick, McpInv, McpTypeOK, ChunkLoops, LoadsInOrder, StampsAreEarly, McpAnswersAreFresh
<1>2. CASE UNCHANGED mcpVars
  BY <1>2 DEF mcpVars, McpInv, McpTypeOK, LoadsInOrder, StampsAreEarly, McpAnswersAreFresh
<1>3. ASSUME NEW c \in Connectors,
             \/ AnswerAtOnce(c) \/ StartLoad(c) \/ ReadCache(c) \/ FetchJson(c) \/ OpenCache(c)
             \/ WriteCache(c) \/ LoadFails(c) \/ ConnectorStops(c)
      PROVE  McpInv'
  BY <1>3, AnswerAtOnceKeeps, StartLoadKeeps, ReadCacheKeeps, FetchJsonKeeps, OpenCacheKeeps,
     WriteCacheKeeps, LoadFailsKeeps, ConnectorStopsKeeps
<1> QED BY <1>1, <1>2, <1>3 DEF McpNext

LEMMA McpInvariant == McpSpec => []McpInv
<1> QED BY McpInitially, McpStep, PTL DEF McpSpec

\* The cache and the loops of the connector keep their types.
THEOREM McpTypes == McpSpec => []McpTypeOK
<1>1. McpInv => McpTypeOK
  BY DEF McpInv
<1> QED BY <1>1, McpInvariant, PTL

\* For any number of connectors over one directory, any requests, any time to live and any
\* number of ticks to a second: an answer from the cache is less than the time to live and
\* half a second old, a refreshed one was fetched after the request, however writes overlap,
\* are overtaken or are cut short.
THEOREM AnswersAreFresh == McpSpec => []McpAnswersAreFresh
<1>1. McpInv => McpAnswersAreFresh
  BY DEF McpInv
<1> QED BY <1>1, McpInvariant, PTL

-----------------------------------------------------------------------------
(***************************************************************************)
(* The import: what was listed is not uploaded again, and what was         *)
(* reported as sent is in the archive.                                     *)
(***************************************************************************)


Results == {"uploaded", "updated", "skipped", "failed"}

MatchedRows == [row : Nat, file : Autosaves]

ImportSteps == {"match", "hashes", "page", "count", "game", "send", "done", "panic"}

\* The control of the command.  Only a recording of the directory is matched; the results of
\* the rows are those of the rows before expectedAt.
InOrderOfSteps ==
  /\ importStep \in ImportSteps
  /\ expectedAt \in Nat \ {0}
  /\ matched \in Seq(MatchedRows)
  /\ sentRows \in Seq(Results)
  /\ importStep \notin {"send", "done"} => sentRows = <<>>
  /\ DOMAIN listing = {"offset", "total", "ids", "tries"}
  /\ importStep = "match" => listing = NoListing
  /\ importStep \in {"match", "hashes"} => existing = <<>>
  /\ importStep \in {"hashes", "page", "count", "game"} => expectedAt = 1
  /\ importStep = "send" => Len(sentRows) = expectedAt - 1
  /\ Len(sentRows) <= Len(matched)

\* The next game of the archive gets a new number.
IdsFresh == nextId \in Nat \ {0} /\ DOMAIN archive \subseteq 1 .. nextId - 1

\* A row of the archive is a game of some recording, and its files are recordings of it.
RowFits(r) ==
  /\ DOMAIN r = {"game", "files", "season"}
  /\ \E c \in Autosaves : c.game = r.game
  /\ \A f \in r.files, c \in Autosaves : c.hash = f.hash => c.game = r.game

ArchiveFits == \A g \in DOMAIN archive : RowFits(archive[g])

\* What the listing found of a hash is still true of its game, if it has not been deleted: the
\* number of a deleted game is not given to another.
ExistingFits ==
  \A h \in DOMAIN existing :
     /\ existing[h] \in 0 .. nextId - 1
     /\ existing[h] \in DOMAIN archive => h \in HashesOf(existing[h])

\* The game is on the page, or behind it.  While the page is read uploads only move it back.
ToRead(g) ==
  \/ importStep = "hashes"
  \/ importStep = "page" /\ Rank(g) >= listing.offset
  \/ importStep \in {"count", "game"} /\ g \in listing.ids
  \/ importStep = "count" /\ Rank(g) >= listing.offset + ListLimit
  \/ importStep = "game" /\ Rank(g) >= listing.offset + ListLimit /\ listing.offset + ListLimit < listing.total

\* A hash of before is found already, or is one of a game still to be read.
ListingReads ==
  ~lostGame /\ importStep \in {"hashes", "page", "count", "game"} =>
    /\ listing.offset \in Nat
    /\ \A h \in knownBefore : \/ h \in DOMAIN existing
                              \/ \E g \in DOMAIN archive : h \in HashesOf(g) /\ ToRead(g)

\* RowsAreImported, one row at a time.
StandsAlone(k) == \A j \in DOMAIN matched \ {k} : matched[j].file.game # matched[k].file.game

RowIsIn(k) ==
  \E g \in DOMAIN archive :
     /\ archive[g].game = matched[k].file.game
     /\ archive[g].season = SeasonOf(Expected[matched[k].row])
     /\ \E f \in archive[g].files : f.by = matched[k].file.auto \/ f.hash = matched[k].file.hash

LEMMA RowsOneByOne ==
  RowsAreImported <=>
    \A k \in DOMAIN sentRows \ changedRows :
       sentRows[k] \in {"uploaded", "updated"} /\ StandsAlone(k) => RowIsIn(k)
BY Zenon DEF RowsAreImported, StandsAlone, RowIsIn

ImportInv ==
  /\ InOrderOfSteps /\ IdsFresh /\ ArchiveFits
  /\ ExistingFits /\ ListingReads /\ ListingMissesNothing /\ RowsAreImported

-----------------------------------------------------------------------------
(* What the requests of any client do to the archive. *)

\* Without a deletion games stay, and so do their recording and their files; a new one takes
\* the next number.
ArchiveGrows ==
  /\ nextId <= nextId' /\ \A g \in DOMAIN archive' : g \in DOMAIN archive \/ g = nextId
  /\ DOMAIN archive \subseteq DOMAIN archive'
  /\ \A g \in DOMAIN archive : archive'[g].game = archive[g].game /\ archive[g].files \subseteq archive'[g].files

\* A request changes game g only.
OnlyGame(g) == \A x \in DOMAIN archive' \ {g} : x \in DOMAIN archive /\ archive'[x] = archive[x]

LEMMA ArchiveIsFinite ==
  ASSUME IdsFresh PROVE IsFiniteSet(DOMAIN archive)
<1>1. 1 \in Int /\ nextId - 1 \in Int /\ DOMAIN archive \subseteq 1 .. nextId - 1
  BY DEF IdsFresh
<1>2. IsFiniteSet(1 .. nextId - 1)
  BY <1>1, FS_Interval
<1> QED BY <1>1, <1>2, FS_Subset

LEMMA StartIsNumber ==
  ASSUME ArchiveFits, NEW g \in DOMAIN archive PROVE StartOf(g) \in Int
<1>1. \E c \in Autosaves : c.game = archive[g].game
  BY DEF ArchiveFits, RowFits
<1> QED BY <1>1, AutosavesAssumption DEF StartOf

LEMMA RankIsBelowCount ==
  ASSUME IdsFresh, ArchiveFits, NEW g \in DOMAIN archive
  PROVE  Rank(g) \in Nat /\ Rank(g) < Cardinality(DOMAIN archive)
<1> DEFINE later == {h \in DOMAIN archive : StartOf(h) > StartOf(g)}
<1>1. later \subseteq DOMAIN archive /\ g \notin later
  BY StartIsNumber
<1>2. later # DOMAIN archive
  BY <1>1
<1>3. Cardinality(later) \in Nat /\ Cardinality(later) < Cardinality(DOMAIN archive)
  BY <1>1, <1>2, ArchiveIsFinite, FS_Subset, FS_CardinalityType
<1> QED BY <1>3 DEF Rank

\* New games only move a game back in the listing.
LEMMA RankGrows ==
  ASSUME IdsFresh', ArchiveGrows, NEW g \in DOMAIN archive
  PROVE  Rank(g) \in Nat /\ Rank(g)' \in Nat /\ Rank(g) <= Rank(g)'
<1> DEFINE later == {h \in DOMAIN archive : StartOf(h) > StartOf(g)}
           laterNow == {h \in DOMAIN archive' : StartOf(h)' > StartOf(g)'}
<1>1. \A h \in DOMAIN archive : StartOf(h)' = StartOf(h)
  BY DEF StartOf, ArchiveGrows
<1>2. later \subseteq laterNow
  BY <1>1 DEF ArchiveGrows
<1>3. IsFiniteSet(DOMAIN archive')
  <2>1. 1 \in Int /\ nextId' - 1 \in Int /\ DOMAIN archive' \subseteq 1 .. nextId' - 1
    BY DEF IdsFresh
  <2>2. IsFiniteSet(1 .. nextId' - 1)
    BY <2>1, FS_Interval
  <2> QED BY <2>1, <2>2, FS_Subset
<1>4. IsFiniteSet(laterNow)
  BY <1>3, FS_Subset
<1>5. /\ Cardinality(later) \in Nat /\ Cardinality(laterNow) \in Nat
      /\ Cardinality(later) <= Cardinality(laterNow)
  BY <1>2, <1>4, FS_Subset, FS_CardinalityType
<1> QED BY <1>5 DEF Rank

LEMMA FoundHashesStay ==
  ASSUME ArchiveGrows, NEW g \in DOMAIN archive PROVE HashesOf(g) \subseteq HashesOf(g)'
BY DEF ArchiveGrows, HashesOf

\* What serving a file does: the file's game is in the archive afterwards, with the season if
\* one was named, and with a file of the uploader or this very file.
LEMMA ServeFits ==
  ASSUME IdsFresh, ArchiveFits, NEW c \in Autosaves, NEW by, NEW season, Serve(c, by, season)
  PROVE  /\ IdsFresh' /\ ArchiveFits' /\ ArchiveGrows
         /\ \E g \in DOMAIN archive' :
               /\ OnlyGame(g)
               /\ archive'[g].game = c.game
               /\ season # <<>> => archive'[g].season = season
               /\ \E f \in archive'[g].files : f.by = by \/ f.hash = c.hash
<1> DEFINE old(g) == IF g \in DOMAIN archive THEN archive[g] ELSE [game |-> c.game, files |-> {}, season |-> <<>>]
           files(g) == WithFile(old(g).files, c, by)
           new(g) == [old(g) EXCEPT !.files = files(g), !.season = IF season = <<>> THEN @ ELSE season]
<1>1. PICK g \in GameFor(c) :
        /\ archive' = [x \in DOMAIN archive \cup {g} |-> IF x = g THEN new(g) ELSE archive[x]]
        /\ nextId' = IF g = nextId THEN nextId + 1 ELSE nextId
  BY Zenon DEF Serve
<1>2. DOMAIN archive' = DOMAIN archive \cup {g} /\ archive'[g] = new(g) /\ OnlyGame(g)
  BY <1>1 DEF OnlyGame
<1>3. \/ g \in DOMAIN archive /\ c.hash \in HashesOf(g)
      \/ g \in DOMAIN archive /\ archive[g].game = c.game
      \/ g = nextId /\ g \notin DOMAIN archive
  BY DEF GameFor, IdsFresh
<1>4. DOMAIN old(g) = {"game", "files", "season"} /\ old(g).game = c.game
  <2>1. CASE g \in DOMAIN archive
    <3>1. RowFits(archive[g])
      BY <2>1 DEF ArchiveFits
    <3>2. c.hash \in HashesOf(g) => archive[g].game = c.game
      BY <3>1 DEF RowFits, HashesOf
    <3> QED BY <2>1, <3>1, <3>2, <1>3 DEF RowFits, IdsFresh
  <2>2. CASE g \notin DOMAIN archive
    BY <2>2
  <2> QED BY <2>1, <2>2
<1>5. /\ DOMAIN new(g) = {"game", "files", "season"}
      /\ new(g).game = c.game
      /\ new(g).files = files(g)
      /\ new(g).season = IF season = <<>> THEN old(g).season ELSE season
  BY <1>4
<1> HIDE DEF new
<1>6. files(g) \subseteq old(g).files \cup {[hash |-> c.hash, by |-> by]} /\ old(g).files \subseteq files(g)
  BY DEF WithFile
<1>7. \E f \in files(g) : f.by = by \/ f.hash = c.hash
  <2>1. CASE \E f \in old(g).files : f.by = by
    BY <2>1, <1>6
  <2>2. CASE ~\E f \in old(g).files : f.by = by
    <3>1. [hash |-> c.hash, by |-> by] \in files(g)
      BY <2>2 DEF WithFile
    <3> QED BY <3>1
  <2> QED BY <2>1, <2>2
<1>8. \A f \in old(g).files, d \in Autosaves : d.hash = f.hash => d.game = c.game
  <2>1. CASE g \in DOMAIN archive
    BY <2>1, <1>4 DEF ArchiveFits, RowFits
  <2>2. CASE g \notin DOMAIN archive
    BY <2>2
  <2> QED BY <2>1, <2>2
<1>9. RowFits(new(g))
  <2>1. \A d \in Autosaves : d.hash = c.hash => d.game = c.game
    BY AutosavesAssumption
  <2>2. \A f \in files(g), d \in Autosaves : d.hash = f.hash => d.game = c.game
    BY <1>6, <1>8, <2>1
  <2> HIDE DEF files
  <2> QED BY <1>5, <2>2 DEF RowFits
<1>10. ArchiveFits'
  BY <1>2, <1>9 DEF ArchiveFits, OnlyGame
<1>11. IdsFresh'
  BY <1>1, <1>2, <1>3 DEF IdsFresh
<1>12. ArchiveGrows
  <2>1. g \in DOMAIN archive => archive'[g].game = archive[g].game /\ archive[g].files \subseteq archive'[g].files
    BY <1>2, <1>4, <1>5, <1>6
  <2>2. nextId <= nextId'
    BY <1>1 DEF IdsFresh
  <2> QED BY <1>2, <1>3, <2>1, <2>2 DEF ArchiveGrows, OnlyGame
<1> HIDE DEF old, files
<1> QED BY <1>2, <1>5, <1>7, <1>10, <1>11, <1>12

\* What setting the season of a known game does.
LEMMA SeasonSetFits ==
  ASSUME IdsFresh, ArchiveFits, nextId' = nextId, NEW g \in DOMAIN archive, NEW season, SetsSeason(g, season)
  PROVE  /\ IdsFresh' /\ ArchiveFits' /\ ArchiveGrows /\ OnlyGame(g)
         /\ g \in DOMAIN archive' /\ archive'[g].season = season
<1>1. /\ DOMAIN archive' = DOMAIN archive
      /\ archive'[g] = [archive[g] EXCEPT !.season = season]
      /\ \A x \in DOMAIN archive \ {g} : archive'[x] = archive[x]
  BY DEF SetsSeason
<1>2. RowFits(archive[g])
  BY DEF ArchiveFits
<1>3. /\ DOMAIN archive'[g] = {"game", "files", "season"}
      /\ archive'[g].game = archive[g].game /\ archive'[g].files = archive[g].files
      /\ archive'[g].season = season
  BY <1>1, <1>2 DEF RowFits
<1>4. RowFits(archive'[g])
  BY <1>2, <1>3 DEF RowFits
<1> QED BY <1>1, <1>3, <1>4 DEF IdsFresh, ArchiveFits, ArchiveGrows, OnlyGame

-----------------------------------------------------------------------------
(* What the growth of the archive leaves true. *)

LEMMA GrowthKeepsListing ==
  ASSUME IdsFresh, IdsFresh', ArchiveGrows, ExistingFits, ListingReads, ListingMissesNothing,
         UNCHANGED <<command, importStep, listing, existing, knownBefore, lostGame>>
  PROVE  ExistingFits' /\ ListingReads' /\ ListingMissesNothing'
<1>1. ExistingFits'
  <2> SUFFICES ASSUME NEW h \in DOMAIN existing
               PROVE  /\ existing[h] \in 0 .. nextId' - 1
                      /\ existing[h] \in DOMAIN archive' => h \in HashesOf(existing[h])'
    BY DEF ExistingFits
  <2>1. existing[h] \in 0 .. nextId - 1 /\ (existing[h] \in DOMAIN archive => h \in HashesOf(existing[h]))
    BY DEF ExistingFits
  <2>2. nextId \in Nat /\ nextId' \in Nat /\ nextId <= nextId'
    BY DEF IdsFresh, ArchiveGrows
  <2>3. existing[h] \in DOMAIN archive' => existing[h] \in DOMAIN archive
    BY <2>1, <2>2 DEF ArchiveGrows
  <2> QED BY <2>1, <2>2, <2>3, FoundHashesStay
<1>2. ASSUME NEW g \in DOMAIN archive, ToRead(g), listing.offset \in Nat PROVE ToRead(g)'
  <2>1. Rank(g) \in Nat /\ Rank(g)' \in Nat /\ Rank(g) <= Rank(g)'
    BY RankGrows
  <2>2. listing.offset + ListLimit \in Nat
    BY <1>2, ListLimitAssumption
  <2> QED BY <1>2, <2>1, <2>2 DEF ToRead
<1>3. ListingReads'
  <2> SUFFICES ASSUME ~lostGame, importStep \in {"hashes", "page", "count", "game"}
               PROVE  /\ listing.offset \in Nat
                      /\ \A h \in knownBefore :
                           \/ h \in DOMAIN existing
                           \/ \E g \in DOMAIN archive' : h \in HashesOf(g)' /\ ToRead(g)'
    BY DEF ListingReads
  <2>1. /\ listing.offset \in Nat
        /\ \A h \in knownBefore : \/ h \in DOMAIN existing
                                  \/ \E g \in DOMAIN archive : h \in HashesOf(g) /\ ToRead(g)
    BY DEF ListingReads
  <2>2. DOMAIN archive \subseteq DOMAIN archive'
    BY DEF ArchiveGrows
  <2> QED BY <1>2, <2>1, <2>2, FoundHashesStay
<1>4. ListingMissesNothing'
  BY DEF ListingMissesNothing
<1> QED BY <1>1, <1>3, <1>4

\* A row that is in stays in when the games of its recording are left alone.
LEMMA RowStaysIn ==
  ASSUME NEW k, RowIsIn(k), UNCHANGED <<command, matched>>,
         \A x \in DOMAIN archive :
            archive[x].game = matched[k].file.game => x \in DOMAIN archive' /\ archive'[x] = archive[x]
  PROVE  RowIsIn(k)'
<1>1. PICK x \in DOMAIN archive :
        /\ archive[x].game = matched[k].file.game
        /\ archive[x].season = SeasonOf(Expected[matched[k].row])
        /\ \E f \in archive[x].files : f.by = matched[k].file.auto \/ f.hash = matched[k].file.hash
  BY DEF RowIsIn
<1>2. x \in DOMAIN archive' /\ archive'[x] = archive[x]
  BY <1>1
<1>3. Expected' = Expected
  BY DEF Expected
<1> QED BY <1>1, <1>2, <1>3 DEF RowIsIn

\* An answer about the current row: rows before it stay in, and so it is when it is reported
\* as sent.
LEMMA AnswerKeepsRows ==
  ASSUME InOrderOfSteps, RowsAreImported, Sending, ArchiveGrows, NEW result \in Results, Conclude(result),
         NEW g, OnlyGame(g), g \in DOMAIN archive => archive[g].game = Current.file.game,
         NEW i, i = expectedAt, result \in {"uploaded", "updated"} => RowIsIn(i)'
  PROVE  RowsAreImported'
<1> SUFFICES ASSUME NEW k \in DOMAIN sentRows' \ changedRows', sentRows'[k] \in {"uploaded", "updated"},
                    StandsAlone(k)'
             PROVE  RowIsIn(k)'
  BY Zenon DEF RowsAreImported, StandsAlone, RowIsIn
<1>1. /\ UNCHANGED <<command, matched, changedRows>> /\ sentRows' = Append(sentRows, result)
      /\ sentRows \in Seq(Results) /\ Len(sentRows) = expectedAt - 1 /\ expectedAt \in Nat \ {0}
  BY DEF Conclude, InOrderOfSteps, Sending
<1>2. k \in 1 .. i /\ (k # i => k \in DOMAIN sentRows /\ sentRows'[k] = sentRows[k])
      /\ (k = i => sentRows'[k] = result)
  BY <1>1
<1>3. CASE k = i
  BY <1>1, <1>2, <1>3
<1>4. CASE k # i
  <2>1. RowIsIn(k)
    BY <1>1, <1>2, <1>4, RowsOneByOne DEF StandsAlone
  <2>2. expectedAt \in DOMAIN matched
    BY <1>1 DEF InOrderOfSteps, Sending
  <2>3. Current.file.game # matched[k].file.game
    BY <1>1, <1>4, <2>2 DEF StandsAlone, Current
  <2>4. ASSUME NEW x \in DOMAIN archive, archive[x].game = matched[k].file.game
        PROVE  x \in DOMAIN archive' /\ archive'[x] = archive[x]
    BY <2>3, <2>4 DEF ArchiveGrows, OnlyGame
  <2> QED BY <1>1, <2>1, <2>4, RowStaysIn
<1> QED BY <1>3, <1>4

-----------------------------------------------------------------------------
(* The steps. *)

LEMMA FilesAreRecordings ==
  ASSUME NEW exp, NEW used, NEW fallback PROVE FilesFor(exp, used, fallback) \subseteq Autosaves \ used
<1>1. matchingCandidates(exp, used) \subseteq Autosaves \ used /\ playerCandidates(exp, used) \subseteq Autosaves \ used
  BY DEF matchingCandidates, playerCandidates, scanReplays
<1>2. ASSUME NEW cs PROVE EarliestOf(cs) \subseteq cs /\ BestOf(exp, cs) \subseteq cs
  BY Zenon DEF EarliestOf, BestOf
<1>3. EarliestOf(matchingCandidates(exp, used)) \subseteq Autosaves \ used
  BY <1>1, <1>2
<1>4. BestOf(exp, playerCandidates(exp, used)) \subseteq Autosaves \ used
  BY <1>1, <1>2
<1> QED BY <1>3, <1>4, Zenon DEF FilesFor

LEMMA ImportInitially == ImportInit => ImportInv
<1> SUFFICES ASSUME ImportInit PROVE ImportInv
  OBVIOUS
<1>1. InOrderOfSteps
  BY DEF ImportInit, InOrderOfSteps, ImportSteps, NoListing
<1>2. DOMAIN archive = 1 .. Cardinality(DOMAIN archive) /\ Cardinality(DOMAIN archive) \in Nat
  <2>1. CASE command.execute
    BY <2>1, StoredAssumption, FS_CardinalityType DEF ImportInit
  <2>2. CASE ~command.execute
    <3>1. DOMAIN archive = {}
      BY <2>2 DEF ImportInit
    <3>2. Cardinality(DOMAIN archive) = 0
      BY <3>1, FS_EmptySet
    <3> QED BY <3>1, <3>2
  <2> QED BY <2>1, <2>2
<1>3. IdsFresh
  BY <1>2 DEF ImportInit, IdsFresh
<1>4. ArchiveFits
  BY StoredAssumption DEF ImportInit, ArchiveFits, RowFits
<1>5. ExistingFits /\ ListingReads /\ ListingMissesNothing
  BY DEF ImportInit, ExistingFits, ListingReads, ListingMissesNothing
<1>6. RowsAreImported
  BY DEF ImportInit, RowsAreImported
<1> QED BY <1>1, <1>3, <1>4, <1>5, <1>6 DEF ImportInv

LEMMA NothingSentYet ==
  ASSUME sentRows = <<>> PROVE RowsAreImported
BY DEF RowsAreImported

LEMMA MatchKeepsInv ==
  ASSUME ImportInv, MatchRow PROVE ImportInv'
<1>1. /\ importStep = "match" /\ sentRows = <<>> /\ existing = <<>>
      /\ UNCHANGED <<command, importStep, listing, existing, sentRows, archive, nextId, lostGame, changedRows, knownBefore>>
      /\ expectedAt' = expectedAt + 1
  BY DEF MatchRow, ImportInv, InOrderOfSteps, serverVars
<1>2. matched' \in Seq(MatchedRows)
  <2>1. ASSUME NEW c \in FilesFor(Expected[expectedAt], Used, command.fallback)
        PROVE  [row |-> expectedAt, file |-> c] \in MatchedRows
    BY FilesAreRecordings DEF ImportInv, InOrderOfSteps, MatchedRows
  <2>2. \/ matched' = matched
        \/ \E c \in FilesFor(Expected[expectedAt], Used, command.fallback) :
              matched' = Append(matched, [row |-> expectedAt, file |-> c])
    BY DEF MatchRow
  <2>3. matched \in Seq(MatchedRows)
    BY DEF ImportInv, InOrderOfSteps
  <2>4. \A m \in MatchedRows : Append(matched, m) \in Seq(MatchedRows)
    BY <2>3, AppendProperties
  <2> QED BY <2>1, <2>2, <2>3, <2>4, Zenon
<1>3. InOrderOfSteps'
  BY <1>1, <1>2 DEF ImportInv, InOrderOfSteps
<1>4. IdsFresh' /\ ArchiveFits'
  BY <1>1 DEF ImportInv, IdsFresh, ArchiveFits
<1>5. ExistingFits' /\ ListingReads' /\ ListingMissesNothing' /\ RowsAreImported'
  BY <1>1 DEF ImportInv, ExistingFits, ListingReads, ListingMissesNothing, RowsAreImported
<1> QED BY <1>3, <1>4, <1>5 DEF ImportInv

\* The hashes of the archive when the listing begins.
LEMMA ListingBegins ==
  ASSUME InOrderOfSteps', IdsFresh, ArchiveFits, UNCHANGED <<archive, nextId>>,
         importStep' \in {"hashes", "send", "done"}, importStep' = "send" => ~command'.skipExisting,
         existing' = <<>>, sentRows' = <<>>, listing' = NoListing, knownBefore' = Hashes
  PROVE  ImportInv'
<1>1. IdsFresh' /\ ArchiveFits'
  BY DEF IdsFresh, ArchiveFits
<1>2. ExistingFits' /\ RowsAreImported' /\ ListingMissesNothing'
  BY DEF ExistingFits, RowsAreImported, ListingMissesNothing
<1>3. listing'.offset \in Nat
  BY DEF NoListing
<1>4. \A h \in knownBefore' : \E g \in DOMAIN archive' : h \in HashesOf(g)'
  BY DEF Hashes, HashesOf
<1>5. ListingReads'
  BY <1>3, <1>4 DEF ListingReads, ToRead
<1> QED BY <1>1, <1>2, <1>5 DEF ImportInv

LEMMA StartKeepsInv ==
  ASSUME ImportInv, StartListing PROVE ImportInv'
<1>1. InOrderOfSteps'
  BY DEF ImportInv, InOrderOfSteps, StartListing, ImportSteps, NoListing
<1> QED BY <1>1, ListingBegins DEF ImportInv, InOrderOfSteps, StartListing

LEMMA RunAgainKeepsInv ==
  ASSUME ImportInv, RunAgain PROVE ImportInv'
<1>1. InOrderOfSteps'
  BY DEF ImportInv, InOrderOfSteps, RunAgain, ImportSteps, NoListing
<1> QED BY <1>1, ListingBegins DEF ImportInv, RunAgain

LEMMA SameArchive ==
  ASSUME archive' = archive PROVE \A g : Rank(g)' = Rank(g) /\ HashesOf(g)' = HashesOf(g)
BY DEF Rank, StartOf, HashesOf

\* The listing neither changes the archive nor sends anything.
LEMMA ListingStepFits ==
  ASSUME ImportInv, importStep \in {"hashes", "page", "count", "game"},
         UNCHANGED <<command, expectedAt, matched, sentRows, serverVars, knownBefore>>,
         importStep' \in {"hashes", "page", "count", "game", "send", "panic"},
         importStep' = "hashes" => existing' = <<>>, DOMAIN listing' = {"offset", "total", "ids", "tries"},
         ExistingFits', ListingReads', ListingMissesNothing'
  PROVE  ImportInv'
<1>1. sentRows = <<>> /\ sentRows' = <<>>
  BY DEF ImportInv, InOrderOfSteps
<1>2. InOrderOfSteps'
  BY <1>1 DEF ImportInv, InOrderOfSteps, ImportSteps
<1>3. IdsFresh' /\ ArchiveFits'
  BY DEF ImportInv, IdsFresh, ArchiveFits, serverVars
<1>4. RowsAreImported'
  BY <1>1 DEF RowsAreImported
<1> QED BY <1>2, <1>3, <1>4 DEF ImportInv

LEMMA FastListingKeepsInv ==
  ASSUME ImportInv, FastListing PROVE ImportInv'
<1>1. /\ importStep = "hashes" /\ importStep' = "send" /\ DOMAIN existing' = Hashes
      /\ UNCHANGED <<command, expectedAt, matched, sentRows, serverVars, knownBefore>>
  BY DEF FastListing, StartSending
<1>2. ExistingFits'
  <2>1. ASSUME NEW h \in Hashes
        PROVE  LET g == CHOOSE g \in DOMAIN archive : h \in HashesOf(g)
               IN  g \in DOMAIN archive /\ h \in HashesOf(g)
    BY DEF Hashes
  <2>2. \A h \in DOMAIN existing' :
           existing'[h] = 0 \/ (existing'[h] \in DOMAIN archive /\ h \in HashesOf(existing'[h]))
    BY <2>1 DEF FastListing, StartSending
  <2>3. 0 \in 0 .. nextId - 1 /\ 0 \notin DOMAIN archive /\ \A g \in DOMAIN archive : g \in 0 .. nextId - 1
    BY DEF ImportInv, IdsFresh
  <2> QED BY <1>1, <2>2, <2>3 DEF ExistingFits, HashesOf, serverVars
<1>3. ListingReads'
  BY <1>1 DEF ListingReads
<1>4. ListingMissesNothing'
  <2>1. ~lostGame => knownBefore \subseteq Hashes
    BY <1>1 DEF ImportInv, ListingReads, Hashes, InOrderOfSteps
  <2> QED BY <1>1, <2>1 DEF ListingMissesNothing, serverVars
<1>5. DOMAIN listing' = {"offset", "total", "ids", "tries"}
  BY DEF FastListing, StartSending, NoListing
<1> QED BY <1>1, <1>2, <1>3, <1>4, <1>5, ListingStepFits

\* A listing that is given up for another begins at its first page.
LEMMA FailureKeepsListing ==
  ASSUME ImportInv, importStep \in {"hashes", "page", "game"}, AfterFailure,
         UNCHANGED <<command, existing, expectedAt, matched, sentRows, serverVars, knownBefore>>
  PROVE  ImportInv'
<1>1. \/ importStep' = importStep /\ listing' = [listing EXCEPT !.tries = @ + 1]
      \/ importStep = "hashes" /\ importStep' = "page" /\ listing' = NoListing
      \/ importStep' = "panic" /\ listing' = NoListing
  BY DEF AfterFailure
<1>2. ExistingFits' /\ ListingMissesNothing'
  BY <1>1 DEF ImportInv, ExistingFits, ListingMissesNothing, HashesOf, serverVars
<1>3. ListingReads'
  <2>1. CASE importStep' = importStep /\ listing' = [listing EXCEPT !.tries = @ + 1]
    <3>1. listing'.offset = listing.offset /\ listing'.ids = listing.ids /\ listing'.total = listing.total
      BY <2>1 DEF ImportInv, InOrderOfSteps
    <3> QED BY <2>1, <3>1, SameArchive DEF ImportInv, ListingReads, ToRead, serverVars
  <2>2. CASE importStep = "hashes" /\ importStep' = "page" /\ listing' = NoListing
    <3>1. listing'.offset = 0
      BY <2>2 DEF NoListing
    <3>2. \A g \in DOMAIN archive : Rank(g) \in Nat
      BY RankIsBelowCount DEF ImportInv
    <3> QED BY <2>2, <3>1, <3>2, SameArchive DEF ImportInv, ListingReads, ToRead, serverVars
  <2>3. CASE importStep' = "panic" /\ listing' = NoListing
    BY <2>3 DEF ListingReads
  <2> QED BY <1>1, <2>1, <2>2, <2>3
<1>4. DOMAIN listing' = {"offset", "total", "ids", "tries"}
  BY <1>1 DEF NoListing, ImportInv, InOrderOfSteps
<1>5. importStep' = "hashes" => existing' = <<>>
  BY <1>1 DEF ImportInv, InOrderOfSteps
<1> QED BY <1>1, <1>2, <1>3, <1>4, <1>5, ListingStepFits

\* What is behind the last page was there when the games were counted.
LEMMA PagesKeepInv ==
  ASSUME ImportInv, ReadPage \/ CountGames \/ NextPage PROVE ImportInv'
<1>1. \A g \in DOMAIN archive : Rank(g) \in Nat /\ Rank(g) < Cardinality(DOMAIN archive)
  BY RankIsBelowCount DEF ImportInv
<1>2. /\ UNCHANGED <<command, existing, expectedAt, matched, sentRows, archive, serverVars, knownBefore>>
      /\ importStep \in {"page", "count", "game"}
      /\ DOMAIN listing' = {"offset", "total", "ids", "tries"} /\ importStep' \in {"page", "count", "game", "send"}
  BY DEF ReadPage, CountGames, NextPage, StartSending, serverVars, ImportInv, InOrderOfSteps, NoListing
<1>3. ExistingFits'
  BY <1>2 DEF ImportInv, ExistingFits, HashesOf, serverVars
<1>4. ~lostGame =>
        /\ listing.offset \in Nat
        /\ \A h \in knownBefore : \/ h \in DOMAIN existing
                                  \/ \E g \in DOMAIN archive : h \in HashesOf(g) /\ ToRead(g)
  BY <1>2 DEF ImportInv, ListingReads
<1>5. CASE ReadPage
  <2>1. /\ listing'.offset = listing.offset /\ listing'.ids = GamesPage(listing.offset)
        /\ importStep = "page" /\ importStep' = "count"
    BY <1>5 DEF ReadPage, ImportInv, InOrderOfSteps
  <2>2. ASSUME NEW g \in DOMAIN archive, ToRead(g), listing.offset \in Nat PROVE ToRead(g)'
    <3>1. Rank(g) >= listing.offset
      BY <2>1, <2>2 DEF ToRead
    <3>2. Rank(g) \in listing.offset .. listing.offset + ListLimit - 1 \/ Rank(g) >= listing.offset + ListLimit
      BY <1>1, <3>1, <2>2, ListLimitAssumption
    <3> QED BY <1>2, <2>1, <3>2, SameArchive DEF ToRead, GamesPage
  <2> QED
    <3>1. ListingReads' /\ ListingMissesNothing'
      BY <1>2, <1>4, <2>1, <2>2, SameArchive DEF ListingReads, ListingMissesNothing, serverVars
    <3> QED BY <1>2, <1>3, <2>1, <3>1, ListingStepFits
<1>6. CASE CountGames
  <2>1. /\ listing'.offset = listing.offset /\ listing'.ids = listing.ids /\ listing'.total = Cardinality(DOMAIN archive)
        /\ importStep = "count" /\ importStep' = "game"
    BY <1>6 DEF CountGames, ImportInv, InOrderOfSteps
  <2>2. ASSUME NEW g \in DOMAIN archive, ToRead(g), listing.offset \in Nat PROVE ToRead(g)'
    <3>1. g \in listing.ids \/ Rank(g) >= listing.offset + ListLimit
      BY <2>1, <2>2 DEF ToRead
    <3>2. Cardinality(DOMAIN archive) \in Nat
      BY ArchiveIsFinite, FS_CardinalityType DEF ImportInv
    <3>3. Rank(g) >= listing.offset + ListLimit => listing.offset + ListLimit < Cardinality(DOMAIN archive)
      BY <1>1, <2>2, <3>2, ListLimitAssumption
    <3> QED BY <1>2, <2>1, <3>1, <3>3, SameArchive DEF ToRead
  <2> QED
    <3>1. ListingReads' /\ ListingMissesNothing'
      BY <1>2, <1>4, <2>1, <2>2, SameArchive DEF ListingReads, ListingMissesNothing, serverVars
    <3> QED BY <1>2, <1>3, <2>1, <3>1, ListingStepFits
<1>7. CASE NextPage
  <2>1. /\ importStep = "game" /\ listing.ids = {}
        /\ \/ /\ listing.offset + ListLimit < listing.total /\ importStep' = "page"
              /\ listing'.offset = listing.offset + ListLimit
           \/ /\ ~(listing.offset + ListLimit < listing.total) /\ importStep' = "send"
    BY <1>7 DEF NextPage, StartSending, ImportInv, InOrderOfSteps
  <2>2. ASSUME NEW g \in DOMAIN archive, ToRead(g)
        PROVE  importStep' = "page" /\ ToRead(g)'
    BY <1>2, <2>1, <2>2, SameArchive DEF ToRead
  <2>3. listing.offset \in Nat => listing.offset + ListLimit \in Nat
    BY ListLimitAssumption
  <2> QED
    <3>1. ListingReads'
      BY <1>2, <1>4, <2>1, <2>2, <2>3, SameArchive DEF ListingReads, serverVars
    <3>2. ListingMissesNothing'
      BY <1>2, <1>4, <2>1, <2>2 DEF ListingMissesNothing, serverVars
    <3> QED BY <1>2, <1>3, <2>1, <3>1, <3>2, ListingStepFits
<1> QED BY <1>5, <1>6, <1>7

LEMMA ReadGameKeepsInv ==
  ASSUME ImportInv, ReadGame PROVE ImportInv'
<1> DEFINE g == Max(listing.ids)
<1>1. importStep = "game" /\ UNCHANGED <<command, expectedAt, matched, sentRows, serverVars, knownBefore>>
  BY DEF ReadGame
<1>2. CASE g \in DOMAIN archive
  <2>1. /\ existing' = [h \in DOMAIN existing \cup HashesOf(g) |-> IF h \in HashesOf(g) THEN g ELSE existing[h]]
        /\ listing' = [listing EXCEPT !.ids = @ \ {g}, !.tries = 0]
        /\ importStep' = importStep
    BY <1>2 DEF ReadGame
  <2> HIDE DEF g
  <2>2. /\ listing'.offset = listing.offset /\ listing'.ids = listing.ids \ {g} /\ listing'.total = listing.total
        /\ DOMAIN listing' = {"offset", "total", "ids", "tries"}
    BY <2>1 DEF ImportInv, InOrderOfSteps
  <2>3. ExistingFits'
    <3>1. g \in 0 .. nextId - 1
      BY <1>2 DEF ImportInv, IdsFresh
    <3> QED BY <1>1, <1>2, <2>1, <3>1 DEF ImportInv, ExistingFits, HashesOf, serverVars
  <2>4. \A x \in DOMAIN archive : ToRead(x) => ToRead(x)' \/ x = g
    BY <1>1, <2>1, <2>2, SameArchive DEF ToRead, serverVars
  <2>5. DOMAIN existing' = DOMAIN existing \cup HashesOf(g)
    BY <2>1
  <2>6. ListingReads'
    <3> SUFFICES ASSUME ~lostGame
                 PROVE  /\ listing'.offset \in Nat
                        /\ \A h \in knownBefore :
                             \/ h \in DOMAIN existing'
                             \/ \E x \in DOMAIN archive : h \in HashesOf(x) /\ ToRead(x)'
      BY <1>1, SameArchive DEF ListingReads, serverVars
    <3>1. /\ listing.offset \in Nat
          /\ \A h \in knownBefore : \/ h \in DOMAIN existing
                                    \/ \E x \in DOMAIN archive : h \in HashesOf(x) /\ ToRead(x)
      BY <1>1 DEF ImportInv, ListingReads
    <3> QED BY <2>2, <2>4, <2>5, <3>1
  <2>7. ListingMissesNothing'
    BY <1>1, <2>1 DEF ListingMissesNothing
  <2> QED BY <1>1, <2>1, <2>2, <2>3, <2>6, <2>7, ListingStepFits
<1>3. CASE g \notin DOMAIN archive
  BY <1>1, <1>3, FailureKeepsListing DEF ReadGame
<1> QED BY <1>2, <1>3

LEMMA AnswerKeepsInv ==
  ASSUME ImportInv, Sending, IdsFresh', ArchiveFits', ArchiveGrows, NEW result \in Results, Conclude(result),
         NEW g, OnlyGame(g), g \in DOMAIN archive => archive[g].game = Current.file.game,
         NEW i, i = expectedAt, result \in {"uploaded", "updated"} => RowIsIn(i)'
  PROVE  ImportInv'
<1>1. RowsAreImported'
  BY AnswerKeepsRows DEF ImportInv
<1>2. ExistingFits' /\ ListingReads' /\ ListingMissesNothing'
  BY GrowthKeepsListing DEF ImportInv, Conclude
<1>3. InOrderOfSteps'
  <2>1. /\ sentRows \in Seq(Results) /\ Len(sentRows) = expectedAt - 1 /\ importStep = "send"
        /\ expectedAt \in Nat \ {0} /\ expectedAt <= Len(matched) /\ matched \in Seq(MatchedRows)
    BY DEF ImportInv, InOrderOfSteps, Sending
  <2>2. /\ sentRows' = Append(sentRows, result) /\ expectedAt' = expectedAt + 1
        /\ UNCHANGED <<importStep, matched, listing, existing>>
    BY DEF Conclude
  <2>3. Append(sentRows, result) \in Seq(Results) /\ Len(Append(sentRows, result)) = Len(sentRows) + 1
    BY <2>1, AppendProperties
  <2> QED BY <2>1, <2>2, <2>3 DEF ImportInv, InOrderOfSteps, ImportSteps
<1> QED BY <1>1, <1>2, <1>3 DEF ImportInv

\* A request that changes nothing, or is not sent.
LEMMA NothingSentKeepsInv ==
  ASSUME ImportInv, Sending, UNCHANGED <<archive, nextId>>,
         NEW result \in Results \ {"uploaded", "updated"}, Conclude(result)
  PROVE  ImportInv'
<1>1. IdsFresh' /\ ArchiveFits' /\ ArchiveGrows /\ OnlyGame(nextId)
  BY DEF ImportInv, IdsFresh, ArchiveFits, ArchiveGrows, OnlyGame
<1>2. nextId \notin DOMAIN archive
  BY DEF ImportInv, IdsFresh
<1> QED BY <1>1, <1>2, AnswerKeepsInv

LEMMA CurrentIsRecording ==
  ASSUME ImportInv, Sending PROVE Current.file \in Autosaves /\ Current = matched[expectedAt]
<1>1. /\ matched \in Seq(MatchedRows) /\ expectedAt \in Nat \ {0} /\ expectedAt <= Len(matched)
      /\ Current = matched[expectedAt]
  BY DEF ImportInv, InOrderOfSteps, Sending, Current
<1>2. matched[expectedAt] \in MatchedRows
  BY <1>1
<1> QED BY <1>1, <1>2 DEF MatchedRows

LEMMA UpdateKeepsInv ==
  ASSUME ImportInv, updateGameSeason PROVE ImportInv'
<1> DEFINE g == existing[Current.file.hash]
           season == SeasonOf(Expected[Current.row])
<1>1. Sending /\ Known /\ g > 0 /\ nextId' = nextId
  BY DEF updateGameSeason
<1>2. CASE g \notin DOMAIN archive
  <2>1. archive' = archive /\ Conclude("failed")
    BY <1>2 DEF updateGameSeason
  <2> QED BY <1>1, <2>1, NothingSentKeepsInv DEF Results
<1>3. CASE g \in DOMAIN archive
  <2>1. SetsSeason(g, season) /\ \E result \in {"updated", "failed"} : Conclude(result)
    BY <1>3 DEF updateGameSeason
  <2>2. archive[g].game = Current.file.game /\ Current.file.hash \in HashesOf(g)
    <3>1. Current.file.hash \in HashesOf(g)
      BY <1>1, <1>3 DEF ImportInv, ExistingFits, Known
    <3>2. RowFits(archive[g])
      BY <1>3 DEF ImportInv, ArchiveFits
    <3> QED BY <1>1, <3>1, <3>2, CurrentIsRecording DEF RowFits, HashesOf
  <2> HIDE DEF g, season
  <2>3. /\ IdsFresh' /\ ArchiveFits' /\ ArchiveGrows /\ OnlyGame(g)
        /\ g \in DOMAIN archive' /\ archive'[g].season = season
    BY <1>1, <1>3, <2>1, SeasonSetFits DEF ImportInv
  <2>4. PICK result \in {"updated", "failed"} : Conclude(result)
    BY <2>1
  <2>5. ASSUME NEW i, i = expectedAt PROVE RowIsIn(i)'
    <3>1. matched' = matched /\ Expected' = Expected
      BY <2>4 DEF Conclude, Expected
    <3>2. archive'[g].game = matched[i].file.game /\ archive[g].files \subseteq archive'[g].files
      BY <1>1, <1>3, <2>2, <2>3, <2>5, CurrentIsRecording DEF ArchiveGrows
    <3>3. \E f \in archive'[g].files : f.hash = matched[i].file.hash
      BY <1>1, <2>2, <2>5, <3>2, CurrentIsRecording DEF HashesOf
    <3>4. season = SeasonOf(Expected[matched[i].row])
      BY <1>1, <2>5, CurrentIsRecording DEF season
    <3> QED BY <2>3, <3>1, <3>2, <3>3, <3>4 DEF RowIsIn
  <2> QED BY <1>1, <2>2, <2>3, <2>4, <2>5, AnswerKeepsInv DEF Results
<1> QED BY <1>2, <1>3

LEMMA UploadKeepsInv ==
  ASSUME ImportInv, uploadReplay PROVE ImportInv'
<1> DEFINE c == Current.file
           season == SeasonOf(Expected[Current.row])
<1>1. Sending /\ c \in Autosaves
  BY CurrentIsRecording DEF uploadReplay
<1>2. CASE ~(Expected[Current.row].game.no > 0)
  BY <1>1, <1>2, NothingSentKeepsInv DEF uploadReplay, Results
<1>3. CASE Expected[Current.row].game.no > 0
  <2>1. Serve(c, c.auto, season) /\ \E result \in {"uploaded", "failed"} : Conclude(result)
    BY <1>3 DEF uploadReplay
  <2>2. season # <<>>
    BY DEF SeasonOf
  <2> HIDE DEF season
  <2>3. IdsFresh' /\ ArchiveFits' /\ ArchiveGrows
    BY <1>1, <2>1, ServeFits DEF ImportInv
  <2>4. PICK g \in DOMAIN archive' :
               /\ OnlyGame(g)
               /\ archive'[g].game = c.game
               /\ archive'[g].season = season
               /\ \E f \in archive'[g].files : f.by = c.auto \/ f.hash = c.hash
    BY <1>1, <2>1, <2>2, ServeFits DEF ImportInv
  <2>5. PICK result \in {"uploaded", "failed"} : Conclude(result)
    BY <2>1
  <2>6. ASSUME NEW i, i = expectedAt PROVE RowIsIn(i)'
    <3>1. matched' = matched /\ Expected' = Expected
      BY <2>5 DEF Conclude, Expected
    <3>2. c = matched[i].file /\ season = SeasonOf(Expected[matched[i].row])
      BY <1>1, <2>6, CurrentIsRecording DEF season
    <3> HIDE DEF c
    <3> QED BY <2>4, <3>1, <3>2 DEF RowIsIn
  <2>7. g \in DOMAIN archive => archive[g].game = c.game
    BY <2>3, <2>4 DEF ArchiveGrows
  <2> QED BY <1>1, <2>3, <2>4, <2>5, <2>6, <2>7, AnswerKeepsInv DEF Results
<1> QED BY <1>2, <1>3

\* Another client writes the games of one recording: rows of others stay in.
LEMMA OthersKeepRows ==
  ASSUME ImportInv, NEW game, OthersWrite(game),
         \A x \in DOMAIN archive : archive[x].game # game => x \in DOMAIN archive' /\ archive'[x] = archive[x]
  PROVE  InOrderOfSteps' /\ RowsAreImported'
<1>1. /\ UNCHANGED <<command, importStep, expectedAt, matched, listing, existing, sentRows, knownBefore>>
      /\ changedRows' = changedRows \cup {k \in DOMAIN sentRows : matched[k].file.game = game}
  BY DEF OthersWrite
<1>2. InOrderOfSteps'
  BY <1>1 DEF ImportInv, InOrderOfSteps
<1>3. RowsAreImported'
  <2> SUFFICES ASSUME NEW k \in DOMAIN sentRows' \ changedRows', sentRows'[k] \in {"uploaded", "updated"},
                      StandsAlone(k)'
               PROVE  RowIsIn(k)'
    BY Zenon DEF RowsAreImported, StandsAlone, RowIsIn
  <2>1. k \in DOMAIN sentRows \ changedRows /\ matched[k].file.game # game
    BY <1>1
  <2>2. RowIsIn(k)
    BY <1>1, <2>1, RowsOneByOne DEF ImportInv, StandsAlone
  <2>3. \A x \in DOMAIN archive :
           archive[x].game = matched[k].file.game => x \in DOMAIN archive' /\ archive'[x] = archive[x]
    BY <2>1
  <2> QED BY <1>1, <2>2, <2>3, RowStaysIn
<1> QED BY <1>2, <1>3

LEMMA OthersUploadKeepsInv ==
  ASSUME ImportInv, OthersUpload PROVE ImportInv'
<1>1. PICK o \in Others : Serve(o.file, o.by, o.season) /\ OthersWrite(o.file.game)
  BY DEF OthersUpload
<1>2. o.file \in Autosaves
  BY OthersAssumption
<1>3. IdsFresh' /\ ArchiveFits' /\ ArchiveGrows
  BY <1>1, <1>2, ServeFits DEF ImportInv
<1>4. PICK g \in DOMAIN archive' : OnlyGame(g) /\ archive'[g].game = o.file.game
  BY <1>1, <1>2, ServeFits DEF ImportInv
<1>5. UNCHANGED <<command, importStep, listing, existing, knownBefore, lostGame>>
  BY <1>1 DEF OthersUpload, OthersWrite
<1>6. ExistingFits' /\ ListingReads' /\ ListingMissesNothing'
  BY <1>3, <1>5, GrowthKeepsListing DEF ImportInv
<1>7. ASSUME NEW x \in DOMAIN archive, archive[x].game # o.file.game
      PROVE  x \in DOMAIN archive' /\ archive'[x] = archive[x]
  BY <1>3, <1>4, <1>7 DEF ArchiveGrows, OnlyGame
<1>8. InOrderOfSteps' /\ RowsAreImported'
  BY <1>1, <1>7, OthersKeepRows
<1> QED BY <1>3, <1>6, <1>8 DEF ImportInv

LEMMA OthersSetSeasonKeepsInv ==
  ASSUME ImportInv, OthersSetSeason PROVE ImportInv'
<1>1. PICK g \in DOMAIN archive, o \in Others :
        SetsSeason(g, o.season) /\ OthersWrite(archive[g].game) /\ UNCHANGED <<nextId, lostGame>>
  BY DEF OthersSetSeason
<1>2. IdsFresh' /\ ArchiveFits' /\ ArchiveGrows /\ OnlyGame(g)
  BY <1>1, SeasonSetFits DEF ImportInv
<1>3. UNCHANGED <<command, importStep, listing, existing, knownBefore, lostGame>>
  BY <1>1 DEF OthersWrite
<1>4. ExistingFits' /\ ListingReads' /\ ListingMissesNothing'
  BY <1>2, <1>3, GrowthKeepsListing DEF ImportInv
<1>5. \A x \in DOMAIN archive : archive[x].game # archive[g].game => x \in DOMAIN archive' /\ archive'[x] = archive[x]
  BY <1>2 DEF ArchiveGrows, OnlyGame
<1>6. InOrderOfSteps' /\ RowsAreImported'
  BY <1>1, <1>5, OthersKeepRows
<1> QED BY <1>2, <1>4, <1>6 DEF ImportInv

\* After a deletion the listing promises nothing before the command is run again.
LEMMA OthersDeleteKeepsInv ==
  ASSUME ImportInv, OthersDelete PROVE ImportInv'
<1>1. PICK g \in DOMAIN archive : /\ archive' = [x \in DOMAIN archive \ {g} |-> archive[x]]
                                 /\ OthersWrite(archive[g].game)
  BY DEF OthersDelete
<1>2. UNCHANGED <<existing, nextId>> /\ lostGame'
  BY <1>1 DEF OthersDelete, OthersWrite
<1>3. IdsFresh' /\ ArchiveFits'
  BY <1>1, <1>2 DEF ImportInv, IdsFresh, ArchiveFits
<1>4. ExistingFits' /\ ListingReads' /\ ListingMissesNothing'
  BY <1>1, <1>2 DEF ImportInv, ExistingFits, HashesOf, ListingReads, ListingMissesNothing
<1>5. \A x \in DOMAIN archive : archive[x].game # archive[g].game => x \in DOMAIN archive' /\ archive'[x] = archive[x]
  BY <1>1
<1>6. InOrderOfSteps' /\ RowsAreImported'
  BY <1>1, <1>5, OthersKeepRows
<1> QED BY <1>3, <1>4, <1>6 DEF ImportInv

LEMMA ImportInvStep == ImportInv /\ [ImportNext]_importVars => ImportInv'
<1> SUFFICES ASSUME ImportInv, [ImportNext]_importVars PROVE ImportInv'
  OBVIOUS
<1>1. CASE MatchRow
  BY <1>1, MatchKeepsInv
<1>2. CASE StartListing \/ RunAgain
  BY <1>2, StartKeepsInv, RunAgainKeepsInv
<1>3. CASE FastListing
  BY <1>3, FastListingKeepsInv
<1>4. CASE ListingFails
  BY <1>4, FailureKeepsListing DEF ListingFails
<1>5. CASE ReadPage \/ CountGames \/ NextPage
  BY <1>5, PagesKeepInv
<1>6. CASE ReadGame
  BY <1>6, ReadGameKeepsInv
<1>7. CASE updateGameSeason
  BY <1>7, UpdateKeepsInv
<1>8. CASE uploadReplay
  BY <1>8, UploadKeepsInv
<1>9. CASE SkipKnown
  BY <1>9, NothingSentKeepsInv DEF SkipKnown, Results
<1>10. CASE RequestFails
  BY <1>10, NothingSentKeepsInv DEF RequestFails, Results
<1>11. CASE Report
  BY <1>11 DEF Report, serverVars, ImportInv, InOrderOfSteps, ImportSteps, IdsFresh, ArchiveFits, ExistingFits,
               HashesOf, ListingReads, ListingMissesNothing, RowsAreImported, Expected
<1>12. CASE importStep \in {"hashes", "page", "count", "game", "send"} /\ (OthersUpload \/ OthersSetSeason \/ OthersDelete)
  BY <1>12, OthersUploadKeepsInv, OthersSetSeasonKeepsInv, OthersDeleteKeepsInv
<1>13. CASE UNCHANGED importVars
  <2>1. UNCHANGED <<command, importStep, expectedAt, matched, listing, existing, sentRows, archive, nextId,
                    knownBefore, lostGame, changedRows>>
    BY <1>13 DEF importVars
  <2>2. ListingReads'
    BY <2>1, SameArchive DEF ImportInv, ListingReads, ToRead
  <2> QED BY <2>1, <2>2 DEF ImportInv, InOrderOfSteps, IdsFresh, ArchiveFits, ExistingFits, HashesOf,
                            ListingMissesNothing, RowsAreImported, Expected
<1> QED BY <1>1, <1>2, <1>3, <1>4, <1>5, <1>6, <1>7, <1>8, <1>9, <1>10, <1>11, <1>12, <1>13 DEF ImportNext

THEOREM ImportInvHolds == ImportSpec => []ImportInv
BY ImportInitially, ImportInvStep, PTL DEF ImportSpec

\* However the hashes were listed, page by page or at once, with whatever failed and was
\* uploaded meanwhile, and however often the command is run: no file of before is taken for
\* a new one; and a row that is reported as sent is in the archive with its season, until
\* another client deletes its game, sets its season or uploads a recording of it, if no other
\* row names it.
THEOREM ImportAlwaysTakesEffect == ImportSpec => []ImportTakesEffect
<1>1. ImportInv => ImportTakesEffect
  BY DEF ImportInv, ImportTakesEffect
<1> QED BY <1>1, ImportInvHolds, PTL

-----------------------------------------------------------------------------
(* The sheet: what is expected is a sequence of games in the order of its rows. *)

\* A property of every number up to n, from each to the next.
LEMMA UpTo ==
  ASSUME NEW n \in Nat, NEW Bad \in SUBSET (0 .. n), 0 \notin Bad,
         \A i \in 1 .. n : i - 1 \notin Bad => i \notin Bad
  PROVE  Bad = {}
<1> SUFFICES ASSUME Bad # {} PROVE FALSE
  OBVIOUS
<1>1. PICK m \in Bad : \A k \in Bad : m <= k
  BY LeastNumber
<1>2. m \in 1 .. n /\ ~(m <= m - 1)
  OBVIOUS
<1> QED BY <1>1, <1>2

\* What has been read after each row, up to row n.
ReadUpTo(read, sheet, n) ==
  read = [i \in 0 .. n |-> IF i = 0 THEN NothingRead ELSE ReadRow(read[i - 1], sheet[i])]

LEMMA ReadExists ==
  ASSUME NEW sheet, NEW n \in Nat
  PROVE  \E read : ReadUpTo(read, sheet, n)
<1> DEFINE Bad == {k \in 0 .. n : ~\E read : ReadUpTo(read, sheet, k)}
<1>1. \E read : ReadUpTo(read, sheet, 0)
  <2> DEFINE read == [i \in 0 .. 0 |-> NothingRead]
  <2>1. \A i \in 0 .. 0 : i = 0
    OBVIOUS
  <2>2. ReadUpTo(read, sheet, 0)
    BY <2>1 DEF ReadUpTo
  <2> QED BY <2>2
<1>2. ASSUME NEW k \in 1 .. n, NEW old, ReadUpTo(old, sheet, k - 1) PROVE \E read : ReadUpTo(read, sheet, k)
  <2> DEFINE read == [i \in 0 .. k |-> IF i = k THEN ReadRow(old[k - 1], sheet[k]) ELSE old[i]]
  <2>1. \A i \in 0 .. k : i = k \/ i \in 0 .. k - 1
    OBVIOUS
  <2>2. \A i \in 1 .. k - 1 : i \in 0 .. k - 1 /\ i - 1 \in 0 .. k - 1 /\ i # k /\ i - 1 # k
    OBVIOUS
  <2>3. k \in Nat \ {0} /\ k - 1 \in 0 .. k /\ k - 1 # k /\ 0 # k /\ 0 \in 0 .. k - 1 /\ 0 \in 0 .. k
    OBVIOUS
  <2>4. old[0] = NothingRead /\ \A i \in 1 .. k - 1 : old[i] = ReadRow(old[i - 1], sheet[i])
    BY <1>2, <2>2, <2>3 DEF ReadUpTo
  <2>5. read[0] = NothingRead /\ read[k] = ReadRow(old[k - 1], sheet[k]) /\ read[k - 1] = old[k - 1]
    BY <2>3, <2>4
  <2>6. \A i \in 1 .. k - 1 : read[i] = old[i] /\ read[i - 1] = old[i - 1]
    BY <2>2
  <2>7. \A i \in 0 .. k : i = 0 \/ i = k \/ i \in 1 .. k - 1
    OBVIOUS
  <2>8. read = [i \in 0 .. k |-> read[i]]
    OBVIOUS
  <2> HIDE DEF read
  <2>9. \A i \in 0 .. k : read[i] = IF i = 0 THEN NothingRead ELSE ReadRow(read[i - 1], sheet[i])
    BY <2>3, <2>4, <2>5, <2>6, <2>7
  <2>10. ReadUpTo(read, sheet, k)
    BY <2>8, <2>9 DEF ReadUpTo
  <2> QED BY <2>10
<1>3. Bad = {}
  <2>1. Bad \in SUBSET (0 .. n) /\ 0 \notin Bad
    BY <1>1
  <2>2. ASSUME NEW i \in 1 .. n, i - 1 \notin Bad PROVE i \notin Bad
    <3>1. i - 1 \in 0 .. n
      OBVIOUS
    <3> QED BY <1>2, <2>2, <3>1
  <2> HIDE DEF Bad
  <2> QED BY <2>1, <2>2, UpTo
<1>4. n \in 0 .. n
  OBVIOUS
<1> QED BY <1>3, <1>4

Dates == Int \cup {NoDate}

\* The games read so far, with their dates.
IsRead(read) ==
  /\ DOMAIN read = DOMAIN NothingRead
  /\ read.date \in Dates
  /\ \E S : read.games \in Seq(S) /\ \A g \in S : g.date \in Dates

LEMMA ReadStarts == IsRead(NothingRead)
<1>1. <<>> \in Seq({}) /\ \A g \in {} : g.date \in Dates
  OBVIOUS
<1>2. NothingRead.games = <<>> /\ NothingRead.date = NoDate
  BY DEF NothingRead
<1> QED BY <1>1, <1>2 DEF IsRead, Dates

LEMMA ReadGoesOn ==
  ASSUME NEW read, IsRead(read), NEW row, row.kind \in {"season", "teams", "game"},
         row.kind # "season" /\ row.date \notin {NoDate, UnknownDate} =>
            \A year \in {row.date.year, 2025, 2026} : DayNumber(year, row.date.month, row.date.day) \in Int
  PROVE  IsRead(ReadRow(read, row))
<1>1. read.date \in Dates /\ DOMAIN read = DOMAIN NothingRead
  BY DEF IsRead
<1>2. row.kind # "season" => normalizeDate(row.date, read.no) \in Dates
  BY DEF normalizeDate, Dates
<1>3. DOMAIN NothingRead = {"season", "no", "date", "a", "b", "games"}
  BY DEF NothingRead
<1> DEFINE date == IF normalizeDate(row.date, read.no) # NoDate THEN normalizeDate(row.date, read.no) ELSE read.date
<1>4. row.kind # "season" => date \in Dates
  BY <1>1, <1>2
<1>5. CASE row.kind = "season"
  <2>1. ReadRow(read, row) = [read EXCEPT !.season = row.label, !.no = row.no, !.date = NoDate]
    BY <1>5 DEF ReadRow
  <2>2. ReadRow(read, row).games = read.games /\ ReadRow(read, row).date = NoDate
    BY <1>1, <1>3, <2>1
  <2> QED BY <1>1, <2>1, <2>2 DEF IsRead, Dates
<1>6. CASE row.kind = "teams"
  <2>1. ReadRow(read, row) = [read EXCEPT !.a = row.a, !.b = row.b, !.date = date]
    BY <1>6 DEF ReadRow
  <2> HIDE DEF date
  <2>2. ReadRow(read, row).games = read.games /\ ReadRow(read, row).date = date
    BY <1>1, <1>3, <2>1
  <2> QED BY <1>1, <1>4, <1>6, <2>1, <2>2 DEF IsRead
<1>7. CASE row.kind = "game"
  <2> DEFINE new == GameOf(read, row)
             early == read.season = "" \/ read.a = <<>>
             list == IF early THEN read.games ELSE Append(read.games, new)
  <2>1. ReadRow(read, row) = [read EXCEPT !.date = date, !.games = list]
    BY <1>7 DEF ReadRow
  <2>2. new.date \in Dates
    BY <1>1, <1>2, <1>7 DEF GameOf, Dates
  <2> HIDE DEF new, early
  <2>3. \E S : list \in Seq(S) /\ \A g \in S : g.date \in Dates
    <3>1. PICK S : read.games \in Seq(S) /\ \A g \in S : g.date \in Dates
      BY DEF IsRead
    <3> DEFINE T == S \cup {new}
    <3>3. read.games \in Seq(T) /\ new \in T /\ \A g \in T : g.date \in Dates
      BY <2>2, <3>1
    <3> HIDE DEF T
    <3>4. Append(read.games, new) \in Seq(T)
      BY <3>3
    <3>5. list \in Seq(T)
      BY <3>3, <3>4
    <3> HIDE DEF list
    <3> QED BY <3>3, <3>5
  <2> HIDE DEF date, list
  <2>4. ReadRow(read, row).games = list /\ ReadRow(read, row).date = date
    BY <1>1, <1>3, <2>1
  <2> QED BY <1>1, <1>4, <1>7, <2>1, <2>3, <2>4 DEF IsRead
<1> QED BY <1>5, <1>6, <1>7

LEMMA GamesAreRead ==
  ASSUME NEW r \in ImportRuns
  PROVE  \E S : parseSeasonCSV(r.sheet) \in Seq(S) /\ \A g \in S : g.date \in Dates
<1> DEFINE sheet == r.sheet
           n == Len(sheet)
<1>1. /\ sheet \in Seq(Range(sheet)) /\ n \in Nat
      /\ \A row \in Range(sheet) :
           /\ row.kind \in {"season", "teams", "game"}
           /\ row.kind # "season" /\ row.date \notin {NoDate, UnknownDate} =>
                \A year \in {row.date.year, 2025, 2026} : DayNumber(year, row.date.month, row.date.day) \in Int
  <2>1. sheet \in Seq(Range(sheet))
    BY SheetsAssumption
  <2>2. n \in Nat
    BY <2>1
  <2> QED BY <2>1, <2>2, SheetsAssumption
<1>2. \A i \in 1 .. n : sheet[i] \in Range(sheet)
  <2> DEFINE S == Range(sheet)
  <2>1. sheet \in Seq(S)
    BY <1>1
  <2> HIDE DEF S
  <2>2. \A i \in 1 .. n : sheet[i] \in S
    BY <2>1
  <2> QED BY <2>2 DEF S
<1> HIDE DEF sheet, n
<1>3. PICK read : read = CHOOSE x : ReadUpTo(x, sheet, n)
  OBVIOUS
<1>4. ReadUpTo(read, sheet, n)
  <2>1. \E x : ReadUpTo(x, sheet, n)
    <3>1. n \in Nat
      BY <1>1
    <3> QED BY <3>1, ReadExists, Zenon
  <2> QED BY <1>3, <2>1, Zenon
<1>5. parseSeasonCSV(sheet) = read[n].games
  BY <1>3, Zenon DEF parseSeasonCSV, ReadUpTo, n
<1> DEFINE Bad == {i \in 0 .. n : ~IsRead(read[i])}
<1>6. IsRead(read[0])
  <2>1. 0 \in 0 .. n
    BY <1>1
  <2>2. read[0] = NothingRead
    BY <1>4, <2>1 DEF ReadUpTo
  <2> QED BY <2>2, ReadStarts
<1>7. ASSUME NEW i \in 1 .. n, IsRead(read[i - 1]) PROVE IsRead(read[i])
  <2>1. i \in 0 .. n /\ i # 0
    BY <1>1
  <2>2. read[i] = ReadRow(read[i - 1], sheet[i])
    BY <1>4, <2>1 DEF ReadUpTo
  <2> QED BY <1>1, <1>2, <1>7, <2>2, ReadGoesOn
<1>8. Bad = {}
  <2>1. Bad \in SUBSET (0 .. n) /\ 0 \notin Bad
    BY <1>6
  <2>2. ASSUME NEW i \in 1 .. n, i - 1 \notin Bad PROVE i \notin Bad
    <3>1. i - 1 \in 0 .. n
      BY <1>1
    <3> QED BY <1>7, <2>2, <3>1
  <2> HIDE DEF Bad
  <2>3. n \in Nat
    BY <1>1
  <2> QED BY <2>1, <2>2, <2>3, UpTo
<1>9. n \in 0 .. n
  BY <1>1
<1>10. IsRead(read[n])
  BY <1>8, <1>9
<1> QED BY <1>5, <1>10 DEF IsRead, sheet

-----------------------------------------------------------------------------
(* The rows of a sheet that is in order. *)

\* All rows are of one season, and their dates, where they have one, go up.
LEMMA GamesInOrder ==
  ASSUME command \in ImportRuns, InOrder
  PROVE  \E rows :
           /\ Expected = attachDateHints(rows)
           /\ DOMAIN rows = 1 .. Len(rows) /\ Len(rows) \in Nat
           /\ \A i \in 1 .. Len(rows) : rows[i].date = NoDate \/ rows[i].date \in Int
           /\ \A i, j \in 1 .. Len(rows) : rows[i].season = rows[j].season
           /\ \A i, j \in 1 .. Len(rows) :
                rows[i].date # NoDate /\ rows[j].date # NoDate /\ i <= j => rows[i].date <= rows[j].date
<1> DEFINE rows == parseSeasonCSV(command.sheet)
<1>1. Expected = attachDateHints(rows)
  BY Zenon DEF Expected, ExpectedOf
<1>2. \E S : rows \in Seq(S) /\ \A g \in S : g.date \in Dates
  BY GamesAreRead
<1> HIDE DEF rows
<1>3. /\ DOMAIN rows = 1 .. Len(rows) /\ Len(rows) \in Nat
      /\ \A i \in 1 .. Len(rows) : rows[i].date = NoDate \/ rows[i].date \in Int
  BY <1>2 DEF Dates
<1>4. DOMAIN Expected = 1 .. Len(rows) /\ \A i \in 1 .. Len(rows) : Expected[i].game = rows[i]
  BY <1>1, <1>3 DEF attachDateHints
<1>5. \A i, j \in 1 .. Len(rows) : rows[i].season = rows[j].season
  BY <1>4 DEF InOrder
<1>6. \A i, j \in 1 .. Len(rows) :
         rows[i].date # NoDate /\ rows[j].date # NoDate /\ i <= j => rows[i].date <= rows[j].date
  BY <1>4 DEF InOrder
<1> QED BY <1>1, <1>3, <1>5, <1>6

\* What bounds an undated row: the nearest rows with a date.
LEMMA BoundsOfRow ==
  ASSUME NEW rows, NEW n \in Nat, DOMAIN rows = 1 .. n, n = Len(rows),
         \A i, j \in 1 .. n : rows[i].season = rows[j].season,
         NEW i \in 1 .. n, rows[i].date = NoDate, NEW exp, exp = attachDateHints(rows)[i]
  PROVE  /\ \/ exp.previous = NoDate
            \/ \E k \in 1 .. n : rows[k].date # NoDate /\ exp.previous = rows[k].date
         /\ (\E j \in 1 .. n : i < j /\ rows[j].date # NoDate) =>
              \E k \in 1 .. n : /\ i < k /\ rows[k].date # NoDate /\ exp.next = rows[k].date
                                /\ \A j \in 1 .. n : i < j /\ rows[j].date # NoDate => k <= j
         /\ (\A j \in 1 .. n : i < j => rows[j].date = NoDate) => exp.next = NoDate
<1> DEFINE earlier == DatedIn(rows, i, 1 .. i - 1)
           later == DatedIn(rows, i, i + 1 .. n)
<1>1. /\ exp.previous = IF earlier = {} THEN NoDate ELSE rows[Max(earlier)].date
      /\ exp.next = IF later = {} THEN NoDate ELSE rows[Min(later)].date
  BY DEF attachDateHints
<1>2. earlier \subseteq 1 .. n /\ \A j \in earlier : rows[j].date # NoDate
  BY DEF DatedIn
<1>3. later = {j \in i + 1 .. n : rows[j].date # NoDate}
  BY DEF DatedIn
<1>4. earlier # {} => Max(earlier) \in earlier
  <2> SUFFICES ASSUME earlier # {} PROVE Max(earlier) \in earlier
    OBVIOUS
  <2>1. IsFiniteSet(1 .. n)
    BY FS_Interval
  <2>2. IsFiniteSet(earlier)
    BY <1>2, <2>1, FS_Subset
  <2> HIDE DEF earlier
  <2>3. PICK m \in earlier : \A j \in earlier : (0 - m) <= (0 - j)
    <3> DEFINE value == [j \in earlier |-> 0 - j]
    <3>1. \A j \in earlier : value[j] \in Int
      BY <1>2
    <3>2. \E m \in earlier : \A j \in earlier : value[m] <= value[j]
      <4> HIDE DEF value
      <4> QED BY <2>2, <3>1, LeastOfFinite
    <3> QED BY <3>2
  <2>4. \A j \in earlier : m >= j
    BY <1>2, <2>3
  <2> QED BY <2>4 DEF Max
<1>5. later # {} => Min(later) \in later /\ \A j \in later : Min(later) <= j
  <2> SUFFICES ASSUME later # {} PROVE Min(later) \in later /\ \A j \in later : Min(later) <= j
    OBVIOUS
  <2>1. later \in SUBSET Nat
    BY <1>3
  <2> HIDE DEF later
  <2>2. \E m \in later : \A j \in later : m <= j
    BY <2>1, LeastNumber
  <2> QED BY <2>2 DEF Min
<1> HIDE DEF earlier, later
<1>6. exp.previous = NoDate \/ \E k \in 1 .. n : rows[k].date # NoDate /\ exp.previous = rows[k].date
  BY <1>1, <1>2, <1>4
<1>7. ASSUME NEW j \in 1 .. n, i < j, rows[j].date # NoDate
      PROVE  \E k \in 1 .. n : /\ i < k /\ rows[k].date # NoDate /\ exp.next = rows[k].date
                               /\ \A x \in 1 .. n : i < x /\ rows[x].date # NoDate => k <= x
  <2>1. \A x \in 1 .. n : i < x /\ rows[x].date # NoDate => x \in later
    BY <1>3
  <2>2. later # {} /\ exp.next = rows[Min(later)].date
    BY <1>1, <1>7, <2>1
  <2>3. Min(later) \in 1 .. n /\ i < Min(later) /\ rows[Min(later)].date # NoDate
    BY <1>3, <1>5, <2>2
  <2> QED BY <1>5, <2>1, <2>2, <2>3
<1>8. ASSUME \A j \in 1 .. n : i < j => rows[j].date = NoDate PROVE exp.next = NoDate
  <2>1. later = {}
    BY <1>3, <1>8
  <2> QED BY <1>1, <2>1
<1> QED BY <1>6, <1>7, <1>8

\* Of a sheet in order: a file that is not before one that fits a later row fits this row, too,
\* when it fits an earlier one.
LEMMA RowsInOrder ==
  ASSUME command \in ImportRuns, InOrder, NEW c \in Autosaves, NEW d \in Autosaves, c.start <= d.start,
         NEW r \in DOMAIN Expected, NEW s \in DOMAIN Expected, r < s,
         WithinDate(Expected[s], c), WithinDate(Expected[r], d)
  PROVE  WithinDate(Expected[s], d)
<1>1. PICK rows :
        /\ Expected = attachDateHints(rows)
        /\ DOMAIN rows = 1 .. Len(rows) /\ Len(rows) \in Nat
        /\ \A i \in 1 .. Len(rows) : rows[i].date = NoDate \/ rows[i].date \in Int
        /\ \A i, j \in 1 .. Len(rows) : rows[i].season = rows[j].season
        /\ \A i, j \in 1 .. Len(rows) :
             rows[i].date # NoDate /\ rows[j].date # NoDate /\ i <= j => rows[i].date <= rows[j].date
  BY GamesInOrder
<1> DEFINE n == Len(rows)
           a == DayOf(c)
           b == DayOf(d)
           D(i) == rows[i].date
<1>2. a \in Int /\ b \in Int /\ a <= b
  <2>1. c.start \in Int /\ d.start \in Int
    BY AutosavesAssumption
  <2>2. \A x, y \in Int : x <= y => x \div (24 * 60) <= y \div (24 * 60)
    OBVIOUS
  <2>3. \A x \in Int : x \div (24 * 60) \in Int
    OBVIOUS
  <2> QED BY <2>1, <2>2, <2>3 DEF DayOf
<1>3. DOMAIN Expected = 1 .. n /\ \A i \in 1 .. n : Expected[i].game = rows[i]
  BY <1>1 DEF attachDateHints
<1>4. n \in Nat /\ r \in 1 .. n /\ s \in 1 .. n
  BY <1>1, <1>3
<1>5. \A i \in 1 .. n : D(i) = NoDate \/ D(i) \in Int
  BY <1>1
<1> HIDE DEF a, b
\* What comes after s bounds d from above.
<1>6. ASSUME NEW k \in 1 .. n, s <= k, D(k) # NoDate PROVE b <= D(k) + 1
  <2>1. CASE D(r) # NoDate
    <3>1. Distance(b, D(r)) <= 1
      BY <1>3, <1>4, <2>1 DEF WithinDate, b
    <3>2. D(r) <= D(k)
      BY <1>1, <1>4, <1>6, <2>1
    <3> QED BY <1>2, <1>4, <1>5, <1>6, <2>1, <3>1, <3>2 DEF Distance
  <2>2. CASE D(r) = NoDate
    <3>1. PICK m \in 1 .. n :
            /\ r < m /\ D(m) # NoDate /\ Expected[r].next = D(m)
            /\ \A j \in 1 .. n : r < j /\ D(j) # NoDate => m <= j
      <4>1. /\ Expected[r] = attachDateHints(rows)[r] /\ DOMAIN rows = 1 .. n /\ n = Len(rows) /\ n \in Nat
            /\ rows[r].date = NoDate /\ r \in 1 .. n
            /\ \A i, j \in 1 .. n : rows[i].season = rows[j].season
        BY <1>1, <1>4, <2>2, Zenon
      <4>2. r < k /\ rows[k].date # NoDate
        BY <1>4, <1>6
      <4> HIDE DEF n
      <4>3. ASSUME NEW exp, exp = Expected[r]
            PROVE  /\ \/ exp.previous = NoDate
                      \/ \E m \in 1 .. n : rows[m].date # NoDate /\ exp.previous = rows[m].date
                   /\ (\E j \in 1 .. n : r < j /\ rows[j].date # NoDate) =>
                        \E m \in 1 .. n : /\ r < m /\ rows[m].date # NoDate /\ exp.next = rows[m].date
                                          /\ \A j \in 1 .. n : r < j /\ rows[j].date # NoDate => m <= j
                   /\ (\A j \in 1 .. n : r < j => rows[j].date = NoDate) => exp.next = NoDate
        <5> HIDE DEF D
        <5> QED BY <4>1, <4>3, BoundsOfRow
      <4> QED BY <4>2, <4>3
    <3>2. b <= D(m) + 1
      BY <1>3, <1>4, <2>2, <3>1 DEF WithinDate, candidateWithinDateHints, b
    <3>3. m <= k /\ D(m) <= D(k)
      BY <1>1, <1>4, <1>6, <3>1
    <3> QED BY <1>2, <1>5, <1>6, <3>1, <3>2, <3>3
  <2> QED BY <2>1, <2>2
<1>7. CASE D(s) # NoDate
  <2>1. Distance(a, D(s)) <= 1
    BY <1>3, <1>4, <1>7 DEF WithinDate, a
  <2>2. b <= D(s) + 1
    BY <1>4, <1>6, <1>7
  <2>3. Distance(b, D(s)) <= 1
    BY <1>2, <1>4, <1>5, <1>7, <2>1, <2>2 DEF Distance
  <2> QED BY <1>3, <1>4, <1>7, <2>3 DEF WithinDate, b
<1>8. CASE D(s) = NoDate
  <2> DEFINE exp == Expected[s]
  <2>1. /\ exp.game = rows[s]
        /\ exp.previous = NoDate \/ exp.previous \in Int
        /\ exp.next = NoDate \/ \E k \in 1 .. n : s <= k /\ D(k) # NoDate /\ exp.next = D(k)
    <3>1. /\ \/ exp.previous = NoDate
             \/ \E k \in 1 .. n : rows[k].date # NoDate /\ exp.previous = rows[k].date
          /\ (\E j \in 1 .. n : s < j /\ rows[j].date # NoDate) =>
               \E k \in 1 .. n : /\ s < k /\ rows[k].date # NoDate /\ exp.next = rows[k].date
                                 /\ \A j \in 1 .. n : s < j /\ rows[j].date # NoDate => k <= j
          /\ (\A j \in 1 .. n : s < j => rows[j].date = NoDate) => exp.next = NoDate
      <4>1. /\ exp = attachDateHints(rows)[s] /\ DOMAIN rows = 1 .. n /\ n = Len(rows) /\ n \in Nat
            /\ rows[s].date = NoDate /\ s \in 1 .. n
            /\ \A i, j \in 1 .. n : rows[i].season = rows[j].season
        BY <1>1, <1>4, <1>8 DEF exp
      <4> HIDE DEF n
      <4> QED BY <4>1, BoundsOfRow
    <3>2. exp.previous = NoDate \/ exp.previous \in Int
      BY <1>5, <3>1
    <3>3. exp.next = NoDate \/ \E k \in 1 .. n : s < k /\ D(k) # NoDate /\ exp.next = D(k)
      BY <3>1
    <3>4. \A k \in 1 .. n : s < k => s <= k
      BY <1>4
    <3> QED BY <1>3, <1>4, <3>2, <3>3, <3>4
  <2> HIDE DEF exp
  <2>2. exp.next # NoDate => b <= exp.next + 1
    BY <1>6, <2>1
  <2>3. candidateWithinDateHints(exp, c)
    BY <1>8, <2>1 DEF WithinDate, exp
  <2>4. exp.previous # NoDate => b >= exp.previous - 1
    BY <1>2, <2>1, <2>3 DEF candidateWithinDateHints, a
  <2>5. candidateWithinDateHints(exp, d)
    BY <2>2, <2>4 DEF candidateWithinDateHints, b
  <2> QED BY <1>8, <2>1, <2>5 DEF WithinDate, exp
<1> QED BY <1>7, <1>8

-----------------------------------------------------------------------------
(* The matching. *)

\* Rows R of the sheet with files f that fit them, no file twice.
Pairing(R, f) ==
  /\ \A r \in R : f[r] \in matchingCandidates(Expected[r], {})
  /\ \A r, s \in R : f[r] = f[s] => r = s

\* It has what was matched so far, and of the rows so far no other.
Continues(R, f) ==
  /\ \A i \in DOMAIN matched : matched[i].row \in R /\ f[matched[i].row] = matched[i].file
  /\ \A r \in R : r < expectedAt => \E i \in DOMAIN matched : matched[i].row = r

\* Whatever can be matched, as much can be matched with the files given away so far.
NothingWasted ==
  \A R \in SUBSET DOMAIN Expected : \A f \in [R -> scanReplays] :
     Pairing(R, f) =>
       \E S \in SUBSET DOMAIN Expected : \E g \in [S -> scanReplays] :
          Pairing(S, g) /\ Continues(S, g) /\ Cardinality(R) <= Cardinality(S)

LEMMA ExpectedIsSeq ==
  ASSUME command \in ImportRuns
  PROVE  Len(Expected) \in Nat /\ DOMAIN Expected = 1 .. Len(Expected)
<1> DEFINE rows == parseSeasonCSV(command.sheet)
<1>1. Expected = attachDateHints(rows)
  BY Zenon DEF Expected, ExpectedOf
<1>2. \E S : rows \in Seq(S) /\ \A g \in S : g.date \in Dates
  BY GamesAreRead
<1> HIDE DEF rows
<1>3. DOMAIN rows = 1 .. Len(rows) /\ Len(rows) \in Nat
  BY <1>2
<1>4. DOMAIN Expected = 1 .. Len(rows)
  BY <1>1, <1>3, Zenon DEF attachDateHints
<1>5. Expected = [i \in 1 .. Len(rows) |-> Expected[i]]
  BY <1>1, <1>3, Zenon DEF attachDateHints
<1> HIDE DEF Expected
<1>6. \E S : Expected \in [1 .. Len(rows) -> S]
  <2>1. Expected \in [1 .. Len(rows) -> {Expected[i] : i \in 1 .. Len(rows)}]
    BY <1>5
  <2> QED BY <2>1
<1>7. \E S : Expected \in Seq(S)
  BY <1>3, <1>6, SeqDef
<1> QED BY <1>7

LEMMA RowsAreFinite ==
  ASSUME command \in ImportRuns, NEW R \in SUBSET DOMAIN Expected
  PROVE  IsFiniteSet(R) /\ Cardinality(R) \in Nat
<1>1. Len(Expected) \in Nat /\ DOMAIN Expected = 1 .. Len(Expected)
  BY ExpectedIsSeq
<1>2. IsFiniteSet(1 .. Len(Expected))
  BY <1>1, FS_Interval
<1> QED BY <1>1, <1>2, FS_Subset, FS_CardinalityType

\* The step of one row: a choice that fits is made to have the file that the row takes.
LEMMA RowTakesEarliest ==
  ASSUME command \in ImportRuns, ~command.fallback, InOrder, matched \in Seq(MatchedRows),
         \A i \in DOMAIN matched : matched[i].row < expectedAt,
         MatchRow, NEW k \in Nat \ {0}, k = expectedAt,
         NEW R \in SUBSET DOMAIN Expected, NEW f \in [R -> scanReplays], Pairing(R, f), Continues(R, f)
  PROVE  \E S \in SUBSET DOMAIN Expected : \E g \in [S -> scanReplays] :
            Pairing(S, g) /\ Continues(S, g)' /\ Cardinality(R) <= Cardinality(S)
<1> DEFINE cands == matchingCandidates(Expected[k], Used)
<1>1. /\ k \in DOMAIN Expected /\ DOMAIN Expected \subseteq Nat /\ IsFiniteSet(R)
      /\ Cardinality(R) \in Nat
  <2>1. Len(Expected) \in Nat /\ DOMAIN Expected = 1 .. Len(Expected)
    BY ExpectedIsSeq
  <2>2. k \in Nat \ {0} /\ k <= Len(Expected)
    BY DEF MatchRow
  <2>3. IsFiniteSet(1 .. Len(Expected))
    BY <2>1, FS_Interval
  <2> QED BY <2>1, <2>2, <2>3, FS_Subset, FS_CardinalityType
<1>2. expectedAt' = k + 1
  BY DEF MatchRow
<1>3. \A i \in DOMAIN matched : matched[i].row \in R /\ matched[i].row # k /\ f[matched[i].row] = matched[i].file
  BY <1>1 DEF Continues
<1>4. k \in R => f[k] \in cands
  <2> SUFFICES ASSUME k \in R PROVE f[k] \in cands
    OBVIOUS
  <2>1. f[k] \in matchingCandidates(Expected[k], {})
    BY DEF Pairing
  <2>2. f[k] \notin Used
    BY <1>3 DEF Pairing, Used
  <2> QED BY <2>1, <2>2 DEF matchingCandidates
<1>5. \A r \in R : r < k => f[r] \in Used
  BY <1>3 DEF Continues, Used
<1>6. CASE cands = {}
  <2>1. k \notin R
    BY <1>4, <1>6
  <2>2. FilesFor(Expected[k], Used, command.fallback) = {}
    BY <1>6 DEF FilesFor
  <2>3. matched' = matched
    BY <2>2 DEF MatchRow
  <2>4. \A r \in R : r < k + 1 => r < k
    BY <1>1, <2>1
  <2>5. Continues(R, f)'
    BY <1>2, <2>3, <2>4 DEF Continues
  <2> QED BY <1>1, <2>5
<1>7. CASE cands # {}
  <2>1. FilesFor(Expected[k], Used, command.fallback) = EarliestOf(cands)
    BY <1>7 DEF FilesFor
  <2>2. EarliestOf(cands) # {}
    <3> DEFINE start == [c \in cands |-> c.start]
    <3>1. cands \subseteq Autosaves
      BY DEF matchingCandidates, scanReplays
    <3>2. IsFiniteSet(cands)
      BY <3>1, AutosavesAssumption, FS_Subset
    <3>3. \A c \in cands : start[c] \in Int
      BY <3>1, AutosavesAssumption
    <3>4. PICK c \in cands : \A d \in cands : start[c] <= start[d]
      <4> HIDE DEF start, cands
      <4> QED BY <1>7, <3>2, <3>3, LeastOfFinite
    <3>5. \A d \in cands : c.start <= d.start
      BY <3>4
    <3> HIDE DEF cands
    <3> QED BY <3>5 DEF EarliestOf
  <2>3. PICK c \in EarliestOf(cands) : matched' = Append(matched, [row |-> k, file |-> c])
    BY <2>1, <2>2 DEF MatchRow
  <2>4. c \in cands /\ \A d \in cands : c.start <= d.start
    <3> HIDE DEF cands
    <3> QED BY DEF EarliestOf
  <2>5. /\ c \in scanReplays /\ c \in Autosaves /\ c \notin Used
        /\ c \in matchingCandidates(Expected[k], {})
        /\ SameSignature(Expected[k], c)
    BY <2>4 DEF matchingCandidates, scanReplays
  <2>6. /\ Len(matched) \in Nat /\ DOMAIN matched = 1 .. Len(matched)
        /\ DOMAIN matched' = 1 .. Len(matched) + 1
        /\ \A i \in 1 .. Len(matched) : matched'[i] = matched[i]
        /\ matched'[Len(matched) + 1].row = k /\ matched'[Len(matched) + 1].file = c
    <3> DEFINE m == [row |-> k, file |-> c]
    <3>1. m.row = k /\ m.file = c /\ m \in MatchedRows
      BY <2>5, <1>1 DEF MatchedRows
    <3> HIDE DEF m
    <3> QED BY <2>3, <3>1
  \* A choice with c for row k and the same files for the rows before.
  <2>7. ASSUME NEW S \in SUBSET DOMAIN Expected, NEW g, k \in S, g[k] = c,
               \A r \in R : r < k => r \in S /\ g[r] = f[r],
               \A r \in S : r < k => r \in R
        PROVE  Continues(S, g)'
    <3>1. \A i \in DOMAIN matched : matched[i].row \in S /\ g[matched[i].row] = matched[i].file
      BY <1>3, <2>7
    <3>2. \A i \in DOMAIN matched' : matched'[i].row \in S /\ g[matched'[i].row] = matched'[i].file
      <4>1. \A i \in DOMAIN matched' : i = Len(matched) + 1 \/ i \in DOMAIN matched
        BY <2>6
      <4> QED BY <2>6, <2>7, <3>1, <4>1
    <3>3. ASSUME NEW r \in S, r < k + 1 PROVE \E i \in DOMAIN matched' : matched'[i].row = r
      <4>1. CASE r = k
        <5>1. Len(matched) + 1 \in DOMAIN matched'
          BY <2>6
        <5> QED BY <2>6, <4>1, <5>1
      <4>2. CASE r # k
        <5>1. r < k /\ r \in R
          BY <1>1, <2>7, <3>3, <4>2
        <5>2. PICK i \in DOMAIN matched : matched[i].row = r
          BY <5>1 DEF Continues
        <5>3. i \in DOMAIN matched' /\ matched'[i] = matched[i]
          BY <2>6
        <5> QED BY <5>2, <5>3
      <4> QED BY <4>1, <4>2
    <3> QED BY <1>2, <3>2, <3>3 DEF Continues
  <2>8. \A r \in R : r < k => f[r] # c
    BY <1>5, <2>5
  <2>9. CASE k \in R
    <3> DEFINE d == f[k]
               g == [r \in R |-> IF r = k THEN c ELSE IF f[r] = c THEN d ELSE f[r]]
    <3>1. d \in scanReplays /\ d \in Autosaves /\ c.start <= d.start /\ d \in cands
      BY <1>4, <2>4, <2>9 DEF scanReplays
    <3>2. g \in [R -> scanReplays]
      BY <2>5, <3>1
    <3>3. ASSUME NEW r \in R, r # k, f[r] = c PROVE d \in matchingCandidates(Expected[r], {})
      <4>1. k < r /\ r \in DOMAIN Expected
        BY <1>1, <2>8, <3>3
      <4>2. c \in matchingCandidates(Expected[r], {})
        BY <3>3 DEF Pairing
      <4>3. SameSignature(Expected[r], c) /\ WithinDate(Expected[r], c)
        BY <4>2 DEF matchingCandidates
      <4>4. SameSignature(Expected[k], d) /\ WithinDate(Expected[k], d)
        BY <3>1 DEF matchingCandidates
      <4>5. WithinDate(Expected[r], d)
        BY <1>1, <2>5, <3>1, <4>1, <4>3, <4>4, RowsInOrder
      <4>6. SameSignature(Expected[r], d)
        BY <2>5, <4>3, <4>4 DEF SameSignature
      <4> QED BY <3>1, <4>5, <4>6 DEF matchingCandidates
    <3>4. \A r \in R : g[r] \in matchingCandidates(Expected[r], {})
      BY <2>5, <3>3 DEF Pairing
    <3>5. \A r, s \in R : g[r] = g[s] => r = s
      BY <2>9 DEF Pairing
    <3>6. Pairing(R, g)
      BY <3>4, <3>5 DEF Pairing
    <3>7. Continues(R, g)'
      <4>1. g[k] = c /\ \A r \in R : r < k => g[r] = f[r]
        BY <1>1, <2>8, <2>9
      <4> HIDE DEF g
      <4> QED BY <2>7, <2>9, <4>1
    <3> HIDE DEF g
    <3> QED BY <1>1, <3>2, <3>6, <3>7
  <2>10. CASE k \notin R
    <3> DEFINE Q == {r \in R : f[r] # c}
               S == Q \cup {k}
               g == [r \in S |-> IF r = k THEN c ELSE f[r]]
    <3>1. S \in SUBSET DOMAIN Expected /\ g \in [S -> scanReplays]
      BY <1>1, <2>5
    <3>2. Pairing(S, g)
      <4>1. \A r \in S : g[r] \in matchingCandidates(Expected[r], {})
        BY <2>5, <2>10 DEF Pairing
      <4>2. \A r, s \in S : g[r] = g[s] => r = s
        BY <2>10 DEF Pairing
      <4> QED BY <4>1, <4>2 DEF Pairing
    <3>3. Continues(S, g)'
      <4>1. k \in S /\ g[k] = c
        OBVIOUS
      <4>2. \A r \in R : r < k => r \in S /\ g[r] = f[r]
        BY <1>1, <2>8, <2>10
      <4>3. \A r \in S : r < k => r \in R
        BY <1>1
      <4> HIDE DEF S, g
      <4> QED BY <2>7, <3>1, <4>1, <4>2, <4>3
    <3>4. Cardinality(R) <= Cardinality(S)
      <4>1. IsFiniteSet(Q) /\ k \notin Q
        BY <1>1, <2>10, FS_Subset
      <4>2. Cardinality(S) = Cardinality(Q) + 1
        BY <4>1, FS_AddElement
      <4>3. CASE Q = R
        <5> HIDE DEF Q, S
        <5> QED BY <1>1, <4>2, <4>3
      <4>4. CASE Q # R
        <5>1. PICK x \in R : f[x] = c
          BY <4>4
        <5>2. Q = R \ {x}
          BY <5>1 DEF Pairing
        <5>3. Cardinality(Q) = Cardinality(R) - 1
          <6> HIDE DEF Q
          <6> QED BY <1>1, <5>1, <5>2, FS_RemoveElement
        <5> QED BY <1>1, <4>2, <5>3
      <4> QED BY <4>3, <4>4
    <3> HIDE DEF S, g
    <3> QED BY <3>1, <3>2, <3>3, <3>4
  <2> QED BY <2>9, <2>10
<1> QED BY <1>6, <1>7

\* Nothing fits more rows than the matching has.
NoMoreFit ==
  \A R \in SUBSET DOMAIN Expected : \A f \in [R -> scanReplays] : Pairing(R, f) => Cardinality(R) <= Len(matched)

\* While rows are matched nothing is wasted, and at the end nothing is left.
MatchInv ==
  /\ command \in ImportRuns
  /\ importStep = "match" => \A i \in DOMAIN matched : matched[i].row < expectedAt
  /\ ~command.fallback /\ InOrder => IF importStep = "match" THEN NothingWasted ELSE NoMoreFit

LEMMA MatchInitially == ImportInit => MatchInv
<1> SUFFICES ASSUME ImportInit PROVE MatchInv
  OBVIOUS
<1>1. /\ command \in ImportRuns /\ importStep = "match" /\ expectedAt = 1
      /\ matched = <<>> /\ DOMAIN matched = {}
  BY DEF ImportInit
<1>2. DOMAIN Expected \subseteq Nat \ {0}
  <2>1. Len(Expected) \in Nat /\ DOMAIN Expected = 1 .. Len(Expected)
    BY <1>1, ExpectedIsSeq
  <2> QED BY <2>1
<1>3. NothingWasted
  <2> SUFFICES ASSUME NEW R \in SUBSET DOMAIN Expected, NEW f \in [R -> scanReplays], Pairing(R, f)
               PROVE  Continues(R, f) /\ Cardinality(R) <= Cardinality(R)
    BY DEF NothingWasted
  <2>1. Continues(R, f)
    BY <1>1, <1>2 DEF Continues
  <2>2. Cardinality(R) \in Nat
    <3>1. Len(Expected) \in Nat /\ DOMAIN Expected = 1 .. Len(Expected)
      BY <1>1, ExpectedIsSeq
    <3>2. IsFiniteSet(1 .. Len(Expected))
      BY <3>1, FS_Interval
    <3> QED BY <3>1, <3>2, FS_Subset, FS_CardinalityType
  <2> QED BY <2>1, <2>2
<1> QED BY <1>1, <1>3 DEF MatchInv

LEMMA MatchRowKeepsMatch ==
  ASSUME InOrderOfSteps, MatchInv, MatchRow PROVE MatchInv'
<1>1. /\ importStep = "match" /\ importStep' = "match" /\ command' = command /\ expectedAt' = expectedAt + 1
      /\ expectedAt \in Nat \ {0} /\ matched \in Seq(MatchedRows) /\ command \in ImportRuns
  BY DEF MatchRow, InOrderOfSteps, MatchInv
<1>2. Expected' = Expected /\ InOrder' = InOrder
  BY <1>1 DEF Expected, InOrder
<1>3. \A i \in DOMAIN matched' : matched'[i].row < expectedAt'
  <2>1. \A i \in DOMAIN matched : matched[i].row < expectedAt /\ matched[i].row \in Nat
    <3>1. \A i \in DOMAIN matched : matched[i] \in MatchedRows
      BY <1>1
    <3> QED BY <1>1, <3>1 DEF MatchInv, MatchedRows
  <2>2. CASE matched' = matched
    BY <1>1, <2>1, <2>2
  <2>3. ASSUME NEW c, matched' = Append(matched, [row |-> expectedAt, file |-> c])
        PROVE  \A i \in DOMAIN matched' : matched'[i].row < expectedAt'
    <3> DEFINE m == [row |-> expectedAt, file |-> c]
    <3>1. m.row = expectedAt
      OBVIOUS
    <3> HIDE DEF m
    <3>2. DOMAIN matched = 1 .. Len(matched) /\ Len(matched) \in Nat
      BY <1>1
    <3>3. matched' = Append(matched, m)
      BY <2>3 DEF m
    <3>4. /\ DOMAIN matched' = 1 .. Len(matched) + 1 /\ matched'[Len(matched) + 1] = m
          /\ \A i \in 1 .. Len(matched) : matched'[i] = matched[i]
      BY <1>1, <3>3
    <3> QED BY <1>1, <2>1, <3>1, <3>2, <3>4
  <2>4. matched' = matched \/ \E c : matched' = Append(matched, [row |-> expectedAt, file |-> c])
    BY Zenon DEF MatchRow
  <2> QED BY <2>2, <2>3, <2>4, Zenon
<1>4. ASSUME ~command.fallback, InOrder PROVE NothingWasted'
  <2> SUFFICES ASSUME NEW R \in SUBSET DOMAIN Expected, NEW f \in [R -> scanReplays], Pairing(R, f)
               PROVE  \E S \in SUBSET DOMAIN Expected : \E g \in [S -> scanReplays] :
                         Pairing(S, g) /\ Continues(S, g)' /\ Cardinality(R) <= Cardinality(S)
    BY <1>2 DEF NothingWasted, Pairing
  <2>1. PICK S \in SUBSET DOMAIN Expected : \E g \in [S -> scanReplays] :
          Pairing(S, g) /\ Continues(S, g) /\ Cardinality(R) <= Cardinality(S)
    BY <1>1, <1>4 DEF MatchInv, NothingWasted
  <2>2. PICK T \in SUBSET DOMAIN Expected : \E h \in [T -> scanReplays] :
          Pairing(T, h) /\ Continues(T, h)' /\ Cardinality(S) <= Cardinality(T)
    BY <1>1, <1>4, <2>1, RowTakesEarliest DEF MatchInv
  <2>3. \A Q \in SUBSET DOMAIN Expected : Cardinality(Q) \in Nat
    BY <1>1, RowsAreFinite
  <2>4. Cardinality(R) <= Cardinality(T)
    BY <2>1, <2>2, <2>3
  <2> QED BY <2>2, <2>4
<1> QED BY <1>1, <1>2, <1>3, <1>4 DEF MatchInv

\* With the last row behind it the matching has every row of a choice that continues it.
LEMMA StartEndsMatch ==
  ASSUME InOrderOfSteps, MatchInv, StartListing PROVE MatchInv'
<1>1. /\ importStep = "match" /\ importStep' # "match" /\ UNCHANGED <<command, matched>>
      /\ expectedAt \in Nat \ {0} /\ matched \in Seq(MatchedRows) /\ command \in ImportRuns
      /\ expectedAt > Len(Expected)
  BY DEF StartListing, InOrderOfSteps, MatchInv
<1>2. Expected' = Expected /\ InOrder' = InOrder
  BY <1>1 DEF Expected, InOrder
<1>3. ASSUME ~command.fallback, InOrder PROVE NoMoreFit
  <2> SUFFICES ASSUME NEW R \in SUBSET DOMAIN Expected, NEW f \in [R -> scanReplays], Pairing(R, f)
               PROVE  Cardinality(R) <= Len(matched)
    BY DEF NoMoreFit
  <2>1. PICK S \in SUBSET DOMAIN Expected : \E g \in [S -> scanReplays] :
          Pairing(S, g) /\ Continues(S, g) /\ Cardinality(R) <= Cardinality(S)
    BY <1>1, <1>3 DEF MatchInv, NothingWasted
  <2>2. PICK g \in [S -> scanReplays] : Pairing(S, g) /\ Continues(S, g) /\ Cardinality(R) <= Cardinality(S)
    BY <2>1
  <2> DEFINE row == [i \in 1 .. Len(matched) |-> matched[i].row]
  <2>3. Len(matched) \in Nat /\ DOMAIN matched = 1 .. Len(matched)
    BY <1>1
  <2>4. \A r \in S : r < expectedAt
    <3>1. Len(Expected) \in Nat /\ DOMAIN Expected = 1 .. Len(Expected)
      BY <1>1, ExpectedIsSeq
    <3> QED BY <1>1, <3>1
  <2>5. row \in Surjection(1 .. Len(matched), S)
    <3>1. \A i \in 1 .. Len(matched) : row[i] \in S
      BY <2>2, <2>3 DEF Continues
    <3>2. \A r \in S : \E i \in 1 .. Len(matched) : row[i] = r
      BY <2>2, <2>3, <2>4 DEF Continues
    <3> QED BY <3>1, <3>2 DEF Surjection
  <2>6. IsFiniteSet(1 .. Len(matched)) /\ Cardinality(1 .. Len(matched)) = Len(matched)
    <3>1. IsFiniteSet(1 .. Len(matched))
      BY <2>3, FS_Interval
    <3>2. Cardinality(1 .. Len(matched)) = IF 1 > Len(matched) THEN 0 ELSE Len(matched) - 1 + 1
      BY <2>3, FS_Interval
    <3> QED BY <2>3, <3>1, <3>2
  <2>7. Cardinality(S) <= Len(matched)
    <3> HIDE DEF row
    <3> QED BY <2>5, <2>6, FS_Surjection
  <2>8. Cardinality(R) \in Nat /\ Cardinality(S) \in Nat
    BY <1>1, RowsAreFinite
  <2> QED BY <2>1, <2>3, <2>7, <2>8
<1> QED BY <1>1, <1>2, <1>3 DEF MatchInv, NoMoreFit, Pairing

\* What was matched stays so, also for a second run.
LEMMA OtherStepsKeepMatch ==
  ASSUME MatchInv, UNCHANGED <<command, matched>>, importStep # "match", importStep' # "match"
  PROVE  MatchInv'
<1>1. Expected' = Expected /\ InOrder' = InOrder
  BY DEF Expected, InOrder
<1> QED BY <1>1 DEF MatchInv, NoMoreFit, Pairing

LEMMA MatchStep ==
  InOrderOfSteps /\ MatchInv /\ [ImportNext]_importVars => MatchInv'
<1> SUFFICES ASSUME InOrderOfSteps, MatchInv, [ImportNext]_importVars PROVE MatchInv'
  OBVIOUS
<1>1. CASE MatchRow
  BY <1>1, MatchRowKeepsMatch
<1>2. CASE StartListing
  BY <1>2, StartEndsMatch
<1>3. CASE FastListing \/ ListingFails \/ ReadPage \/ CountGames \/ ReadGame \/ NextPage
  <2>1. importStep # "match" /\ importStep' # "match" /\ UNCHANGED <<command, matched>>
    BY <1>3 DEF FastListing, StartSending, ListingFails, AfterFailure, ReadPage, CountGames, ReadGame, NextPage
  <2> QED BY <2>1, OtherStepsKeepMatch
<1>4. CASE updateGameSeason \/ SkipKnown \/ uploadReplay \/ RequestFails
  <2>1. importStep # "match" /\ importStep' # "match" /\ UNCHANGED <<command, matched>>
    BY <1>4 DEF updateGameSeason, SkipKnown, uploadReplay, RequestFails, Sending, Conclude
  <2> QED BY <2>1, OtherStepsKeepMatch
<1>5. CASE Report \/ RunAgain
  <2>1. importStep # "match" /\ importStep' # "match" /\ UNCHANGED <<command, matched>>
    BY <1>5 DEF Report, RunAgain
  <2> QED BY <2>1, OtherStepsKeepMatch
<1>6. CASE /\ importStep \in {"hashes", "page", "count", "game", "send"}
           /\ OthersUpload \/ OthersSetSeason \/ OthersDelete
  <2>1. \E game : OthersWrite(game)
    BY <1>6, Zenon DEF OthersUpload, OthersSetSeason, OthersDelete
  <2>2. UNCHANGED <<importStep, command, matched>>
    BY <2>1 DEF OthersWrite
  <2>3. importStep \in {"hashes", "page", "count", "game", "send"}
    BY <1>6, Zenon
  <2>4. importStep # "match" /\ importStep' # "match"
    BY <2>2, <2>3
  <2> QED BY <2>2, <2>4, OtherStepsKeepMatch
<1>7. CASE UNCHANGED importVars
  <2>1. UNCHANGED <<command, matched, importStep, expectedAt>>
    BY <1>7 DEF importVars
  <2>2. Expected' = Expected /\ InOrder' = InOrder
    BY <2>1 DEF Expected, InOrder
  <2>3. NoMoreFit' = NoMoreFit
    BY <2>1, <2>2 DEF NoMoreFit, Pairing
  <2>4. NothingWasted' = NothingWasted
    BY <2>1, <2>2 DEF NothingWasted, Continues, Pairing
  <2> QED BY <2>1, <2>2, <2>3, <2>4 DEF MatchInv
<1> QED BY <1>1, <1>2, <1>3, <1>4, <1>5, <1>6, <1>7 DEF ImportNext

LEMMA MatchInvHolds == ImportSpec => []MatchInv
<1>1. ImportInv => InOrderOfSteps
  BY DEF ImportInv
<1> QED BY <1>1, MatchInitially, MatchStep, ImportInvHolds, PTL DEF ImportSpec

\* Of a sheet of one season in the order of its dates, no choice of recordings fits more rows
\* than the command matched: taking the earliest recording that fits, row by row, is enough.
THEOREM MostRowsAlwaysMatched == ImportSpec => []MostRowsMatched
<1>1. InOrderOfSteps /\ MatchInv => MostRowsMatched
  <2> SUFFICES ASSUME InOrderOfSteps, MatchInv, importStep # "match", ~command.fallback, InOrder,
                      NEW R \in SUBSET DOMAIN Expected, Cardinality(R) > Len(matched),
                      NEW f \in [R -> scanReplays], Pairing(R, f)
               PROVE  FALSE
    BY Zenon DEF MostRowsMatched, Pairing
  <2>1. Cardinality(R) <= Len(matched)
    BY DEF MatchInv, NoMoreFit
  <2>2. Cardinality(R) \in Nat /\ Len(matched) \in Nat
    BY RowsAreFinite DEF MatchInv, InOrderOfSteps
  <2> QED BY <2>1, <2>2
<1>2. ImportInv => InOrderOfSteps
  BY DEF ImportInv
<1> QED BY <1>1, <1>2, ImportInvHolds, MatchInvHolds, PTL
=============================================================================
