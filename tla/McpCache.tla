------------------------------- MODULE McpCache -------------------------------
(***************************************************************************)
(* The MCP connector on a user's machine: lines of JSON arrive on stdin in *)
(* chunks, the lines of one chunk are served in turn, and the chunks of    *)
(* one process, and the processes that several clients start over the same *)
(* cache directory, interleave at every await.  A request for the team     *)
(* analysis reads the cache file of its season, calls the API when the     *)
(* file is too old, and rewrites the file in place.                        *)
(*                                                                         *)
(* Time passes in ticks, several to a second: the code has milliseconds    *)
(* and rounds them.  A payload is named by the time at which the API gave  *)
(* it.                                                                     *)
(***************************************************************************)
EXTENDS Naturals, Sequences

CONSTANTS
  Connectors,        \* the chunks of input that are served, each a loop of its own
  McpChunks,         \* the chunks that may arrive: sequences of requests
  McpSeasons,        \* the season labels asked for, EveryMatch among them
  EveryMatch,        \* no season label
  TtlSeconds,        \* cacheTtlSeconds
  TicksPerSecond,    \* 1000 in the code
  MaxMcpTime         \* bound: the last tick of a behaviour

McpLines == [method: STRING, target: STRING, season: McpSeasons, forced: BOOLEAN]

ASSUME McpAssumption ==
  /\ McpChunks \subseteq Seq(McpLines)
  /\ EveryMatch \in McpSeasons
  /\ TtlSeconds \in Nat /\ MaxMcpTime \in Nat /\ TicksPerSecond \in Nat \ {0}

VARIABLES
  mcpTime,           \* Date.now()
  cacheFile,         \* the cache file of each season
  connector,         \* each chunk: what is left of it, and the load under way
  mcpAnswer          \* the answer that was written last

mcpVars == <<mcpTime, cacheFile, connector, mcpAnswer>>

Tools == {"get_team_analysis_raw", "get_team_analysis_prompt_bundle", "get_mcp_update_status"}

\* A request that needs the team analysis; every other line is answered from the code alone.
Loads(request) ==
  \/ request.method = "tools/call" /\ request.target \in Tools
  \/ request.method = "resources/read" /\ request.target = "stareplays://team-analysis/raw"
  \/ request.method = "prompts/get" /\ request.target = "analyze_team_matchups"

\* The label and the flag the request hands on: a resource has neither, a prompt no flag.
SeasonAsked(request) == IF request.method = "resources/read" THEN EveryMatch ELSE request.season
ForceRefresh(request) == request.method = "tools/call" /\ request.forced

\* A cache file is absent or emptied, the overlap of two writes, or one whole record.
Contents(state, at, payload) == [state |-> state, generatedAt |-> at, payload |-> payload]
CacheFiles == [state: {"empty", "mixed", "whole"}, generatedAt: Nat, payload: Nat]
Emptied == Contents("empty", 0, 0)
Mixed == Contents("mixed", 0, 0)

\* Math.round of a number of ticks to seconds, half up.
RoundedSeconds(ticks) == (2 * ticks + TicksPerSecond) \div (2 * TicksPerSecond)

\* A record written since the call started has no age.
AgeSeconds(file, start) ==
  IF start < file.generatedAt THEN 0 ELSE RoundedSeconds(start - file.generatedAt)

McpReply(status, start, payload, forced) ==
  [status |-> status, start |-> start, payload |-> payload, forced |-> forced]
NoReply == McpReply("none", 0, 0, FALSE)

Resting(lines) == [step |-> "idle", lines |-> lines, start |-> 0, cached |-> Emptied, payload |-> 0]

McpInit ==
  /\ mcpTime = 0
  /\ cacheFile = [s \in McpSeasons |-> Emptied]
  /\ \E chunk \in [Connectors -> McpChunks] : connector = [c \in Connectors |-> Resting(chunk[c])]
  /\ mcpAnswer = NoReply

Line(c) == Head(connector[c].lines)

\* The line of c is done: the answer is written and the loop goes on with the next line.
Reply(c, status, payload) ==
  /\ mcpAnswer' = McpReply(status, connector[c].start, payload, ForceRefresh(Line(c)))
  /\ connector' = [connector EXCEPT ![c] = Resting(Tail(@.lines))]

\* A line that needs no data: capabilities, lists, and errors for what is unknown or not JSON.
\* A notification gets no answer.
AnswerAtOnce(c) ==
  /\ connector[c].step = "idle" /\ connector[c].lines # <<>> /\ ~Loads(Line(c))
  /\ mcpAnswer' = IF Line(c).method = "notifications/initialized" THEN mcpAnswer
                  ELSE McpReply("plain", 0, 0, FALSE)
  /\ connector' = [connector EXCEPT ![c] = Resting(Tail(@.lines))]
  /\ UNCHANGED <<mcpTime, cacheFile>>

\* loadTeamAnalysisRaw is called: now is the time of the call from here on.
StartLoad(c) ==
  /\ connector[c].step = "idle" /\ connector[c].lines # <<>> /\ Loads(Line(c))
  /\ connector' = [connector EXCEPT ![c].step = "reading", ![c].start = mcpTime]
  /\ UNCHANGED <<mcpTime, cacheFile, mcpAnswer>>

\* The file is read: an answer when it is young enough, a call of the API otherwise.
ReadCache(c) ==
  LET file == cacheFile[SeasonAsked(Line(c))] IN
  /\ connector[c].step = "reading"
  /\ IF /\ ~ForceRefresh(Line(c))
        /\ file.state = "whole"
        /\ AgeSeconds(file, connector[c].start) <= TtlSeconds
     THEN Reply(c, "hit", file.payload)
     ELSE /\ connector' = [connector EXCEPT ![c].step = "fetching",
                                            ![c].cached = IF file.state = "whole" THEN file ELSE Emptied]
          /\ mcpAnswer' = mcpAnswer
  /\ UNCHANGED <<mcpTime, cacheFile>>

\* The API answers with what it knows at this moment.
FetchJson(c) ==
  /\ connector[c].step = "fetching"
  /\ connector' = [connector EXCEPT ![c].step = "opening", ![c].payload = mcpTime]
  /\ UNCHANGED <<mcpTime, cacheFile, mcpAnswer>>

\* writeCache, first half: the directory is there and opening the file empties it.
OpenCache(c) ==
  /\ connector[c].step = "opening"
  /\ connector' = [connector EXCEPT ![c].step = "writing"]
  /\ cacheFile' = [cacheFile EXCEPT ![SeasonAsked(Line(c))] = Emptied]
  /\ UNCHANGED <<mcpTime, mcpAnswer>>

\* The record is stamped with the time of writing, the default of writeCache.
RecordNow(c) == Contents("whole", mcpTime, connector[c].payload)

\* The record writeCache leaves: stamped with the time of the call that fetched it.
CacheRecord(c) == Contents("whole", connector[c].start, connector[c].payload)

\* writeCache, second half: over what another writer put there since, the bytes may mix.
WriteCache(c) ==
  LET season == SeasonAsked(Line(c)) IN
  /\ connector[c].step = "writing"
  /\ \E written \in {CacheRecord(c)} \union (IF cacheFile[season] = Emptied THEN {} ELSE {Mixed}) :
       cacheFile' = [cacheFile EXCEPT ![season] = written]
  /\ Reply(c, "refresh", connector[c].payload)
  /\ UNCHANGED mcpTime

\* The API is unreachable, slow or refuses, or the file cannot be written: the record read at
\* the start is the answer if there was one.
LoadFails(c) ==
  /\ connector[c].step \in {"fetching", "opening", "writing"}
  /\ IF connector[c].cached.state = "whole"
     THEN Reply(c, "stale", connector[c].cached.payload)
     ELSE Reply(c, "error", 0)
  /\ UNCHANGED <<mcpTime, cacheFile>>

\* The process ends: a file it was writing stays as it is.
ConnectorStops(c) ==
  /\ connector[c].step \notin {"idle", "stopped"}
  /\ connector' = [connector EXCEPT ![c] = [Resting(<<>>) EXCEPT !.step = "stopped"]]
  /\ UNCHANGED <<mcpTime, cacheFile, mcpAnswer>>

Tick ==
  /\ mcpTime < MaxMcpTime
  /\ mcpTime' = mcpTime + 1
  /\ UNCHANGED <<cacheFile, connector, mcpAnswer>>

McpNext ==
  \/ Tick
  \/ \E c \in Connectors :
       \/ AnswerAtOnce(c) \/ StartLoad(c) \/ ReadCache(c) \/ FetchJson(c) \/ OpenCache(c)
       \/ WriteCache(c) \/ LoadFails(c) \/ ConnectorStops(c)

McpSpec == McpInit /\ [][McpNext]_mcpVars

-----------------------------------------------------------------------------
(* Properties. *)

ChunkLoops ==
  [step: {"idle", "reading", "fetching", "opening", "writing", "stopped"}, lines: Seq(McpLines),
   start: Nat, cached: CacheFiles, payload: Nat]
McpReplies ==
  [status: {"none", "plain", "hit", "refresh", "stale", "error"}, start: Nat, payload: Nat, forced: BOOLEAN]

McpTypeOK ==
  /\ mcpTime \in Nat
  /\ cacheFile \in [McpSeasons -> CacheFiles]
  /\ connector \in [Connectors -> ChunkLoops]
  /\ mcpAnswer \in McpReplies

\* What makes answers fresh: a load under way has its line, its call came before the API's
\* answer, and the time of the call is the time a record is stamped with.
LoadsInOrder ==
  \A c \in Connectors :
    LET load == connector[c] IN
    /\ load.step \in {"reading", "fetching", "opening", "writing"} => load.lines # <<>> /\ load.start <= mcpTime
    /\ load.step \in {"opening", "writing"} => load.start <= load.payload

StampsAreEarly ==
  \A s \in McpSeasons : cacheFile[s].state = "whole" => cacheFile[s].generatedAt <= cacheFile[s].payload

\* Whatever connectors write the file and whenever they stop, an answer taken from the cache
\* was given by the API less than the time to live and half a second ago, counted from the
\* request (the age is rounded to seconds before it is compared); a refreshed answer was
\* given by the API after the request was made; and a request that insists on fresh data
\* never gets an answer from the cache that it did not have to take.
\* (loadTeamAnalysisRaw: the call's own time stamps the record, so a slow write never makes
\* old data look young.)
McpAnswersAreFresh ==
  /\ mcpAnswer.status = "hit" =>
       /\ ~mcpAnswer.forced
       /\ 2 * mcpAnswer.start < 2 * mcpAnswer.payload + (2 * TtlSeconds + 1) * TicksPerSecond
  /\ mcpAnswer.status = "refresh" => mcpAnswer.start <= mcpAnswer.payload
=============================================================================
