------------------------------ MODULE MCMcpCache ------------------------------
(***************************************************************************)
(* Chunks of lines for the connector: a forced request for one season and  *)
(* an ordinary one, which a prompt makes, each after a line that needs no  *)
(* data, and two requests for all seasons in one chunk.                    *)
(***************************************************************************)
EXTENDS McpCache

McpLine(method, target, season, forced) ==
  [method |-> method, target |-> target, season |-> season, forced |-> forced]

Bare(method) == McpLine(method, "", EveryMatch, FALSE)
Raw(season, forced) == McpLine("tools/call", "get_team_analysis_raw", season, forced)

ConnectorChunks ==
  LET season == CHOOSE s \in McpSeasons : s # EveryMatch IN
  {<<>>,
   <<McpLine("tools/call", "unknown", season, FALSE), Raw(season, TRUE)>>,
   <<Bare("notifications/initialized"), McpLine("prompts/get", "analyze_team_matchups", season, FALSE)>>,
   <<McpLine("resources/read", "stareplays://team-analysis/raw", season, TRUE), Raw(EveryMatch, FALSE)>>}
=============================================================================
