----------------------------- MODULE MCComponents -----------------------------
(***************************************************************************)
(* Small instances of the components that share no state with the tables   *)
(* of the other runs, side by side: in each behaviour one of them works    *)
(* and the others rest.                                                    *)
(***************************************************************************)
EXTENDS MCSeasonMeta, UploadPool, ReplayCharts, MCGameStatistics, MCSeasonImport, MCEntStore,
  MCMcpCache

VARIABLE working      \* the component that works in this behaviour

componentVars == <<working, seasonVars, poolVars, commands, statisticsVars, importVars, storeVars, mcpVars>>

Cmd(p, t, i, e) == [pid |-> p, type |-> t, item |-> i, effective |-> e]

RecordedCommands ==
  {Cmd(1, "train", "scv", TRUE), Cmd(1, "unit_morph", "lurker", TRUE), Cmd(1, "build", "academy", TRUE),
   Cmd(1, "cancel_train", "", TRUE), Cmd(1, "cancel_morph", "", TRUE), Cmd(2, "tech", "stim", FALSE)}

Prices == "scv" :> <<50, 0>> @@ "lurker" :> <<50, 100>> @@ "academy" :> <<150, 0>>

\* Resting: no request arrives.
PoolRests == PoolInit /\ files = 0
StatisticsRest == StatisticsInit /\ games = <<>>
ImportRests == ImportInit /\ command = NoSheet

Init ==
  /\ SeasonInit /\ ChartsInit /\ StoreInit
  /\ working \in {"season", "charts", "pool", "statistics", "import", "store", "connector"}
  /\ IF working = "pool" THEN PoolInit /\ files > 0 ELSE PoolRests
  /\ IF working = "statistics" THEN StatisticsInit ELSE StatisticsRest
  /\ IF working = "import" THEN ImportInit ELSE ImportRests
  /\ IF working = "connector" THEN McpInit ELSE McpInit /\ \A c \in Connectors : connector[c].lines = <<>>

Next ==
  /\ working' = working
  /\ \/ working = "season" /\ SeasonNext
        /\ UNCHANGED <<poolVars, commands, statisticsVars, importVars, storeVars, mcpVars>>
     \/ PoolNext
        /\ UNCHANGED <<seasonVars, commands, statisticsVars, importVars, storeVars, mcpVars>>
     \/ working = "charts" /\ ChartsNext
        /\ UNCHANGED <<seasonVars, poolVars, statisticsVars, importVars, storeVars, mcpVars>>
     \/ working = "statistics" /\ StatisticsNext
        /\ UNCHANGED <<seasonVars, poolVars, commands, importVars, storeVars, mcpVars>>
     \/ working = "import" /\ ImportNext
        /\ UNCHANGED <<seasonVars, poolVars, commands, statisticsVars, storeVars, mcpVars>>
     \/ working = "store" /\ StoreNext
        /\ UNCHANGED <<seasonVars, poolVars, commands, statisticsVars, importVars, mcpVars>>
     \/ working = "connector" /\ McpNext
        /\ UNCHANGED <<seasonVars, poolVars, commands, statisticsVars, importVars, storeVars>>

\* The variables keep their types: the settings and games of the season writes, the
\* indexes, slots and counts of a batch upload, the files and loads of the connector.
ComponentsTypeOK == SeasonTypeOK /\ PoolTypeOK /\ McpTypeOK

ComponentsSpec == Init /\ [][Next]_componentVars /\ PoolFair
=============================================================================
