----------------------------- MODULE MCSnapshotJob -----------------------------
(***************************************************************************)
(* Small instances of SnapshotJob for TLC.                                 *)
(***************************************************************************)
EXTENDS SnapshotJob, TLC

CONSTANTS rankingJob, analyzerJob, migrationJob, ann, bob

\* The ranking and analyzer daemons, and the migration job that refreshes both
\* snapshots after the normalisation.
JobPlans ==
  (rankingJob :> <<"ranking_3v3">>) @@ (analyzerJob :> <<"analyzer_race_matchups">>)
  @@ (migrationJob :> <<"games", "ranking_3v3", "analyzer_race_matchups">>)

\* The ranking gains a row, then trades it for another; the match-ups begin empty.
VersionKeys ==
  [t \in Tables |-> [v \in 0 .. MaxVersion |->
     IF t = "ranking_3v3"
     THEN CASE v = 0 -> {ann} [] v = 1 -> {ann, bob} [] OTHER -> {bob}
     ELSE IF v = 0 THEN {} ELSE {ann}]]
=============================================================================
