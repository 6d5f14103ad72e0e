---------------------------- MODULE MCReplayIngest ----------------------------
(***************************************************************************)
(* Small instances of ReplayIngest for TLC.                                *)
(***************************************************************************)
EXTENDS ReplayIngest, TLC

CONSTANTS g1, g2, ann, bob, eve, t1, t2, t3, t4

\* Two recordings that name the same two new players in opposite orders; eve
\* played neither.
TwoGamesPlayers == (g1 :> <<ann, bob>>) @@ (g2 :> <<bob, ann>>)

OneGamePlayers == g1 :> <<ann, bob>>

Upload(g, u, n, d) == [kind |-> "upload", game |-> g, uploader |-> u, named |-> n, data |-> d]
Delete(g) == [kind |-> "delete", game |-> g, uploader |-> ann, named |-> FALSE, data |-> FALSE]

\* Browser uploads by a player and by a stranger, a local parse that derives its
\* uploader from the replay, and deletion of one recording.
OneGameInputs ==
  {Upload(g1, u, TRUE, TRUE) : u \in {bob, eve}} \cup {Upload(g1, ann, FALSE, FALSE), Delete(g1)}

\* Two uploaders of one recording, its deletion, and an upload of the other.
TwoGamesInputs ==
  {Upload(g1, ann, TRUE, TRUE), Upload(g1, bob, TRUE, TRUE), Upload(g2, bob, TRUE, TRUE), Delete(g1)}

\* Uploads of one recording by its players and a stranger.
UploadsOnly == {Upload(g1, u, TRUE, TRUE) : u \in {ann, bob, eve}}

Symmetry == Permutations(Requests)
=============================================================================
