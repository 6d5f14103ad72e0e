----------------------------- MODULE MCSeasonMeta -----------------------------
(***************************************************************************)
(* A small instance of SeasonMeta for TLC.                                 *)
(***************************************************************************)
EXTENDS SeasonMeta, TLC

CONSTANTS season7, season9, cup

\* A season whose players select at random, one that is kept in the CSV file, and
\* a label without digits.
LabelDigits == (season7 :> 7) @@ (season9 :> 9) @@ (cup :> 0)

\* Requests name a label, with a number where it has no digits.
NamedSeasons ==
  {[label |-> season7, no |-> None], [label |-> season9, no |-> 9], [label |-> cup, no |-> None]}

\* One game of the CSV file: the second player selected at random.
CsvOfSeason9 ==
  (season7 :> <<>>) @@ (season9 :> <<[s \in Seats |-> s = 2]>>) @@ (cup :> <<>>)
=============================================================================
