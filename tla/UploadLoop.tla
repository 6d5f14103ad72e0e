------------------------------ MODULE UploadLoop ------------------------------
(***************************************************************************)
(* What a batch upload promises: the files of the request are taken one    *)
(* after the other, and each is answered with what becomes of it.          *)
(***************************************************************************)
EXTENDS Naturals, Sequences

CONSTANTS MaxFiles,  \* bound: files of a request
          Fates      \* what may become of a file

VARIABLES fate,      \* [1 .. number of files -> Fates], fixed by the request
          results    \* the "results" array of the answer

LoopInit ==
  /\ \E n \in 0 .. MaxFiles : fate \in [1 .. n -> Fates]
  /\ results = <<>>

LoopNext ==
  /\ LET i == Len(results) + 1 IN
     /\ i \in DOMAIN fate
     /\ results' = Append(results, [file |-> i, status |-> fate[i]])
  /\ fate' = fate

LoopSpec == LoopInit /\ [][LoopNext]_<<fate, results>>
=============================================================================
