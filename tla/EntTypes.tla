------------------------------ MODULE EntTypes -------------------------------
(***************************************************************************)
(* What a column may hold, as far as the generated client tells values     *)
(* apart: NULL, the zero value of its Go type, and anything else.  Some is *)
(* also the one value the defaults of the schema stand for.                *)
(***************************************************************************)
EXTENDS Integers, Sequences, FiniteSets

Nil == -1
Zero == 0
Some == 1
Now == 2
=============================================================================
