------------------------- MODULE MCOperationCreation -------------------------
(***************************************************************************)
(* Small instances of OperationCreation for TLC.                           *)
(***************************************************************************)
EXTENDS OperationCreation

\* Both seats with a repetition, one seat, and a seat the classroom does not have.
SomeBodies == {<<2, 1, 2>>, <<1>>, <<3>>}
NoBodies == {}
=============================================================================
