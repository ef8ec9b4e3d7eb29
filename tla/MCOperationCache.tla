--------------------------- MODULE MCOperationCache ---------------------------
(***************************************************************************)
(* A small instance of OperationCache for TLC.                             *)
(***************************************************************************)
EXTENDS OperationCache, TLC

\* Two operations, each of which is finished by its first save.
BothWatched == 1 :> 1 @@ 2 :> 2
BothFinal == 1 :> 2 @@ 2 :> 2
=============================================================================
