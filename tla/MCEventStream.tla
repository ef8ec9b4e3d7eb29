--------------------------- MODULE MCEventStream ---------------------------
(***************************************************************************)
(* Small instances of EventStream for TLC.                                 *)
(***************************************************************************)
EXTENDS EventStream, TLC

ClientSymmetry == Permutations(Clients)

\* Every event source watches operation 1, which is terminal at its second save ...
SameWatches == [c \in Clients |-> 1]
SameFinal == 1 :> 3

\* ... or at its first.
SoonFinal == 1 :> 2
=============================================================================
