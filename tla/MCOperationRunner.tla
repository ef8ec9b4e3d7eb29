------------------------- MODULE MCOperationRunner -------------------------
(***************************************************************************)
(* Small instances of OperationRunner for TLC.                             *)
(***************************************************************************)
EXTENDS OperationRunnerInvariant, TLC

WorkerSymmetry == Permutations(Workers)

\* One restore of two seats.
OneOpOf == 1 :> 1 @@ 2 :> 1
OneSeatOf == 1 :> "s1" @@ 2 :> "s2"
OneType == 1 :> "RESTORE"

\* A restore of four seats, the first without a desktop, and then a shutdown of
\* one of them.
MixedOpOf == 1 :> 1 @@ 2 :> 1 @@ 3 :> 1 @@ 4 :> 1 @@ 5 :> 2
MixedSeatOf ==
    1 :> "s1" @@ 2 :> "s2" @@ 3 :> "s3" @@ 4 :> "s4" @@ 5 :> "s2"
MixedTypes == 1 :> "RESTORE" @@ 2 :> "SHUTDOWN"

\* A start and a shutdown of the same seat.
PairOpOf == 1 :> 1 @@ 2 :> 2
PairSeatOf == 1 :> "s1" @@ 2 :> "s1"
PairTypes == 1 :> "START" @@ 2 :> "SHUTDOWN"
=============================================================================
