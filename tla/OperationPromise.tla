--------------------------- MODULE OperationPromise ---------------------------
(***************************************************************************)
(* What the workers together promise to everybody who looks at the stored  *)
(* operations (the API, the event streams, the pages): the record of an    *)
(* operation only ever moves forward.  Nothing is said of workers, leases, *)
(* versions, PVE or seats.  OperationRunner implements it in every         *)
(* environment: IsOperationPromise in OperationRunnerProperties.           *)
(***************************************************************************)
EXTENDS Naturals, OperationLifecycle

CONSTANTS
    Ops,     \* operations
    Items,   \* their items
    OpOf     \* the operation of an item

VARIABLES
    status,  \* the status of every operation
    items    \* of every item the status and the UPID, 0 while it has none

promised == <<status, items>>
-----------------------------------------------------------------------------
ItemRecord == [status : ItemStatuses, upid : Nat]

\* Item statuses that tell a result.  (UNKNOWN does not: the task of an UNKNOWN
\* item whose UPID is known is asked for again.)
ResultStatuses == {"SUCCEEDED", "FAILED", "SKIPPED"}

\* What may become of an item: a UPID is kept, a result is final, an outcome that
\* nobody can ask for stays unknown, and nobody forgets that an item was taken up.
Forward(old, new) ==
    /\ old.upid # 0 => new.upid = old.upid
    /\ old.status \in ResultStatuses => new = old
    /\ old.status = "UNKNOWN" /\ old.upid = 0 => new = old
    /\ old.status # "QUEUED" => new.status # "QUEUED"

\* An operation that is not finished is saved: along the table of transitions, and
\* as finished only when none of its items is open.
Advance(o) ==
    /\ status[o] \notin TerminalStatuses
    /\ status' \in {[status EXCEPT ![o] = to] : to \in OperationStatuses}
    /\ CanTransition(status[o], status'[o])
    /\ items' \in [Items -> ItemRecord]
    /\ \A i \in Items : IF OpOf[i] = o THEN Forward(items[i], items'[i])
                                       ELSE items'[i] = items[i]
    /\ status'[o] \in TerminalStatuses =>
            \A i \in Items : OpOf[i] = o => items'[i].status \in SettledStatuses

PromiseInit ==
    /\ status = [o \in Ops |-> "QUEUED"]
    /\ items = [i \in Items |-> [status |-> "QUEUED", upid |-> 0]]

PromiseNext == \E o \in Ops : Advance(o)

PromiseSpec == PromiseInit /\ [][PromiseNext]_promised
=============================================================================
