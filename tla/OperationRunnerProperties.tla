---------------------- MODULE OperationRunnerProperties ----------------------
(***************************************************************************)
(* What the operation worker promises.  Every property says under which    *)
(* environment it holds: the runs choose the budgets accordingly.          *)
(***************************************************************************)
EXTENDS OperationRunner

ItemRecords == [status : ItemStatuses, upid : Nat]
MemoryRecords ==
    [op : Ops \cup {NoOp}, status : OperationStatuses, version : Nat,
     items : [Items -> ItemRecords]]
Labels ==
    {"idle", "stopped", "load", "loadItems", "begin", "validate", "check",
     "wave", "mark", "submit", "send", "reply", "saveSubmit", "wait",
     "unresolved", "result", "saveResult", "finish", "fail"}
ControlRecords ==
    [at : Labels, rest : SUBSET Items, wave : SUBSET Items,
     todo : SUBSET Items, call : Nat]
RequestRecords ==
    [item : Items, state : {"sent", "refused", "running", "ok", "failed"}]

LeaseRecords == [owner : Workers \cup {NoWorker}, until : {"ahead", "passed"}]
SeatRecords == [state : ItemStatuses, power : {"RUNNING", "STOPPED", "UNKNOWN"}]

\* Every variable has the shape the code gives it, and a worker that executes
\* holds the copy of some operation.
TypeOK ==
    /\ row \in [Ops -> [status : OperationStatuses, version : Nat]]
    /\ items \in [Items -> ItemRecords]
    /\ lease \in [Ops -> LeaseRecords]
    /\ seats \in [Seats -> SeatRecords]
    /\ pve \in Seq(RequestRecords)
    /\ mem \in [Workers -> MemoryRecords]
    /\ ctl \in [Workers -> ControlRecords]
    /\ stops \in Nat /\ stalls \in Nat /\ faults \in Nat
    /\ \A w \in Workers : Working(w) => mem[w].op \in Ops
-----------------------------------------------------------------------------
(* In every environment.                                                     *)

\* runner.go 248-252: a UPID, once stored, is never lost or replaced, whichever
\* worker saves last: the comparison of versions makes a stale copy fail.
UpidIsStable ==
    [][\A i \in Items : items[i].upid # NoUPID => items'[i].upid = items[i].upid]_vars

\* The stored operations only move forward: along the table of transitions, with
\* results and UPIDs that stay, and not at all once they are finished, not even by a
\* worker that claimed an operation just before another one finished it.
Promise == INSTANCE OperationPromise WITH status <- [o \in Ops |-> row[o].status]
IsOperationPromise == Promise!PromiseSpec

\* A stored result is the result of the PVE task of that very item: what is
\* recorded as SUCCEEDED did succeed, what failed with a UPID did fail.
OutcomeIsTrue ==
    \A i \in Items :
        LET r == items[i].upid IN
        /\ r # NoUPID => r \in DOMAIN pve /\ pve[r].item = i
        /\ items[i].status = "SUCCEEDED" => r # NoUPID /\ pve[r].state = "ok"
        /\ items[i].status = "FAILED" /\ r # NoUPID => pve[r].state = "failed"

\* A finished operation has no open item and no lease, never claims a success it
\* did not have, and is PARTIALLY_SUCCEEDED only when results really differ.
TerminalIsConsistent ==
    \A o \in Ops : Terminal(row[o].status) =>
        LET results == {items[i].status : i \in ItemsOf(o)} IN
        /\ results \subseteq SettledStatuses
        /\ row[o].status = "SUCCEEDED" => results \subseteq {"SUCCEEDED"}
        /\ row[o].status = "PARTIALLY_SUCCEEDED" =>
                "SUCCEEDED" \in results /\ results # {"SUCCEEDED"}
        /\ lease[o] = NoLease

\* Nothing is sent to PVE for an item before the store shows that the item was
\* taken up, so that an interrupted submission can always be noticed.
IntentIsRecorded ==
    \A r \in DOMAIN pve : items[pve[r].item].status # "QUEUED"

\* The power state shown for a desktop comes from a task that really succeeded.
PowerIsEarned ==
    \A s \in Seats : seats[s].power # "UNKNOWN" =>
        \E r \in DOMAIN pve :
            /\ SeatOf[pve[r].item] = s
            /\ pve[r].state = "ok"
            /\ seats[s].power = IF OpType[OpOf[pve[r].item]] = "SHUTDOWN"
                                THEN "STOPPED" ELSE "RUNNING"

\* Why UpidIsStable holds: a copy is never newer than the row; a copy of the
\* current version has every stored UPID; and a worker only submits an item for
\* which its own copy has none.  Together with TypeOK this is inductive.
Loaded(w) == Working(w) /\ ctl[w].at \notin {"load", "loadItems"}

CopyIsNotAhead ==
    \A w \in Workers : Working(w) => mem[w].version <= row[mem[w].op].version

CopyKnowsUpids ==
    \A w \in Workers : Loaded(w) /\ mem[w].version = row[mem[w].op].version =>
        \A i \in ItemsOf(mem[w].op) :
            items[i].upid # NoUPID => mem[w].items[i].upid = items[i].upid

SubmitsWithoutUpid ==
    \A w \in Workers : ctl[w].at \in {"send", "reply"} =>
        \A i \in Items : IsFirst(i, ctl[w].todo) => mem[w].items[i].upid = NoUPID

CopyInv == TypeOK /\ CopyIsNotAhead /\ CopyKnowsUpids /\ SubmitsWithoutUpid
-----------------------------------------------------------------------------
(* While no lease expires under a worker that is still executing.            *)

\* At most one worker executes an operation.
SoleExecutor ==
    stalls = 0 => \A o \in Ops, v, w \in Workers :
        Working(v) /\ Working(w) /\ mem[v].op = o /\ mem[w].op = o => v = w

\* A request is only sent for an item the store shows as RUNNING without a UPID:
\* no item whose task or whose uncertain outcome is recorded is submitted again.
OnlyMarkedIsSubmitted ==
    [][\A i \in Items :
        stalls = 0 /\ Len(pve') > Len(pve) /\ pve'[Len(pve')].item = i
            => items[i] = [status |-> "RUNNING", upid |-> NoUPID]]_vars

\* The terminal status is the one finalize derives from the items, even when
\* several workers contributed to them.  (An operation ended by fail is FAILED
\* whatever its items say, which takes a store error or a lost lease.)
TerminalIsClassified ==
    stalls = 0 /\ faults = 0 => \A o \in Ops : Terminal(row[o].status) =>
        row[o].status = FinalStatus({items[i].status : i \in ItemsOf(o)})

\* The items whose operation may have touched a seat.
Touching(s) == {i \in Items : SeatOf[i] = s /\ row[OpOf[i]].status # "QUEUED"}

\* Once all the operations begun on a seat are finished, the seat shows the result of
\* one of them, with a single one that of its item: operation_state is the state of the
\* current task (product-domain.md, line 111).
SeatShowsResult ==
    stalls = 0 => \A s \in Seats :
        /\ Touching(s) # {}
        /\ \A i \in Touching(s) : Terminal(row[OpOf[i]].status)
        => \E i \in Touching(s) : seats[s].state = items[i].status
-----------------------------------------------------------------------------
(* While no process stops or stalls and at most one repository call fails.   *)

Taken(i) ==
    {r \in DOMAIN pve :
        pve[r].item = i /\ pve[r].state \in {"running", "ok", "failed"}}
InProgress == {r \in DOMAIN pve : pve[r].state = "running"}

\* When an operation is finished, every task that PVE took for one of its items
\* is either the recorded one or the item is honestly UNKNOWN.
NoSilentTask ==
    stops = 0 /\ stalls = 0 /\ faults <= 1 => \A o \in Ops : Terminal(row[o].status) =>
        \A i \in ItemsOf(o), r \in DOMAIN pve :
            r \in Taken(i) => items[i].upid = r \/ items[i].status = "UNKNOWN"

\* The tasks in progress that the store does not admit to have lost sight of.
Followed == {r \in InProgress : items[pve[r].item].status # "UNKNOWN"}

\* An operation has no more tasks in progress than a wave has items, those of
\* UNKNOWN items aside.  (After a repository error a worker that starts over
\* follows such tasks again, beside those of the wave it was at.)
WaveIsBounded ==
    stops = 0 /\ stalls = 0 /\ faults = 0 =>
        \A o \in Ops :
            Cardinality({r \in Followed : OpOf[pve[r].item] = o}) <= WaveSize

\* platform-engineering.md, line 119: a virtual machine executes at most one of
\* the mutually exclusive operations at a time, if not for an UNKNOWN item.
VmIsExclusive ==
    \A r, q \in Followed :
        SeatOf[pve[r].item] = SeatOf[pve[q].item] => r = q

\* runner.go 248-249: a task PVE took is tracked, "instead of blindly submitting
\* the destructive action again".
NoBlindResubmission == \A i \in Items : Cardinality(Taken(i)) <= 1
-----------------------------------------------------------------------------
(* With fair workers, as long as one survives.                               *)

\* Every operation reaches a terminal status, whichever worker stops or stalls.
EveryOperationEnds == \A o \in Ops : <>Terminal(row[o].status)
=============================================================================
