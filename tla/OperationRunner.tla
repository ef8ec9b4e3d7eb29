--------------------------- MODULE OperationRunner ---------------------------
(***************************************************************************)
(* The operation worker of server/internal/operations/runner.go, running   *)
(* against the PostgreSQL repository of server/internal/store/postgres.go  *)
(* and an external Proxmox VE.                                             *)
(*                                                                         *)
(* A worker claims the oldest claimable operation, executes it item by     *)
(* item in waves, and writes its private copy back with a compare-and-set  *)
(* on resource_version.  Every repository call is one atomic step (one SQL *)
(* statement or one transaction), so other workers, PVE and the clock of   *)
(* the lease interleave between any two of them.                           *)
(*                                                                         *)
(* A worker is one process: its identity is drawn at random when it starts *)
(* (NewRunner), so a restarted worker is another member of Workers.        *)
(***************************************************************************)
EXTENDS Naturals, Sequences, FiniteSets, OperationLifecycle

CONSTANTS
    Workers,        \* worker processes, over the whole run
    NoWorker,       \* a lease_owner that is NULL
    Ops,            \* operations, numbered in the order of created_at
    Items,          \* operation items, numbered in the order of seat_label
    Seats,
    OpOf,           \* the operation an item belongs to
    SeatOf,         \* the seat an item acts on
    OpType,         \* the type of an operation
    NoDesktop,      \* items whose seat has no virtual desktop
    NoSnapshot,     \* items whose desktop has no baseline snapshot
    WaveSize,       \* RunnerConfig.WaveSize
    PveFaults,      \* TRUE: calls to PVE may time out or lose their answer
    MaxMishaps,     \* how often a worker process stops or stalls until its lease expires
    MaxFaults       \* how many repository calls may return an error

ASSUME OpsAssumption == Ops \subseteq Nat \ {0}
ASSUME ItemsAssumption ==
    /\ Items \subseteq Nat \ {0}
    /\ IsFiniteSet(Items)
    /\ OpOf \in [Items -> Ops]
    /\ SeatOf \in [Items -> Seats]
    /\ OpType \in [Ops -> OperationTypes]
    /\ NoDesktop \subseteq Items
    /\ NoSnapshot \subseteq Items
\* UNIQUE (operation_id, seat_id): an operation has one item of a seat.
ASSUME SeatsAssumption ==
    \A i, j \in Items : OpOf[i] = OpOf[j] /\ SeatOf[i] = SeatOf[j] => i = j
ASSUME WorkersAssumption == NoWorker \notin Workers
ASSUME BoundsAssumption ==
    /\ WaveSize \in Nat \ {0}
    /\ MaxMishaps \in Nat
    /\ MaxFaults \in Nat
    /\ PveFaults \in BOOLEAN

VARIABLES
    row,     \* operations table: status and resource_version
    items,   \* operation_items table: status and upid
    lease,   \* operations table: lease_owner, and whether lease_until has passed
    seats,   \* seats.operation_state and virtual_desktops.observed_state
    pve,     \* every mutating request sent to PVE; its UPID is its position
    mem,     \* the worker's private copy of the operation it executes
    ctl,     \* where the worker is in execute, and its loop variables
    stops, stalls, faults    \* how much of the three budgets is used

stored == <<row, items, lease, seats>>
budgets == <<stops, stalls, faults>>
vars == <<row, items, lease, seats, pve, mem, ctl, stops, stalls, faults>>
-----------------------------------------------------------------------------
NoOp == 0
NoUPID == 0

NoLease == [owner |-> NoWorker, until |-> "ahead"]
NewItem == [status |-> "QUEUED", upid |-> NoUPID]
NoMemory == [op |-> NoOp, status |-> "QUEUED", version |-> 0,
             items |-> [i \in Items |-> NewItem]]

ItemsOf(o) == {i \in Items : OpOf[i] = o}
Terminal(status) == status \in TerminalStatuses

\* A place in execute: its label, the pending items of the waves to come, the
\* items of this wave, those its innermost loop has left, and the request whose
\* answer is awaited.
At(label) == [at |-> label, rest |-> {}, wave |-> {}, todo |-> {}, call |-> 0]
Idle == At("idle")
Failing == At("fail")

Working(w) == ctl[w].at \notin {"idle", "stopped"}

\* The item a loop is at: loops visit items in the order of seat_label.
IsFirst(i, todo) == i \in todo /\ \A j \in todo : i <= j

\* The first WaveSize of a set of pending items (and an off-by-one mutation).
Mut_WaveTooLarge(pending) ==
    {i \in pending : Cardinality({j \in pending : j < i}) <= WaveSize}

NextWave(pending) ==
    {i \in pending : Cardinality({j \in pending : j < i}) < WaveSize}

WithItem(m, i, status) == [m EXCEPT !.items[i].status = status]

\* Items the validation loop fails without asking PVE.
Unready(m) ==
    {i \in ItemsOf(m.op) :
        \/ OpType[m.op] # "PRECHECK" /\ i \in NoDesktop
        \/ OpType[m.op] = "RESTORE" /\ i \in NoSnapshot}

\* Mutation: UNKNOWN items are taken up again, with or without a UPID.
Mut_PendingUnknown(m) ==
    {i \in ItemsOf(m.op) :
        m.items[i].status \notin {"SUCCEEDED", "FAILED", "SKIPPED"}}

\* pendingItemIndexes: an UNKNOWN item is taken up again only with a UPID.
Pending(m) ==
    {i \in ItemsOf(m.op) :
        /\ m.items[i].status \notin {"SUCCEEDED", "FAILED", "SKIPPED"}
        /\ ~(m.items[i].status = "UNKNOWN" /\ m.items[i].upid = NoUPID)}

\* Mutation: an operation found WAITING_PVE is taken for finished.
Mut_ResumeForgetsTasks(m) ==
    CASE m.status = "QUEUED" -> At("validate")
      [] m.status = "VALIDATING" -> [At("check") EXCEPT !.todo = Unready(m)]
      [] m.status \in {"WAITING_PVE", "VERIFYING"} -> At("finish")
      [] OTHER -> [At("wave") EXCEPT !.rest = Pending(m)]

\* Where execute goes on from the status it finds after its first renewal.
Resume(m) ==
    CASE m.status = "QUEUED" -> At("validate")
      [] m.status = "VALIDATING" -> [At("check") EXCEPT !.todo = Unready(m)]
      [] m.status = "VERIFYING" -> At("finish")
      [] OTHER -> [At("wave") EXCEPT !.rest = Pending(m)]
-----------------------------------------------------------------------------
(* Repository calls.  Each takes the worker's copy as it is when the call is *)
(* made and the place to go to when it succeeds; any error leads to fail.    *)

Fault == faults < MaxFaults /\ faults' = faults + 1

Commit(m) ==
    /\ row' = [row EXCEPT ![m.op] = [status |-> m.status,
                                     version |-> m.version + 1]]
    /\ items' = [i \in Items |->
                    IF OpOf[i] = m.op THEN m.items[i] ELSE items[i]]
    /\ lease' = IF Terminal(m.status)
                THEN [lease EXCEPT ![m.op] = NoLease]
                ELSE lease

\* Mutation: the WHERE clause of SaveOperation forgets resource_version.
Mut_AlwaysCurrent(m) == m.version \in Nat

Current(m) == row[m.op].version = m.version

\* SaveOperation: a compare-and-set on resource_version; the lease is not looked
\* at.  A commit whose answer is lost leaves the copy with the old version.
Save(w, m, next) ==
    /\ UNCHANGED <<seats, pve, stops, stalls>>
    /\ \/ /\ Current(m)
          /\ Commit(m)
          /\ mem' = [mem EXCEPT ![w] = IF next = Idle THEN NoMemory
                                       ELSE [m EXCEPT !.version = m.version + 1]]
          /\ ctl' = [ctl EXCEPT ![w] = next]
          /\ UNCHANGED faults
       \/ /\ ~Current(m)
          /\ mem' = [mem EXCEPT ![w] = m]
          /\ ctl' = [ctl EXCEPT ![w] = Failing]
          /\ UNCHANGED <<row, items, lease, faults>>
       \/ /\ Fault
          /\ \/ Current(m) /\ Commit(m)
             \/ UNCHANGED <<row, items, lease>>
          /\ mem' = [mem EXCEPT ![w] = m]
          /\ ctl' = [ctl EXCEPT ![w] = Failing]

\* Transition followed by SaveOperation; a refused transition is an error too.
SaveAs(w, status, m, next) ==
    IF CanTransition(m.status, status)
    THEN Save(w, [m EXCEPT !.status = status], next)
    ELSE /\ ctl' = [ctl EXCEPT ![w] = Failing]
         /\ mem' = [mem EXCEPT ![w] = m]
         /\ UNCHANGED <<stored, pve, budgets>>

HoldsLease(w, o) == lease[o].owner = w /\ ~Terminal(row[o].status)

\* RenewOperationLease: the owner must match, the expiry is not looked at.  (A
\* renewal that happened but whose answer was lost is covered: the lease may
\* also lapse later.)
Renew(w, next) ==
    /\ UNCHANGED <<row, items, seats, pve, mem, stops, stalls>>
    /\ \/ /\ HoldsLease(w, mem[w].op)
          /\ lease' = [lease EXCEPT ![mem[w].op].until = "ahead"]
          /\ ctl' = [ctl EXCEPT ![w] = next]
          /\ UNCHANGED faults
       \/ /\ ~HoldsLease(w, mem[w].op)
          /\ ctl' = [ctl EXCEPT ![w] = Failing]
          /\ UNCHANGED <<lease, faults>>
       \/ /\ Fault
          /\ ctl' = [ctl EXCEPT ![w] = Failing]
          /\ UNCHANGED lease

\* Mutation: any result sets the power state.
Mut_SeatAfterAny(seat, t, status) ==
    [state |-> status,
     power |-> CASE t \in {"START", "RESTORE"} -> "RUNNING"
                 [] t = "SHUTDOWN" -> "STOPPED"
                 [] OTHER -> seat.power]

\* The seat after a result of type t: only a success says something about power.
SeatAfter(seat, t, status) ==
    [state |-> status,
     power |-> CASE status = "SUCCEEDED" /\ t \in {"START", "RESTORE"} -> "RUNNING"
                 [] status = "SUCCEEDED" /\ t = "SHUTDOWN" -> "STOPPED"
                 [] OTHER -> seat.power]

\* The worker sets the status of item i in its copy and then calls
\* ApplyOperationItemResult, which looks at neither version nor lease.
Apply(w, i, status, next) ==
    LET applied == [seats EXCEPT ![SeatOf[i]] =
                        SeatAfter(@, OpType[mem[w].op], status)]
    IN  /\ mem' = [mem EXCEPT ![w] = WithItem(@, i, status)]
        /\ UNCHANGED <<row, items, lease, pve, stops, stalls>>
        /\ \/ /\ seats' = applied
              /\ ctl' = [ctl EXCEPT ![w] = next]
              /\ UNCHANGED faults
           \/ /\ Fault
              /\ seats' \in {seats, applied}
              /\ ctl' = [ctl EXCEPT ![w] = Failing]
-----------------------------------------------------------------------------
(* Claiming an operation.                                                    *)

\* Mutation: the claim does not look at the lease.
Mut_ClaimableLeased(w, o) ==
    row[o].status \notin TerminalStatuses \cup {"CANCEL_REQUESTED"}

\* Mutation: the claim never takes over an expired lease.
Mut_ClaimableNoTakeover(w, o) ==
    /\ row[o].status \notin TerminalStatuses \cup {"CANCEL_REQUESTED"}
    /\ lease[o].owner \in {NoWorker, w}

Claimable(w, o) ==
    /\ row[o].status \notin TerminalStatuses \cup {"CANCEL_REQUESTED"}
    /\ lease[o].owner \in {NoWorker, w} \/ lease[o].until = "passed"

\* ClaimNextOperation takes the oldest claimable row.  FOR UPDATE SKIP LOCKED
\* may pass over a row that another worker is writing at that moment.
Claim(w, o) ==
    /\ ctl[w].at = "idle"
    /\ Claimable(w, o)
    /\ \A p \in Ops : p < o /\ Claimable(w, p) =>
            \E v \in Workers \ {w} : Working(v) /\ mem[v].op = p
    /\ lease' = [lease EXCEPT ![o] = [owner |-> w, until |-> "ahead"]]
    /\ mem' = [mem EXCEPT ![w] = [NoMemory EXCEPT !.op = o]]
    /\ ctl' = [ctl EXCEPT ![w] = At("load")]
    /\ UNCHANGED <<row, items, seats, pve, budgets>>

\* drain finds nothing to claim and sleeps until the next tick.
Poll(w) ==
    /\ ctl[w].at = "idle"
    /\ \A o \in Ops : ~Claimable(w, o)
    /\ UNCHANGED vars

\* GetOperation reads the row and then its items in two statements without a
\* transaction.
LoadRow(w) ==
    /\ ctl[w].at = "load"
    /\ mem' = [mem EXCEPT ![w].status = row[mem[w].op].status,
                          ![w].version = row[mem[w].op].version]
    /\ ctl' = [ctl EXCEPT ![w] = At("loadItems")]
    /\ UNCHANGED <<stored, pve, budgets>>

LoadItems(w) ==
    /\ ctl[w].at = "loadItems"
    /\ mem' = [mem EXCEPT ![w].items =
                    [i \in Items |->
                        IF OpOf[i] = mem[w].op THEN items[i] ELSE NewItem]]
    /\ ctl' = [ctl EXCEPT ![w] = At("begin")]
    /\ UNCHANGED <<stored, pve, budgets>>

\* Mutation: an operation that could not be read is executed all the same.
Mut_LoadFailsRuns(w) ==
    /\ ctl[w].at \in {"load", "loadItems"}
    /\ Fault
    /\ ctl' = [ctl EXCEPT ![w] = At("begin")]
    /\ mem' = [mem EXCEPT ![w] = NoMemory]
    /\ UNCHANGED <<stored, pve, stops, stalls>>

\* An error of the claim or of GetOperation ends the drain; the lease remains.
LoadFails(w) ==
    /\ ctl[w].at \in {"load", "loadItems"}
    /\ Fault
    /\ ctl' = [ctl EXCEPT ![w] = Idle]
    /\ mem' = [mem EXCEPT ![w] = NoMemory]
    /\ UNCHANGED <<stored, pve, stops, stalls>>
-----------------------------------------------------------------------------
(* execute.                                                                  *)

Begin(w) == ctl[w].at = "begin" /\ Renew(w, Resume(mem[w]))

Validate(w) ==
    /\ ctl[w].at = "validate"
    /\ SaveAs(w, "VALIDATING", mem[w],
              [At("check") EXCEPT !.todo = Unready(mem[w])])

\* An item without a desktop, or to be restored without a snapshot, fails.
Check(w) ==
    /\ ctl[w].at = "check"
    /\ \E i \in ctl[w].todo :
        /\ IsFirst(i, ctl[w].todo)
        /\ Apply(w, i, "FAILED", [ctl[w] EXCEPT !.todo = @ \ {i}])

StartRunning(w) ==
    /\ ctl[w].at = "check"
    /\ ctl[w].todo = {}
    /\ SaveAs(w, "RUNNING", mem[w],
              [At("wave") EXCEPT !.rest = Pending(mem[w])])

\* The head of the wave loop.
StartWave(w) ==
    LET wave == NextWave(ctl[w].rest)
    IN  /\ ctl[w].at = "wave"
        /\ ctl[w].rest # {}
        /\ Renew(w, [ctl[w] EXCEPT
                !.at = "mark", !.wave = wave, !.rest = @ \ wave,
                !.todo = {i \in wave :
                            mem[w].items[i].status \in {"QUEUED", "RUNNING"}}])

Mark(w) ==
    /\ ctl[w].at = "mark"
    /\ \E i \in ctl[w].todo :
        /\ IsFirst(i, ctl[w].todo)
        /\ Apply(w, i, "RUNNING", [ctl[w] EXCEPT !.todo = @ \ {i}])

\* Mutation: the wave is submitted before it is saved.
Mut_WaveNotSaved(w) ==
    /\ ctl[w].at = "mark"
    /\ ctl[w].todo = {}
    /\ mem' = [mem EXCEPT ![w].status = "RUNNING"]
    /\ ctl' = [ctl EXCEPT ![w].at = "submit", ![w].todo = ctl[w].wave]
    /\ UNCHANGED <<stored, pve, budgets>>

\* The move to RUNNING, made in memory at the head of the wave, is saved here.
SaveWave(w) ==
    /\ ctl[w].at = "mark"
    /\ ctl[w].todo = {}
    /\ SaveAs(w, "RUNNING", mem[w],
              [ctl[w] EXCEPT !.at = "submit", !.todo = ctl[w].wave])

\* An item that already has a UPID is tracked and not submitted again.
Track(w) ==
    /\ ctl[w].at = "submit"
    /\ \E i \in ctl[w].todo :
        /\ IsFirst(i, ctl[w].todo)
        /\ mem[w].items[i].upid # NoUPID
        /\ mem' = [mem EXCEPT ![w] = WithItem(@, i, "WAITING_PVE")]
        /\ ctl' = [ctl EXCEPT ![w].todo = @ \ {i}]
    /\ UNCHANGED <<stored, pve, budgets>>

RenewForSubmit(w) ==
    /\ ctl[w].at = "submit"
    /\ \E i \in ctl[w].todo :
        /\ IsFirst(i, ctl[w].todo)
        /\ mem[w].items[i].upid = NoUPID
    /\ Renew(w, [ctl[w] EXCEPT !.at = "send"])

\* adapter.Submit sends its request ...
Send(w) ==
    /\ ctl[w].at = "send"
    /\ \E i \in ctl[w].todo :
        /\ IsFirst(i, ctl[w].todo)
        /\ pve' = Append(pve, [item |-> i, state |-> "sent"])
    /\ ctl' = [ctl EXCEPT ![w].at = "reply", ![w].call = Len(pve) + 1]
    /\ UNCHANGED <<stored, mem, budgets>>

\* ... and returns a UPID, which is saved at once ...
Accepted(w) ==
    /\ ctl[w].at = "reply"
    /\ pve[ctl[w].call].state \in {"running", "ok", "failed"}
    /\ \E i \in ctl[w].todo :
        /\ IsFirst(i, ctl[w].todo)
        /\ Save(w, [mem[w] EXCEPT !.items[i] =
                        [status |-> "WAITING_PVE", upid |-> ctl[w].call]],
                [ctl[w] EXCEPT !.at = "submit", !.todo = @ \ {i}, !.call = 0])

\* Mutation: a lost answer is taken for a refusal.
Mut_TimeoutIsRefusal(w) ==
    /\ ctl[w].at = "reply"
    /\ pve[ctl[w].call].state = "refused" \/ PveFaults
    /\ \E i \in ctl[w].todo :
        /\ IsFirst(i, ctl[w].todo)
        /\ Apply(w, i, "FAILED", [ctl[w] EXCEPT !.at = "saveSubmit", !.call = 0])

\* ... or an error: FAILED when PVE certainly did not take the request, UNKNOWN
\* when that cannot be told.
NotAccepted(w) ==
    /\ ctl[w].at = "reply"
    /\ \E i \in ctl[w].todo, status \in {"FAILED", "UNKNOWN"} :
        /\ IsFirst(i, ctl[w].todo)
        /\ \/ status = "FAILED" /\ pve[ctl[w].call].state = "refused"
           \/ status = "UNKNOWN" /\ PveFaults
        /\ Apply(w, i, status, [ctl[w] EXCEPT !.at = "saveSubmit", !.call = 0])

SaveSubmit(w) ==
    /\ ctl[w].at = "saveSubmit"
    /\ \E i \in ctl[w].todo :
        /\ IsFirst(i, ctl[w].todo)
        /\ Save(w, mem[w], [ctl[w] EXCEPT !.at = "submit", !.todo = @ \ {i}])

\* Mutation: the tasks of the wave are not waited for.
Mut_NotWaiting(w) ==
    /\ ctl[w].at = "submit"
    /\ ctl[w].todo = {}
    /\ SaveAs(w, "WAITING_PVE", mem[w], [ctl[w] EXCEPT !.at = "wait"])

\* The whole wave is submitted: wait for its items that are not settled.
StartWaiting(w) ==
    /\ ctl[w].at = "submit"
    /\ ctl[w].todo = {}
    /\ SaveAs(w, "WAITING_PVE", mem[w],
              [ctl[w] EXCEPT
                !.at = "wait",
                !.todo = {i \in ctl[w].wave :
                            mem[w].items[i].status \notin SettledStatuses}])

\* waitForPVE returns a result: the item is saved as VERIFYING first.
TaskEnded(w) ==
    /\ ctl[w].at = "wait"
    /\ \E i \in ctl[w].todo :
        /\ IsFirst(i, ctl[w].todo)
        /\ pve[mem[w].items[i].upid].state \in {"ok", "failed"}
        /\ Save(w, WithItem(mem[w], i, "VERIFYING"),
                [ctl[w] EXCEPT !.at = "result"])

\* Mutation: a task that ended counts as a success.
Mut_ResultNotRead(w) ==
    /\ ctl[w].at = "result"
    /\ \E i \in ctl[w].todo :
        /\ IsFirst(i, ctl[w].todo)
        /\ Apply(w, i, "SUCCEEDED", [ctl[w] EXCEPT !.at = "saveResult"])

Result(w) ==
    /\ ctl[w].at = "result"
    /\ \E i \in ctl[w].todo :
        /\ IsFirst(i, ctl[w].todo)
        /\ Apply(w, i,
                 IF pve[mem[w].items[i].upid].state = "ok" THEN "SUCCEEDED"
                                                           ELSE "FAILED",
                 [ctl[w] EXCEPT !.at = "saveResult"])

\* The heartbeat of waitForPVE finds the lease expired but still its own.
Heartbeat(w) ==
    /\ ctl[w].at = "wait"
    /\ ctl[w].todo # {}
    /\ HoldsLease(w, mem[w].op)
    /\ lease[mem[w].op].until = "passed"
    /\ lease' = [lease EXCEPT ![mem[w].op].until = "ahead"]
    /\ UNCHANGED <<row, items, seats, pve, mem, ctl, budgets>>

\* waitForPVE returns an error: PVE did not answer or the task timed out, the
\* heartbeat lost the lease, or the heartbeat itself failed.
WaitFails(w) ==
    /\ ctl[w].at = "wait"
    /\ ctl[w].todo # {}
    /\ \/ PveFaults /\ UNCHANGED faults
       \/ ~HoldsLease(w, mem[w].op) /\ UNCHANGED faults
       \/ Fault
    /\ ctl' = [ctl EXCEPT ![w].at = "unresolved"]
    /\ UNCHANGED <<stored, pve, mem, stops, stalls>>

\* Mutation: the seat is not told of an unknown outcome.
Mut_UnresolvedSilent(w) ==
    /\ ctl[w].at = "unresolved"
    /\ \E i \in ctl[w].todo :
        /\ IsFirst(i, ctl[w].todo)
        /\ mem' = [mem EXCEPT ![w] = WithItem(@, i, "UNKNOWN")]
    /\ ctl' = [ctl EXCEPT ![w].at = "saveResult"]
    /\ UNCHANGED <<stored, pve, budgets>>

Unresolved(w) ==
    /\ ctl[w].at = "unresolved"
    /\ \E i \in ctl[w].todo :
        /\ IsFirst(i, ctl[w].todo)
        /\ Apply(w, i, "UNKNOWN", [ctl[w] EXCEPT !.at = "saveResult"])

SaveResult(w) ==
    /\ ctl[w].at = "saveResult"
    /\ \E i \in ctl[w].todo :
        /\ IsFirst(i, ctl[w].todo)
        /\ Save(w, mem[w], [ctl[w] EXCEPT !.at = "wait", !.todo = @ \ {i}])

EndWave(w) ==
    /\ ctl[w].at = "wait"
    /\ ctl[w].todo = {}
    /\ ctl' = [ctl EXCEPT ![w] = [At("wave") EXCEPT !.rest = ctl[w].rest]]
    /\ UNCHANGED <<stored, pve, mem, budgets>>

\* No wave is left.
Verify(w) ==
    /\ ctl[w].at = "wave"
    /\ ctl[w].rest = {}
    /\ SaveAs(w, "VERIFYING", mem[w], At("finish"))

\* finalize.
Finish(w) ==
    /\ ctl[w].at = "finish"
    /\ SaveAs(w, FinalStatus({mem[w].items[i].status : i \in ItemsOf(mem[w].op)}),
              mem[w], Idle)

\* Mutation: fail does not look whether the operation is finished.
Mut_FailedAgain(m) ==
    [m EXCEPT
        !.status = "FAILED",
        !.items = [i \in Items |-> IF m.items[i].status \in OpenStatuses
                                   THEN [m.items[i] EXCEPT !.status = "UNKNOWN"]
                                   ELSE m.items[i]]]

\* Mutation: fail leaves open items open.
Mut_FailedItemsOpen(m) ==
    [m EXCEPT !.status = IF Terminal(@) THEN @ ELSE "FAILED"]

\* fail: items still open become UNKNOWN and the operation FAILED, in one last
\* save whose error is only logged.  The seats are not told.
FailedMemory(m) ==
    [m EXCEPT
        !.status = IF Terminal(@) THEN @ ELSE "FAILED",
        !.items = [i \in Items |-> IF m.items[i].status \in OpenStatuses
                                   THEN [m.items[i] EXCEPT !.status = "UNKNOWN"]
                                   ELSE m.items[i]]]

Fail(w) ==
    LET m == FailedMemory(mem[w])
    IN  /\ ctl[w].at = "fail"
        /\ \/ Current(m) /\ Commit(m) /\ UNCHANGED faults
           \/ ~Current(m) /\ UNCHANGED <<row, items, lease, faults>>
           \/ Fault /\ UNCHANGED <<row, items, lease>>
        /\ ctl' = [ctl EXCEPT ![w] = Idle]
        /\ mem' = [mem EXCEPT ![w] = NoMemory]
        /\ UNCHANGED <<seats, pve, stops, stalls>>
-----------------------------------------------------------------------------
(* The world around the workers.                                             *)

\* The process ends, by a crash or because its context is cancelled; nothing
\* is saved on either way out.
Stop(w) ==
    /\ ctl[w].at # "stopped"
    /\ stops + stalls < MaxMishaps
    /\ stops' = stops + 1
    /\ ctl' = [ctl EXCEPT ![w] = At("stopped")]
    /\ mem' = [mem EXCEPT ![w] = NoMemory]
    /\ UNCHANGED <<stored, pve, stalls, faults>>

OwnerWorksOn(o) ==
    \E w \in Workers : lease[o].owner = w /\ Working(w) /\ mem[w].op = o

\* lease_until passes with nobody left to renew it ...
LeaseLapses(o) ==
    /\ lease[o].owner # NoWorker
    /\ lease[o].until = "ahead"
    /\ ~OwnerWorksOn(o)
    /\ lease' = [lease EXCEPT ![o].until = "passed"]
    /\ UNCHANGED <<row, items, seats, pve, mem, ctl, budgets>>

\* ... or while its owner, stalled for longer than the lease, still executes.
LeaseExpires(o) ==
    /\ lease[o].until = "ahead"
    /\ OwnerWorksOn(o)
    /\ stops + stalls < MaxMishaps
    /\ stalls' = stalls + 1
    /\ lease' = [lease EXCEPT ![o].until = "passed"]
    /\ UNCHANGED <<row, items, seats, pve, mem, ctl, stops, faults>>

\* PVE takes a request, perhaps long after its sender gave up, or refuses it;
\* a task it took ends well or badly.
PveAnswers(r) ==
    /\ \E from \in {"sent", "running"} :
        /\ pve[r].state = from
        /\ \E to \in IF from = "sent" THEN {"running", "refused"}
                                      ELSE {"ok", "failed"} :
            pve' = [pve EXCEPT ![r].state = to]
    /\ UNCHANGED <<stored, mem, ctl, budgets>>
-----------------------------------------------------------------------------
Init ==
    /\ row = [o \in Ops |-> [status |-> "QUEUED", version |-> 1]]
    /\ items = [i \in Items |-> NewItem]
    /\ lease = [o \in Ops |-> NoLease]
    /\ seats = [s \in Seats |-> [state |-> "SUCCEEDED", power |-> "UNKNOWN"]]
    /\ pve = <<>>
    /\ mem = [w \in Workers |-> NoMemory]
    /\ ctl = [w \in Workers |-> Idle]
    /\ stops = 0 /\ stalls = 0 /\ faults = 0

Execute(w) ==
    \/ Begin(w) \/ Validate(w) \/ Check(w) \/ StartRunning(w)
    \/ StartWave(w) \/ Mark(w) \/ SaveWave(w)
    \/ Track(w) \/ RenewForSubmit(w) \/ Send(w)
    \/ Accepted(w) \/ NotAccepted(w) \/ SaveSubmit(w) \/ StartWaiting(w)
    \/ TaskEnded(w) \/ Result(w) \/ Heartbeat(w)
    \/ WaitFails(w) \/ Unresolved(w) \/ SaveResult(w)
    \/ EndWave(w) \/ Verify(w) \/ Finish(w)

Step(w) ==
    \/ \E o \in Ops : Claim(w, o)
    \/ LoadRow(w) \/ LoadItems(w) \/ LoadFails(w)
    \/ Execute(w) \/ Fail(w)

Next ==
    \/ \E w \in Workers : Step(w) \/ Poll(w) \/ Stop(w)
    \/ \E o \in Ops : LeaseLapses(o) \/ LeaseExpires(o)
    \/ \E r \in DOMAIN pve : PveAnswers(r)

\* A worker that can take a step eventually takes one (Run polls on a ticker and
\* every call is bounded by a timeout), and an unattended lease runs out.
Fairness ==
    /\ \A w \in Workers : WF_vars(Step(w))
    /\ \A o \in Ops : WF_vars(LeaseLapses(o))

Spec == Init /\ [][Next]_vars /\ Fairness
=============================================================================
