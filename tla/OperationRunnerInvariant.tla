----------------------- MODULE OperationRunnerInvariant -----------------------
(***************************************************************************)
(* Why the promises of OperationRunnerProperties hold in every environment:*)
(* what the store and a worker's copy have in common as long as the copy   *)
(* has the stored version, and what the loops of execute know of the items *)
(* before and behind them.  A copy of another version can never be saved,  *)
(* so nothing is said of it.                                               *)
(***************************************************************************)
EXTENDS OperationRunnerProperties

\* Nobody asks for the cancellation of an operation.
CancelStatuses == {"CANCEL_REQUESTED", "CANCELLED"}

\* Statuses in which every item is settled.
DoneStatuses == {"VERIFYING"} \cup TerminalStatuses

\* What VALIDATING makes of an item that is not ready.
UnreadyItem == [status |-> "FAILED", upid |-> NoUPID]

\* What the record f of item i says of its task is so in the requests p.
Truthful(p, i, f) ==
    /\ f.upid # NoUPID => f.upid \in DOMAIN p /\ p[f.upid].item = i
    /\ f.status = "SUCCEEDED" => f.upid # NoUPID /\ p[f.upid].state = "ok"
    /\ f.status = "FAILED" /\ f.upid # NoUPID => p[f.upid].state = "failed"
    /\ f.status \in {"WAITING_PVE", "VERIFYING"} => f.upid # NoUPID

\* Operation o may have this status with these items.
Sound(p, o, status, its) ==
    /\ status \notin CancelStatuses
    /\ \A i \in ItemsOf(o) : Truthful(p, i, its[i])
    /\ status \in DoneStatuses => \A i \in ItemsOf(o) : its[i].status \in SettledStatuses
    /\ status = "SUCCEEDED" => \A i \in ItemsOf(o) : its[i].status = "SUCCEEDED"
    /\ status = "PARTIALLY_SUCCEEDED" =>
            /\ \E i \in ItemsOf(o) : its[i].status = "SUCCEEDED"
            /\ \E i \in ItemsOf(o) : its[i].status # "SUCCEEDED"

\* The store.
StoredSound ==
    \A o \in Ops :
        /\ Sound(pve, o, row[o].status, items)
        /\ row[o].status \in {"QUEUED", "VALIDATING"} =>
                \A i \in ItemsOf(o) : items[i] = NewItem
        /\ Terminal(row[o].status) => lease[o] = NoLease

NeverSkipped ==
    /\ \A i \in Items : items[i].status # "SKIPPED"
    /\ \A w \in Workers, i \in Items : mem[w].items[i].status # "SKIPPED"
-----------------------------------------------------------------------------
(* A copy m of the stored version, of which the store has the status s and the *)
(* items its, while its worker is at the place c.                             *)

\* It may be saved.
MaySave(p, s, its, m) ==
    /\ Sound(p, m.op, m.status, m.items)
    /\ CanTransition(s, m.status)
    /\ \A i \in ItemsOf(m.op) : Promise!Forward(its[i], m.items[i])
    /\ Terminal(s) => \A i \in ItemsOf(m.op) : m.items[i] = its[i]

InSubmit == {"submit", "send", "reply", "saveSubmit"}
InWait == {"wait", "unresolved", "result", "saveResult"}
InWave == {"mark"} \cup InSubmit \cup InWait

\* The statuses with which a place in execute is reached.
StatusFits(s, m, c) ==
    /\ c.at # "fail" => m.status = s
    /\ c.at = "validate" => m.status = "QUEUED"
    /\ c.at = "check" => m.status = "VALIDATING"
    /\ c.at \in {"wave"} \cup InWave => m.status \in {"RUNNING", "WAITING_PVE"}
    /\ c.at = "finish" => m.status = "VERIFYING"

\* Until the operation is RUNNING, items are new or have failed their check.
FreshFits(m, c) ==
    /\ c.at \in {"begin", "validate"} /\ m.status \in {"QUEUED", "VALIDATING"} =>
            \A i \in ItemsOf(m.op) : m.items[i] = NewItem
    /\ c.at = "check" =>
            /\ c.todo \subseteq ItemsOf(m.op)
            /\ \A i \in ItemsOf(m.op) : m.items[i] \in {NewItem, UnreadyItem}

\* The loop has done its work on the item it is at.
Handled(c, i) == c.at \in {"saveSubmit", "saveResult"} /\ IsFirst(i, c.todo)

\* Item i is still to be worked on.
Ahead(c, i) ==
    \/ i \in c.rest
    \/ c.at = "mark" /\ i \in c.wave
    \/ c.at \in InSubmit \cup InWait /\ i \in c.todo /\ ~Handled(c, i)

\* Item i is not, or no longer, waited for.
Behind(c, i) ==
    /\ i \notin c.rest
    /\ c.at \in {"mark"} \cup InSubmit => i \notin c.wave
    /\ c.at \in InWait => i \notin c.todo \/ Handled(c, i)

\* The item has no result, and if its outcome is unknown its task can be asked for.
Workable(f) ==
    /\ f.status \notin Promise!ResultStatuses
    /\ f.status = "UNKNOWN" => f.upid # NoUPID

\* The item has a task whose end is still waited for.
Tracked(f) == f.upid # NoUPID /\ f.status \notin SettledStatuses

SetsFit(m, c) ==
    /\ c.rest \subseteq ItemsOf(m.op)
    /\ c.at \in InWave =>
        /\ c.wave \subseteq ItemsOf(m.op)
        /\ c.wave \cap c.rest = {}
        /\ c.todo \subseteq c.wave

\* What the loops know of the items.
ItemsFit(m, c) ==
    /\ \A i \in ItemsOf(m.op) :
        /\ Ahead(c, i) => Workable(m.items[i])
        /\ Behind(c, i) => m.items[i].status \in SettledStatuses
    /\ c.at = "mark" =>
        /\ \A i \in c.todo : m.items[i].status \in {"QUEUED", "RUNNING"}
        /\ \A i \in c.wave \ c.todo : m.items[i].status # "QUEUED"
    /\ c.at \in InSubmit =>
        \A i \in c.wave :
            i \notin c.todo \/ Handled(c, i) =>
                m.items[i].status \in SettledStatuses \/ m.items[i].upid # NoUPID
    /\ c.at \in InWait =>
        \A i \in c.todo : Handled(c, i) \/ Tracked(m.items[i])

\* What they know of PVE.
PveFits(p, m, c) ==
    /\ c.at = "reply" =>
        /\ c.call \in DOMAIN p
        /\ \A i \in c.todo : IsFirst(i, c.todo) => p[c.call].item = i
    /\ c.at = "result" =>
        \A i \in c.todo : IsFirst(i, c.todo) =>
            p[m.items[i].upid].state \in {"ok", "failed"}

LoopFits(p, m, c) ==
    c.at \in {"wave"} \cup InWave => SetsFit(m, c) /\ ItemsFit(m, c) /\ PveFits(p, m, c)

\* The copy of item i may be ahead of the store: the loop has dealt with it since
\* the last save.
Unsaved(c, i) ==
    \/ c.at \in {"check", "fail"}
    \/ c.at = "mark" /\ i \in c.wave \ c.todo
    \/ c.at \in InSubmit /\ i \in c.wave /\ (i \notin c.todo \/ Handled(c, i))
    \/ c.at = "saveResult" /\ Handled(c, i)

InStep(its, m, c) ==
    \A i \in ItemsOf(m.op) : ~Unsaved(c, i) => m.items[i] = its[i]

CopyFits(p, s, its, m, c) ==
    /\ MaySave(p, s, its, m)
    /\ StatusFits(s, m, c)
    /\ FreshFits(m, c)
    /\ LoopFits(p, m, c)
    /\ InStep(its, m, c)

CopiesFit ==
    \A w \in Workers : Loaded(w) /\ Current(mem[w]) =>
        CopyFits(pve, row[mem[w].op].status, items, mem[w], ctl[w])

\* Between the two statements of GetOperation.
RowsFit ==
    \A w \in Workers : ctl[w].at = "loadItems" /\ Current(mem[w]) =>
        mem[w].status = row[mem[w].op].status

\* What a worker submits was stored as taken up, and stays so whoever saves.
MarksStored ==
    \A w \in Workers : ctl[w].at \in InSubmit =>
        \A i \in ctl[w].todo : items[i].status # "QUEUED"

RecordInv ==
    /\ CopyInv
    /\ StoredSound
    /\ NeverSkipped
    /\ CopiesFit
    /\ RowsFit
    /\ MarksStored
    /\ IntentIsRecorded
-----------------------------------------------------------------------------
(* Every copy, also one of another version.                                  *)

\* The UPIDs in a copy are of tasks of its items.
Owned(p, m) ==
    \A i \in ItemsOf(m.op) : m.items[i].upid # NoUPID =>
        m.items[i].upid \in DOMAIN p /\ p[m.items[i].upid].item = i

\* What the loops know without looking at the store.
PlaceKnows(p, m, c) ==
    /\ c.at \in {"wave"} \cup InWave => SetsFit(m, c)
    /\ c.at \in InSubmit =>
        \A i \in c.wave :
            i \notin c.todo \/ Handled(c, i) =>
                m.items[i].status \in SettledStatuses \/ m.items[i].upid # NoUPID
    /\ c.at \in InWait =>
        \A i \in c.todo : Handled(c, i) \/ m.items[i].upid # NoUPID
    /\ c.at = "reply" =>
        /\ c.call \in DOMAIN p
        /\ \A i \in c.todo : IsFirst(i, c.todo) => p[c.call].item = i

OwnTasks == \A w \in Workers : Loaded(w) => Owned(pve, mem[w]) /\ PlaceKnows(pve, mem[w], ctl[w])
-----------------------------------------------------------------------------
(* While no lease expires under a worker that is still executing.            *)

\* The copy has the stored version, once it is read and until an error.
Fresh(w) == ctl[w].at \notin {"load", "fail"} => Current(mem[w])

Attended(w) ==
    /\ lease[mem[w].op] = [owner |-> w, until |-> "ahead"]
    /\ Fresh(w)

\* An error was reported of the save that finished the operation.
Relieved(w) == ctl[w].at = "fail" /\ Terminal(row[mem[w].op].status)

\* Whoever executes an operation is alone with it, has its lease, and could save at
\* any moment, as long as it is not finished.
AloneInv ==
    stalls = 0 =>
        /\ \A v, w \in Workers :
                Working(v) /\ Working(w) /\ mem[v].op = mem[w].op => v = w
        /\ \A w \in Workers :
                Working(w) => Relieved(w) \/ Attended(w)

\* Without a store error nothing fails.
CalmInv == stalls = 0 /\ faults = 0 => \A w \in Workers : ctl[w].at # "fail"

\* A result of item i that is stored, or known to its executor, is on its seat.
Shows(i) ==
    LET seat == seats[SeatOf[i]].state IN
    /\ items[i].status \in SettledStatuses => seat = items[i].status
    /\ \A w \in Workers :
        /\ Working(w) /\ mem[w].op = OpOf[i]
        /\ mem[w].items[i].status \in SettledStatuses
        => seat = mem[w].items[i].status

\* A seat shows the item it was last told of.
SeatInv ==
    stalls = 0 /\ faults = 0 => \A s \in Seats :
        Touching(s) # {} => \E i \in Touching(s) : Shows(i)

-----------------------------------------------------------------------------
(* While no process stops, no lease expires under a worker that is still       *)
(* executing, and at most one repository call fails.                           *)

Unlucky == stops > 0 \/ stalls > 0 \/ faults > 1

LostItem == [status |-> "UNKNOWN", upid |-> NoUPID]
Live == {r \in DOMAIN pve : pve[r].state # "refused"}

\* Worker w has request r of item i in hand: it waits for the answer, or has noted
\* it and not saved it yet.
Awaits(w, i, r) ==
    /\ Working(w) /\ mem[w].op = OpOf[i]
    /\ \/ ctl[w].at = "reply" /\ ctl[w].call = r /\ IsFirst(i, ctl[w].todo)
       \/ /\ ctl[w].at = "saveSubmit" /\ IsFirst(i, ctl[w].todo)
          /\ mem[w].items[i] = LostItem
       \/ /\ ctl[w].at = "fail" /\ Current(mem[w]) /\ faults > 0
          /\ mem[w].items[i].upid = r \/ mem[w].items[i] = LostItem

\* What the store says of a request, it keeps saying.
Keeps(i, r) == items[i].upid = r \/ items[i] = LostItem

\* PVE may have taken at most one request of an item, and that one is stored, stored
\* as lost, or in somebody's hand.
Single == \A r, q \in Live : pve[r].item = pve[q].item => r = q
Held ==
    \A r \in Live, i \in Items :
        pve[r].item = i => Keeps(i, r) \/ \E w \in Workers : Awaits(w, i, r)

KeptInv == Unlucky \/ (Single /\ Held)

\* The items of a wave are the only ones whose task may still be running.
WaveInv ==
    Unlucky \/ faults > 0 \/
        /\ \A w \in Workers : ctl[w].at \in InWave => Cardinality(ctl[w].wave) <= WaveSize
        /\ \A i \in Items :
            Tracked(items[i]) =>
                \E w \in Workers :
                    ctl[w].at \in InWave /\ mem[w].op = OpOf[i] /\ i \in ctl[w].wave

\* A single worker finishes an operation before it begins the next.
OrderInv ==
    \A w \in Workers : Workers = {w} =>
        /\ \A o, p \in Ops : p < o /\ row[o].status # "QUEUED" => Terminal(row[p].status)
        /\ \A p \in Ops : Working(w) /\ p < mem[w].op => Terminal(row[p].status)
=============================================================================
