---------------------- MODULE OperationRunnerLeaseProofs ----------------------
(***************************************************************************)
(* Proof that an operation has one executor as long as no lease expires    *)
(* under a worker that is still executing, for any number of workers that  *)
(* start, stop and take over, with any number of store errors.  A step of  *)
(* execute only touches the operation the worker is at: this is what       *)
(* OwnStep says, and all that the invariant needs to know of it.           *)
(*                                                                         *)
(* On top of it, each under the environment that its theorem names: only   *)
(* marked items are submitted, the final status is the one the items imply *)
(* (CalmInv), seats show what items say (SeatInv), no task that PVE took is *)
(* forgotten (KeptInv), waves are bounded (WaveInv), and a single worker   *)
(* never operates twice on one machine (OrderInv).                         *)
(***************************************************************************)
EXTENDS OperationRunnerProofs, FiniteSetTheorems

\* The step is one of worker w on its own operation.
OwnStep(w) ==
    /\ stalls' = stalls
    /\ \A v \in Workers : v # w => mem'[v] = mem[v] /\ ctl'[v] = ctl[v]
    /\ \A p \in Ops : p # mem[w].op => row'[p] = row[p] /\ lease'[p] = lease[p]
    /\ \/ lease'[mem[w].op] = lease[mem[w].op]
       \/ lease'[mem[w].op] = [owner |-> w, until |-> "ahead"]
       \/ Terminal(row'[mem[w].op].status)
    /\ Working(w)
    /\ Working(w)' =>
        /\ mem'[w].op = mem[w].op
        /\ Fresh(w) => Fresh(w)'
        /\ ctl[w].at # "fail"
        /\ \/ ctl'[w].at = "fail"
           \/ Terminal(row'[mem[w].op].status) => Terminal(row[mem[w].op].status)

\* A copy, whatever is in it.
IsCopy(m) == m = [op |-> m.op, status |-> m.status, version |-> m.version, items |-> m.items]

LEMMA SaveOwn ==
    ASSUME TypeOK, NEW w \in Workers, Working(w), ctl[w].at # "fail",
           NEW m, IsCopy(m), m.op = mem[w].op,
           NEW next,
           \/ next = Idle
           \/ /\ next.at # "idle"
              /\ Current(m) /\ Terminal(m.status) => Terminal(row[m.op].status),
           Save(w, m, next)
    PROVE  OwnStep(w)
<1> DEFINE o == mem[w].op
<1>0. o \in Ops /\ o \in DOMAIN row /\ o \in DOMAIN lease
    BY DEF TypeOK
<1>1. stalls' = stalls /\ \A v \in Workers : v # w => mem'[v] = mem[v] /\ ctl'[v] = ctl[v]
    BY DEF Save, TypeOK
<1>2. ASSUME Commit(m)
      PROVE  /\ \A p \in Ops : p # o => row'[p] = row[p] /\ lease'[p] = lease[p]
             /\ row'[o] = [status |-> m.status, version |-> m.version + 1]
             /\ lease'[o] = lease[o] \/ Terminal(row'[o].status)
    BY <1>0, <1>2 DEF Commit, TypeOK
<1>3. CASE /\ Current(m) /\ Commit(m)
           /\ mem' = [mem EXCEPT ![w] = IF next = Idle THEN NoMemory
                                        ELSE [m EXCEPT !.version = m.version + 1]]
           /\ ctl' = [ctl EXCEPT ![w] = next]
    <2>1. ctl'[w] = next
        BY <1>3 DEF TypeOK
    <2>2. CASE next = Idle
        <3>1. ~Working(w)'
            BY <2>1, <2>2, ControlTypes DEF Working
        <3> QED BY <1>1, <1>2, <1>3, <3>1 DEF OwnStep
    <2>3. CASE next # Idle
        <3>1. mem'[w] = [m EXCEPT !.version = m.version + 1]
            BY <1>3, <2>3 DEF TypeOK
        <3>2. mem'[w].op = o /\ mem'[w].version = m.version + 1
            BY <3>1 DEF IsCopy
        <3>3. Current(mem[w])'
            BY <1>2, <1>3, <3>2 DEF Current
        <3>4. Terminal(row'[o].status) => Terminal(row[o].status)
            BY <1>2, <1>3, <2>3
        <3> QED BY <1>1, <1>2, <1>3, <3>2, <3>3, <3>4 DEF OwnStep, Fresh
    <2> QED BY <2>2, <2>3
<1>4. CASE /\ Commit(m) \/ UNCHANGED <<row, items, lease>>
           /\ mem' = [mem EXCEPT ![w] = m]
           /\ ctl' = [ctl EXCEPT ![w] = Failing]
    <2>1. mem'[w].op = o /\ ctl'[w].at = "fail"
        BY <1>4, ControlTypes DEF TypeOK
    <2> QED BY <1>1, <1>2, <1>4, <2>1 DEF OwnStep, Fresh
<1> QED BY <1>3, <1>4 DEF Save

LEMMA PrivateOwn ==
    ASSUME TypeOK, NEW w \in Workers, Working(w), ctl[w].at \notin {"load", "fail"},
           UNCHANGED <<row, lease, stalls>>,
           NEW m, m.op = mem[w].op, m.version = mem[w].version,
           mem' = [mem EXCEPT ![w] = m],
           NEW next, ctl' = [ctl EXCEPT ![w] = next]
    PROVE  OwnStep(w)
<1>1. mem'[w] = m /\ \A v \in Workers : v # w => mem'[v] = mem[v] /\ ctl'[v] = ctl[v]
    BY DEF TypeOK
<1>2. Fresh(w) => Fresh(w)'
    BY <1>1 DEF Fresh, Current
<1> QED BY <1>1, <1>2 DEF OwnStep

LEMMA SaveAsOwn ==
    ASSUME TypeOK, NEW w \in Workers, Working(w), ctl[w].at \notin {"load", "fail"},
           NEW status, NEW next,
           next = Idle \/ (next.at # "idle" /\ ~Terminal(status)),
           SaveAs(w, status, mem[w], next)
    PROVE  OwnStep(w)
<1>0. mem[w] \in MemoryRecords
    BY DEF TypeOK
<1>1. CASE CanTransition(mem[w].status, status)
    <2> DEFINE m == [mem[w] EXCEPT !.status = status]
    <2>1. IsCopy(m) /\ m.op = mem[w].op /\ m.status = status
        BY <1>0 DEF MemoryRecords, IsCopy
    <2>2. Save(w, m, next)
        BY <1>1 DEF SaveAs
    <2> HIDE DEF m
    <2> QED BY <2>1, <2>2, SaveOwn
<1>2. CASE ~CanTransition(mem[w].status, status)
    BY <1>2, PrivateOwn DEF SaveAs, stored, budgets
<1> QED BY <1>1, <1>2

LEMMA RenewOwn ==
    ASSUME TypeOK, NEW w \in Workers, Working(w), ctl[w].at \notin {"load", "fail"},
           NEW next, Renew(w, next)
    PROVE  OwnStep(w)
<1> DEFINE o == mem[w].op
<1>0. o \in Ops
    BY DEF TypeOK
<1>1. /\ UNCHANGED <<row, mem, stalls>>
      /\ \A v \in Workers : v # w => ctl'[v] = ctl[v]
    BY DEF Renew, TypeOK
<1>2. \/ lease' = lease
      \/ HoldsLease(w, o) /\ lease' = [lease EXCEPT ![o].until = "ahead"]
    BY DEF Renew
<1>3. \A p \in Ops : p # o => lease'[p] = lease[p]
    BY <1>2 DEF TypeOK
<1>4. lease'[o] = lease[o] \/ lease'[o] = [owner |-> w, until |-> "ahead"]
    BY <1>0, <1>2 DEF TypeOK, LeaseRecords, HoldsLease
<1>5. Fresh(w) => Fresh(w)'
    BY <1>1 DEF Fresh, Current
<1> QED BY <1>1, <1>3, <1>4, <1>5 DEF OwnStep

LEMMA ApplyOwn ==
    ASSUME TypeOK, NEW w \in Workers, Working(w), ctl[w].at \notin {"load", "fail"},
           NEW i, NEW status, NEW next, Apply(w, i, status, next)
    PROVE  OwnStep(w)
<1> DEFINE m == WithItem(mem[w], i, status)
<1>1. m.op = mem[w].op /\ m.version = mem[w].version
    BY DEF TypeOK, MemoryRecords, WithItem
<1>2. mem' = [mem EXCEPT ![w] = m] /\ UNCHANGED <<row, lease, stalls>>
    BY DEF Apply, TypeOK
<1>3. PICK n : ctl' = [ctl EXCEPT ![w] = n]
    BY DEF Apply
<1> HIDE DEF m
<1> QED BY <1>1, <1>2, <1>3, PrivateOwn

\* Every step of execute is one of these calls, or none.
LEMMA ExecuteOwn ==
    ASSUME RecordInv, NEW w \in Workers, Execute(w)
    PROVE  OwnStep(w)
<1>0. TypeOK /\ mem[w] \in MemoryRecords /\ ctl[w] \in ControlRecords
    BY DEF RecordInv, CopyInv, TypeOK
<1>1. ASSUME ctl[w].at \in Labels \ {"idle", "stopped", "load", "fail"}
      PROVE  Working(w) /\ ctl[w].at \notin {"load", "fail"}
    BY <1>1 DEF Working
<1>2. CASE Begin(w) \/ StartWave(w) \/ RenewForSubmit(w)
    <2>1. \E next : Renew(w, next)
        BY <1>2 DEF Begin, StartWave, RenewForSubmit
    <2>2. Working(w) /\ ctl[w].at \notin {"load", "fail"}
        BY <1>1, <1>2 DEF Begin, StartWave, RenewForSubmit, Labels
    <2> QED BY <1>0, <2>1, <2>2, RenewOwn
<1>3. CASE Check(w) \/ Mark(w) \/ NotAccepted(w) \/ Result(w) \/ Unresolved(w)
    <2>1. \E i, status, next : Apply(w, i, status, next)
        BY <1>3 DEF Check, Mark, NotAccepted, Result, Unresolved
    <2>2. Working(w) /\ ctl[w].at \notin {"load", "fail"}
        BY <1>1, <1>3 DEF Check, Mark, NotAccepted, Result, Unresolved, Labels
    <2> QED BY <1>0, <2>1, <2>2, ApplyOwn
<1>4. CASE Validate(w) \/ StartRunning(w) \/ SaveWave(w) \/ StartWaiting(w) \/ Verify(w) \/ Finish(w)
    <2>1. Working(w) /\ ctl[w].at \notin {"load", "fail"}
        BY <1>1, <1>4 DEF Validate, StartRunning, SaveWave, StartWaiting, Verify, Finish, Labels
    <2>2. \E status, next : /\ next = Idle \/ (next.at # "idle" /\ ~Terminal(status))
                            /\ SaveAs(w, status, mem[w], next)
        <3>1. CASE Validate(w)
            BY <3>1 DEF Validate, At, Terminal, TerminalStatuses
        <3>2. CASE StartRunning(w)
            BY <3>2 DEF StartRunning, At, Terminal, TerminalStatuses
        <3>3. CASE SaveWave(w)
            <4>1. [ctl[w] EXCEPT !.at = "submit", !.todo = ctl[w].wave].at = "submit"
                BY <1>0 DEF ControlRecords
            <4> QED BY <3>3, <4>1 DEF SaveWave, Terminal, TerminalStatuses
        <3>4. CASE StartWaiting(w)
            <4>1. \A S : [ctl[w] EXCEPT !.at = "wait", !.todo = S].at = "wait"
                BY <1>0 DEF ControlRecords
            <4> QED BY <3>4, <4>1 DEF StartWaiting, Terminal, TerminalStatuses
        <3>5. CASE Verify(w)
            BY <3>5 DEF Verify, At, Terminal, TerminalStatuses
        <3>6. CASE Finish(w)
            <4> DEFINE status == FinalStatus({mem[w].items[i].status : i \in ItemsOf(mem[w].op)})
            <4>1. SaveAs(w, status, mem[w], Idle)
                BY <3>6 DEF Finish
            <4> QED BY <4>1
        <3> QED BY <1>4, <3>1, <3>2, <3>3, <3>4, <3>5, <3>6
    <2> QED BY <1>0, <2>1, <2>2, SaveAsOwn
<1>5. CASE Accepted(w) \/ SaveSubmit(w) \/ TaskEnded(w) \/ SaveResult(w)
    <2>1. Working(w)
        BY <1>1, <1>5 DEF Accepted, SaveSubmit, TaskEnded, SaveResult, Labels
    <2>5. ctl[w].at \notin {"load", "loadItems", "fail"}
        BY <1>5 DEF Accepted, SaveSubmit, TaskEnded, SaveResult
    <2>2. IsCopy(mem[w])
        BY <1>0 DEF IsCopy, MemoryRecords
    <2>3. \E m, next : /\ IsCopy(m) /\ m.op = mem[w].op /\ next.at # "idle"
                       /\ m.status = mem[w].status /\ m.version = mem[w].version
                       /\ Save(w, m, next)
        <3>1. CASE Accepted(w)
            <4>1. PICK i \in ctl[w].todo :
                    Save(w, [mem[w] EXCEPT !.items[i] =
                                [status |-> "WAITING_PVE", upid |-> ctl[w].call]],
                         [ctl[w] EXCEPT !.at = "submit", !.todo = @ \ {i}, !.call = 0])
                BY <3>1 DEF Accepted
            <4> DEFINE m == [mem[w] EXCEPT !.items[i] =
                                [status |-> "WAITING_PVE", upid |-> ctl[w].call]]
                       next == [ctl[w] EXCEPT !.at = "submit", !.todo = @ \ {i}, !.call = 0]
            <4>2. /\ IsCopy(m) /\ m.op = mem[w].op
                  /\ m.status = mem[w].status /\ m.version = mem[w].version
                BY <1>0 DEF IsCopy, MemoryRecords
            <4>3. next.at = "submit"
                BY <1>0 DEF ControlRecords
            <4> QED BY <4>1, <4>2, <4>3
        <3>2. CASE SaveSubmit(w)
            <4>1. PICK i \in ctl[w].todo :
                    Save(w, mem[w], [ctl[w] EXCEPT !.at = "submit", !.todo = @ \ {i}])
                BY <3>2 DEF SaveSubmit
            <4>2. [ctl[w] EXCEPT !.at = "submit", !.todo = @ \ {i}].at = "submit"
                BY <1>0 DEF ControlRecords
            <4> QED BY <2>2, <4>1, <4>2
        <3>3. CASE TaskEnded(w)
            <4>1. PICK i \in ctl[w].todo :
                    Save(w, WithItem(mem[w], i, "VERIFYING"), [ctl[w] EXCEPT !.at = "result"])
                BY <3>3 DEF TaskEnded
            <4>2. [ctl[w] EXCEPT !.at = "result"].at = "result"
                BY <1>0 DEF ControlRecords
            <4> DEFINE m == WithItem(mem[w], i, "VERIFYING")
            <4>3. /\ IsCopy(m) /\ m.op = mem[w].op
                  /\ m.status = mem[w].status /\ m.version = mem[w].version
                BY <1>0 DEF IsCopy, MemoryRecords, WithItem
            <4> QED BY <4>1, <4>2, <4>3
        <3>4. CASE SaveResult(w)
            <4>1. PICK i \in ctl[w].todo :
                    Save(w, mem[w], [ctl[w] EXCEPT !.at = "wait", !.todo = @ \ {i}])
                BY <3>4 DEF SaveResult
            <4>2. [ctl[w] EXCEPT !.at = "wait", !.todo = @ \ {i}].at = "wait"
                BY <1>0 DEF ControlRecords
            <4> QED BY <2>2, <4>1, <4>2
        <3> QED BY <1>5, <3>1, <3>2, <3>3, <3>4
    <2>4. Current(mem[w]) => mem[w].status = row[mem[w].op].status
        BY <2>1, <2>5 DEF RecordInv, CopiesFit, CopyFits, StatusFits, Loaded
    <2> QED BY <1>0, <2>1, <2>3, <2>4, <2>5, SaveOwn DEF Current
<1>6. CASE Track(w) \/ Send(w) \/ EndWave(w) \/ WaitFails(w)
    <2>1. Working(w) /\ ctl[w].at \notin {"load", "fail"}
        BY <1>1, <1>6 DEF Track, Send, EndWave, WaitFails, Labels
    <2>2. UNCHANGED <<row, lease, stalls>>
        BY <1>6 DEF Track, Send, EndWave, WaitFails, stored, budgets
    <2>3. PICK next : ctl' = [ctl EXCEPT ![w] = next]
        BY <1>6 DEF Track, Send, EndWave, WaitFails
    <2>4. CASE Track(w)
        <3>1. PICK i \in ctl[w].todo : mem' = [mem EXCEPT ![w] = WithItem(@, i, "WAITING_PVE")]
            BY <2>4 DEF Track
        <3> DEFINE m == WithItem(mem[w], i, "WAITING_PVE")
        <3>2. m.op = mem[w].op /\ m.version = mem[w].version
            BY <1>0 DEF MemoryRecords, WithItem
        <3>3. mem' = [mem EXCEPT ![w] = m]
            BY <1>0, <3>1 DEF TypeOK
        <3> HIDE DEF m
        <3> QED BY <1>0, <2>1, <2>2, <2>3, <3>2, <3>3, PrivateOwn
    <2>5. CASE Send(w) \/ EndWave(w) \/ WaitFails(w)
        <3>1. mem' = [mem EXCEPT ![w] = mem[w]]
            BY <1>0, <2>5 DEF Send, EndWave, WaitFails, TypeOK
        <3> QED BY <1>0, <2>1, <2>2, <2>3, <3>1, PrivateOwn
    <2> QED BY <1>6, <2>4, <2>5
<1>7. CASE Heartbeat(w)
    <2>1. Working(w) /\ HoldsLease(w, mem[w].op) /\ mem[w].op \in Ops
        BY <1>0, <1>1, <1>7 DEF Heartbeat, Labels, TypeOK
    <2>2. /\ UNCHANGED <<row, mem, ctl, stalls>>
          /\ lease' = [lease EXCEPT ![mem[w].op].until = "ahead"]
        BY <1>7 DEF Heartbeat, budgets
    <2>3. lease'[mem[w].op] = [owner |-> w, until |-> "ahead"]
          /\ \A p \in Ops : p # mem[w].op => lease'[p] = lease[p]
        BY <1>0, <2>1, <2>2 DEF TypeOK, LeaseRecords, HoldsLease
    <2>4. Fresh(w) => Fresh(w)'
        BY <2>2 DEF Fresh, Current
    <2>5. ctl[w].at # "fail"
        BY <1>7 DEF Heartbeat
    <2> QED BY <2>1, <2>2, <2>3, <2>4, <2>5 DEF OwnStep
<1> QED BY <1>2, <1>3, <1>4, <1>5, <1>6, <1>7 DEF Execute

\* So are the steps before and after execute.
LEMMA AroundOwn ==
    ASSUME TypeOK, NEW w \in Workers,
           LoadRow(w) \/ LoadItems(w) \/ LoadFails(w) \/ Fail(w)
    PROVE  OwnStep(w)
<1>0. mem[w] \in MemoryRecords
    BY DEF TypeOK
<1>1. Working(w)
    BY DEF Working, LoadRow, LoadItems, LoadFails, Fail
<1>2. CASE LoadRow(w)
    <2>1. /\ mem'[w].op = mem[w].op
          /\ mem'[w].version = row[mem[w].op].version
          /\ \A v \in Workers : v # w => mem'[v] = mem[v] /\ ctl'[v] = ctl[v]
          /\ UNCHANGED <<row, lease, stalls>>
          /\ ctl[w].at # "fail"
        BY <1>0, <1>2 DEF LoadRow, TypeOK, MemoryRecords, stored, budgets
    <2> QED BY <1>1, <2>1 DEF OwnStep, Fresh, Current
<1>3. CASE LoadItems(w)
    <2> DEFINE its == [i \in Items |-> IF OpOf[i] = mem[w].op THEN items[i] ELSE NewItem]
               m == [mem[w] EXCEPT !.items = its]
    <2>1. m.op = mem[w].op /\ m.version = mem[w].version
        BY <1>0 DEF MemoryRecords
    <2>2. mem' = [mem EXCEPT ![w] = m]
        BY <1>3 DEF LoadItems, TypeOK
    <2>3. UNCHANGED <<row, lease, stalls>> /\ ctl' = [ctl EXCEPT ![w] = At("begin")]
          /\ ctl[w].at = "loadItems"
        BY <1>3 DEF LoadItems, stored, budgets
    <2> HIDE DEF m
    <2> QED BY <1>1, <2>1, <2>2, <2>3, PrivateOwn
<1>4. CASE LoadFails(w)
    <2>1. ctl'[w].at = "idle"
        BY <1>4, ControlTypes DEF LoadFails, TypeOK
    <2>2. /\ \A v \in Workers : v # w => mem'[v] = mem[v] /\ ctl'[v] = ctl[v]
          /\ UNCHANGED <<row, lease, stalls>>
        BY <1>4 DEF LoadFails, TypeOK, stored
    <2> QED BY <1>1, <2>1, <2>2 DEF OwnStep, Working
<1>5. CASE Fail(w)
    <2> DEFINE m == FailedMemory(mem[w])
    <2>1. m.op = mem[w].op
        BY <1>0 DEF FailedMemory, MemoryRecords
    <2>2. /\ ctl' = [ctl EXCEPT ![w] = Idle]
          /\ mem' = [mem EXCEPT ![w] = NoMemory]
          /\ Commit(m) \/ UNCHANGED <<row, lease>>
          /\ stalls' = stalls
        BY <1>5 DEF Fail
    <2> HIDE DEF m
    <2>3. ctl'[w].at = "idle" /\ \A v \in Workers : v # w => mem'[v] = mem[v] /\ ctl'[v] = ctl[v]
        BY <2>2, ControlTypes DEF TypeOK
    <2>4. mem[w].op \in Ops
        BY <1>1 DEF TypeOK
    <2>5. ASSUME Commit(m)
          PROVE  /\ \A p \in Ops : p # mem[w].op => row'[p] = row[p] /\ lease'[p] = lease[p]
                 /\ lease'[mem[w].op] = lease[mem[w].op] \/ Terminal(row'[mem[w].op].status)
        BY <2>1, <2>4, <2>5 DEF Commit, TypeOK
    <2> QED BY <1>1, <2>2, <2>3, <2>5 DEF OwnStep, Working
<1> QED BY <1>2, <1>3, <1>4, <1>5
-----------------------------------------------------------------------------
\* Nobody has the lease of a finished operation.
LEMMA AttendedIsOpen ==
    ASSUME RecordInv, NEW w \in Workers, mem[w].op \in Ops, Attended(w)
    PROVE  ~Terminal(row[mem[w].op].status)
BY WorkersAssumption DEF RecordInv, StoredSound, Attended, NoLease

LEMMA OwnAlone ==
    ASSUME TypeOK, RecordInv, AloneInv, NEW w \in Workers, OwnStep(w)
    PROVE  AloneInv'
<1> SUFFICES ASSUME stalls' = 0
             PROVE  /\ \A u, v \in Workers :
                        Working(u)' /\ Working(v)' /\ mem'[u].op = mem'[v].op => u = v
                    /\ \A v \in Workers :
                        Working(v)' => Relieved(v)' \/ Attended(v)'
    BY DEF AloneInv
<1>0. /\ \A u, v \in Workers : Working(u) /\ Working(v) /\ mem[u].op = mem[v].op => u = v
      /\ \A v \in Workers :
            Working(v) => Relieved(v) \/ Attended(v)
    BY DEF AloneInv, OwnStep
<1>1. \A v \in Workers : Working(v)' => Working(v) /\ mem'[v].op = mem[v].op /\ mem[v].op \in Ops
    BY DEF OwnStep, Working, TypeOK
<1>2. ASSUME NEW v \in Workers, Working(v)'
      PROVE  Relieved(v)' \/ Attended(v)'
    <2>1. mem'[v].op = mem[v].op /\ mem[v].op \in Ops /\ Working(v)
        BY <1>1, <1>2
    <2>2. CASE v = w
        <3>1. ctl[v].at # "fail" /\ Attended(v)
            BY <1>0, <1>2, <2>1, <2>2 DEF Relieved, OwnStep
        <3>2. ~Terminal(row[mem[v].op].status)
            BY <2>1, <3>1, AttendedIsOpen
        <3> QED BY <1>2, <2>1, <2>2, <3>1, <3>2 DEF Relieved, Attended, OwnStep
    <2>3. CASE v # w
        <3>1. mem[v].op # mem[w].op
            BY <1>0, <2>1, <2>3 DEF OwnStep
        <3>2. /\ row'[mem[v].op] = row[mem[v].op] /\ lease'[mem[v].op] = lease[mem[v].op]
              /\ mem'[v] = mem[v] /\ ctl'[v] = ctl[v]
            BY <2>1, <2>3, <3>1 DEF OwnStep
        <3> QED BY <1>0, <2>1, <3>2 DEF Relieved, Attended, Fresh, Current
    <2> QED BY <2>2, <2>3
<1> QED BY <1>0, <1>1, <1>2

LEMMA ClaimAlone ==
    ASSUME TypeOK, AloneInv, NEW w \in Workers, NEW o \in Ops, Claim(w, o)
    PROVE  AloneInv'
<1>1. /\ ~Working(w)
      /\ lease' = [lease EXCEPT ![o] = [owner |-> w, until |-> "ahead"]]
      /\ mem'[w].op = o /\ ctl'[w].at = "load"
      /\ \A v \in Workers : v # w => mem'[v] = mem[v] /\ ctl'[v] = ctl[v]
      /\ UNCHANGED <<row, stalls>>
    BY ControlTypes DEF Claim, Working, TypeOK, NoMemory, budgets, Labels
<1>2. /\ lease'[o] = [owner |-> w, until |-> "ahead"]
      /\ \A p \in Ops : p # o => lease'[p] = lease[p]
    BY <1>1 DEF TypeOK
<1>3. /\ ~Terminal(row[o].status)
      /\ lease[o].owner \in {NoWorker, w} \/ lease[o].until = "passed"
    BY DEF Claim, Claimable, Terminal
<1>4. ASSUME stalls = 0, NEW v \in Workers, v # w, Working(v) PROVE mem[v].op # o
    <2>1. ~(lease[o] = [owner |-> v, until |-> "ahead"])
        BY <1>3, <1>4, WorkersAssumption
    <2> QED BY <1>3, <1>4, <2>1 DEF AloneInv, Relieved, Attended
<1>5. \A v \in Workers : v # w => (Working(v)' <=> Working(v)) /\ (Working(v) => mem[v].op \in Ops)
    BY <1>1 DEF Working, TypeOK
<1>6. ASSUME stalls = 0, NEW v \in Workers, v # w, Working(v)'
      PROVE  Relieved(v)' \/ Attended(v)'
    <2>1. Working(v) /\ mem'[v] = mem[v] /\ ctl'[v] = ctl[v] /\ row' = row
        BY <1>1, <1>5, <1>6
    <2>2. /\ Relieved(v) \/ Attended(v)
          /\ lease'[mem[v].op] = lease[mem[v].op]
        BY <1>2, <1>4, <1>5, <1>6, <2>1 DEF AloneInv
    <2> QED BY <2>1, <2>2 DEF Relieved, Attended, Fresh, Current
<1>7. Attended(w)'
    BY <1>1, <1>2 DEF Attended, Fresh
<1> QED BY <1>1, <1>4, <1>5, <1>6, <1>7 DEF AloneInv

LEMMA OtherAlone ==
    ASSUME TypeOK, RecordInv, KeepsPromise, AloneInv,
           \/ \E w \in Workers : Stop(w) \/ Poll(w)
           \/ \E o \in Ops : LeaseLapses(o) \/ LeaseExpires(o)
           \/ \E r \in DOMAIN pve : PveAnswers(r)
           \/ UNCHANGED vars
    PROVE  AloneInv'
<1>1. CASE \E w \in Workers : Stop(w)
    <2>1. PICK w \in Workers : Stop(w)
        BY <1>1
    <2>2. /\ ~Working(w)' /\ UNCHANGED <<row, lease, stalls>>
          /\ \A v \in Workers : v # w => mem'[v] = mem[v] /\ ctl'[v] = ctl[v]
        BY <2>1, ControlTypes DEF Stop, Working, TypeOK, stored, Labels
    <2>3. \A v \in Workers : Working(v)' => v # w
        BY <2>2
    <2>4. \A v \in Workers : Working(v)' => Working(v) /\ (Attended(v) => Attended(v)') /\ (Relieved(v) => Relieved(v)')
        BY <2>2, <2>3 DEF Working, Relieved, Attended, Fresh, Current
    <2> QED BY <2>2, <2>3, <2>4 DEF AloneInv
<1>2. CASE \E o \in Ops : LeaseLapses(o)
    <2>1. PICK o \in Ops : LeaseLapses(o)
        BY <1>2
    <2>2. /\ UNCHANGED <<row, mem, ctl, stalls>>
          /\ \A p \in Ops : p # o => lease'[p] = lease[p]
          /\ ~OwnerWorksOn(o)
        BY <2>1 DEF LeaseLapses, TypeOK, budgets
    <2>3. ASSUME NEW v \in Workers, Working(v), Attended(v) PROVE Attended(v)'
        <3>1. mem[v].op # o /\ mem[v].op \in Ops
            BY <2>2, <2>3 DEF OwnerWorksOn, Attended, TypeOK
        <3> QED BY <2>2, <2>3, <3>1 DEF Attended, Fresh, Current
    <2> QED BY <2>2, <2>3 DEF AloneInv, Working, Relieved
<1>3. CASE \E o \in Ops : LeaseExpires(o)
    <2>1. stalls' # 0
        BY <1>3 DEF LeaseExpires, TypeOK
    <2> QED BY <2>1 DEF AloneInv
<1>4. CASE \/ \E w \in Workers : Poll(w)
           \/ \E r \in DOMAIN pve : PveAnswers(r)
           \/ UNCHANGED vars
    <2>1. UNCHANGED <<row, lease, mem, ctl, stalls>>
        BY <1>4 DEF Poll, PveAnswers, vars, stored, budgets
    <2> QED BY <2>1 DEF AloneInv, Working, Relieved, Attended, Fresh, Current
<1> QED BY <1>1, <1>2, <1>3, <1>4

LEMMA NextAlone == RecordInv /\ AloneInv /\ [Next]_vars => AloneInv'
<1> SUFFICES ASSUME RecordInv, AloneInv, [Next]_vars PROVE AloneInv'
    OBVIOUS
<1>0. TypeOK /\ KeepsPromise
    BY NextRecords DEF RecordInv, CopyInv
<1>1. ASSUME NEW w \in Workers, Step(w) PROVE AloneInv'
    BY <1>1, <1>0, ExecuteOwn, AroundOwn, OwnAlone, ClaimAlone DEF Step
<1>2. ASSUME \/ \E w \in Workers : Stop(w) \/ Poll(w)
             \/ \E o \in Ops : LeaseLapses(o) \/ LeaseExpires(o)
             \/ \E r \in DOMAIN pve : PveAnswers(r)
             \/ UNCHANGED vars
      PROVE  AloneInv'
    BY <1>0, <1>2, OtherAlone
<1> QED BY <1>1, <1>2 DEF Next
-----------------------------------------------------------------------------
\* While no lease expires under a worker that is still executing, an unfinished
\* operation has one executor; it holds the lease, and its copy is up to date until a
\* repository call fails, so that no save of it is refused.
THEOREM Aloneness == Spec => []AloneInv
<1>1. Init => AloneInv
    BY ControlTypes DEF Init, AloneInv, Working
<1> QED BY <1>1, NextAlone, RecordInvariance, PTL DEF Spec

\* Never do two workers execute one operation, whoever stopped, took over or was told
\* of an error before (postgres.go, ClaimNextOperation and RenewOperationLease).
THEOREM SoleExecution == Spec => []SoleExecutor
<1>1. AloneInv => SoleExecutor
    BY DEF AloneInv, SoleExecutor
<1> QED BY <1>1, Aloneness, PTL
-----------------------------------------------------------------------------
\* Only Send sends.
LEMMA OthersSendNothing ==
    ASSUME TypeOK, [Next]_vars, \A w \in Workers : ~Send(w)
    PROVE  Len(pve') = Len(pve)
<1>1. CASE \E r \in DOMAIN pve : PveAnswers(r)
    <2>1. PICK r \in DOMAIN pve : \E state : pve' = [pve EXCEPT ![r].state = state]
        BY <1>1 DEF PveAnswers
    <2> QED BY <2>1 DEF TypeOK
<1> QED BY <1>1, PveSteps

\* A worker that is about to submit an item has the stored record of it.
LEMMA SubmitsMarked ==
    ASSUME RecordInv, AloneInv, stalls = 0, NEW w \in Workers, Send(w),
           NEW i \in Items, pve'[Len(pve')].item = i
    PROVE  items[i] = [status |-> "RUNNING", upid |-> NoUPID]
<1> DEFINE m == mem[w]
           c == ctl[w]
           o == mem[w].op
<1>0. TypeOK /\ m \in MemoryRecords /\ c \in ControlRecords /\ items[i] \in ItemRecords
    BY DEF RecordInv, CopyInv, TypeOK
<1>1. PICK j \in c.todo : IsFirst(j, c.todo) /\ pve' = Append(pve, [item |-> j, state |-> "sent"])
    BY DEF Send
<1>2. i = j /\ c.at = "send"
    BY <1>0, <1>1 DEF TypeOK, Send
<1>3. Loaded(w) /\ Current(m)
    BY <1>2 DEF Loaded, Working, AloneInv, Relieved, Attended, Fresh
<1>4. CopyFits(pve, row[o].status, items, m, c)
    BY <1>3 DEF RecordInv, CopiesFit
<1>5. SetsFit(m, c) /\ ItemsFit(m, c) /\ InStep(items, m, c) /\ MaySave(pve, row[o].status, items, m)
    BY <1>2, <1>4, WaveFacts DEF InWave, InSubmit
<1>6. i \in c.todo /\ i \in ItemsOf(o) /\ Ahead(c, i) /\ ~Unsaved(c, i)
    BY <1>1, <1>2, <1>5 DEF SetsFit, Ahead, Unsaved, Handled, InWave, InSubmit
<1>7. m.items[i] = items[i] /\ Workable(m.items[i]) /\ Truthful(pve, i, m.items[i])
    BY <1>5, <1>6 DEF InStep, ItemsFit, MaySave, Sound
<1>8. m.items[i].upid = NoUPID
    BY <1>1, <1>2 DEF RecordInv, CopyInv, SubmitsWithoutUpid
<1>9. items[i].status # "QUEUED"
    BY <1>2, <1>6 DEF RecordInv, MarksStored, InSubmit
<1> QED BY <1>0, <1>7, <1>8, <1>9
        DEF ItemRecords, ItemStatuses, Workable, Truthful, Promise!ResultStatuses

\* A request is sent only for an item that the store shows as taken up and not yet
\* submitted (runner.go 248-249), however many workers have worked on the operation.
THEOREM MarkedSubmission == Spec => OnlyMarkedIsSubmitted
<1>1. RecordInv /\ AloneInv /\ [Next]_vars =>
        [\A i \in Items :
            stalls = 0 /\ Len(pve') > Len(pve) /\ pve'[Len(pve')].item = i
                => items[i] = [status |-> "RUNNING", upid |-> NoUPID]]_vars
    <2> SUFFICES ASSUME RecordInv, AloneInv, [Next]_vars, NEW i \in Items, stalls = 0,
                        Len(pve') > Len(pve), pve'[Len(pve')].item = i
                 PROVE  items[i] = [status |-> "RUNNING", upid |-> NoUPID]
        OBVIOUS
    <2>1. TypeOK
        BY DEF RecordInv, CopyInv
    <2>2. PICK w \in Workers : Send(w)
        BY <2>1, OthersSendNothing DEF TypeOK
    <2> QED BY <2>2, SubmitsMarked
<1> QED BY <1>1, RecordInvariance, Aloneness, PTL DEF Spec, OnlyMarkedIsSubmitted
-----------------------------------------------------------------------------
(* Without a store error.                                                    *)

Calm == stalls = 0 /\ faults = 0

\* The worker may go on: every call it makes will succeed.
LEMMA CalmFacts ==
    ASSUME RecordInv, AloneInv, CalmInv, Calm, NEW w \in Workers, Working(w)
    PROVE  /\ TypeOK /\ mem[w] \in MemoryRecords /\ ctl[w] \in ControlRecords
           /\ mem[w].op \in Ops /\ ~Terminal(row[mem[w].op].status)
           /\ HoldsLease(w, mem[w].op)
           /\ ctl[w].at # "load" => Current(mem[w])
           /\ Loaded(w) => CopyFits(pve, row[mem[w].op].status, items, mem[w], ctl[w])
<1>1. TypeOK /\ mem[w] \in MemoryRecords /\ ctl[w] \in ControlRecords /\ mem[w].op \in Ops
    BY DEF RecordInv, CopyInv, TypeOK
<1>2. ctl[w].at # "fail" /\ Attended(w)
    BY DEF Calm, CalmInv, AloneInv, Relieved
<1>3. ~Terminal(row[mem[w].op].status)
    BY <1>1, <1>2, AttendedIsOpen
<1> QED BY <1>1, <1>2, <1>3
        DEF HoldsLease, Attended, Fresh, RecordInv, CopiesFit, Loaded

\* The copy is written back and the worker goes on with it ...
Saved(w, m, next) ==
    /\ Commit(m) /\ ctl'[w] = next /\ UNCHANGED <<seats, pve>>
    /\ next # Idle => /\ mem'[w].op = m.op /\ mem'[w].items = m.items
                      /\ mem'[w].status = m.status

\* ... or nothing is stored.
Unstored(w, next) ==
    /\ ctl'[w] = next /\ UNCHANGED <<row, items, seats>>

LEMMA SaveCalm ==
    ASSUME TypeOK, NEW w \in Workers, NEW m, IsCopy(m), Current(m), NEW next,
           faults' = faults, Save(w, m, next)
    PROVE  Saved(w, m, next)
<1>1. ~Fault
    BY DEF Fault, TypeOK
<1>2. /\ Commit(m) /\ UNCHANGED <<seats, pve>>
      /\ mem' = [mem EXCEPT ![w] = IF next = Idle THEN NoMemory
                                   ELSE [m EXCEPT !.version = m.version + 1]]
      /\ ctl' = [ctl EXCEPT ![w] = next]
    BY <1>1 DEF Save
<1>3. ctl'[w] = next
    BY <1>2 DEF TypeOK
<1>4. next # Idle => mem'[w] = [m EXCEPT !.version = m.version + 1]
    BY <1>2 DEF TypeOK
<1> QED BY <1>2, <1>3, <1>4 DEF Saved, IsCopy

LEMMA SaveAsCalm ==
    ASSUME TypeOK, NEW w \in Workers, NEW status, Current(mem[w]), NEW next,
           CanTransition(mem[w].status, status),
           faults' = faults, SaveAs(w, status, mem[w], next)
    PROVE  Saved(w, [mem[w] EXCEPT !.status = status], next)
<1> DEFINE m == [mem[w] EXCEPT !.status = status]
<1>1. IsCopy(m) /\ Current(m)
    BY DEF TypeOK, MemoryRecords, IsCopy, Current
<1>2. Save(w, m, next)
    BY DEF SaveAs
<1> HIDE DEF m
<1>3. Saved(w, m, next)
    BY <1>1, <1>2, SaveCalm
<1> QED BY <1>3 DEF m

LEMMA RenewCalm ==
    ASSUME TypeOK, NEW w \in Workers, NEW next, HoldsLease(w, mem[w].op),
           faults' = faults, Renew(w, next)
    PROVE  Unstored(w, next) /\ UNCHANGED <<mem, pve>>
<1>1. ~Fault
    BY DEF Fault, TypeOK
<1> QED BY <1>1 DEF Renew, Unstored, TypeOK

LEMMA ApplyCalm ==
    ASSUME TypeOK, NEW w \in Workers, NEW i, NEW status, NEW next,
           faults' = faults, Apply(w, i, status, next)
    PROVE  /\ ctl'[w] = next
           /\ mem'[w] = WithItem(mem[w], i, status)
           /\ UNCHANGED <<row, items, pve>>
           /\ seats' = [seats EXCEPT ![SeatOf[i]] =
                            SeatAfter(@, OpType[mem[w].op], status)]
<1>1. ~Fault
    BY DEF Fault, TypeOK
<1> QED BY <1>1 DEF Apply, TypeOK

\* An item keeps its record or is worked on.
Unsettling(f, g) == g = f \/ g.status \notin SettledStatuses

\* What execute then does: nothing that is seen outside, ...
Quiet(w) ==
    /\ UNCHANGED <<row, items, seats>>
    /\ \A i \in Items : Unsettling(mem[w].items[i], mem'[w].items[i])

\* ... or to tell the seat of an item that the store shows as being worked on, ...
Tells(w) ==
    /\ UNCHANGED <<row, items>>
    /\ row[mem[w].op].status # "QUEUED"
    /\ \E i \in ItemsOf(mem[w].op), status \in ItemStatuses :
        /\ mem'[w] = WithItem(mem[w], i, status)
        /\ seats' = [seats EXCEPT ![SeatOf[i]] =
                        SeatAfter(@, OpType[mem[w].op], status)]
        /\ items[i].status \notin SettledStatuses

\* ... or to save, as finished only what finalize has classified.
Saves(w) ==
    /\ UNCHANGED seats
    /\ \E m :
        /\ Commit(m) /\ m.op = mem[w].op
        /\ Working(w)' => mem'[w].items = m.items
        /\ \A i \in Items : Unsettling(mem[w].items[i], m.items[i])
        /\ Terminal(m.status) =>
                m.status = FinalStatus({m.items[i].status : i \in ItemsOf(m.op)})

CalmStep(w) ==
    /\ ctl'[w].at # "fail"
    /\ Working(w)' => mem'[w].op = mem[w].op
    /\ Quiet(w) \/ Tells(w) \/ Saves(w)

LEMMA SavedIsCalm ==
    ASSUME RecordInv, NEW w \in Workers, NEW m, m.op = mem[w].op,
           NEW next, next.at # "fail", Saved(w, m, next),
           \A i \in Items : Unsettling(mem[w].items[i], m.items[i]),
           Terminal(m.status) =>
                m.status = FinalStatus({m.items[i].status : i \in ItemsOf(m.op)})
    PROVE  CalmStep(w)
<1>1. Working(w)' => next # Idle
    BY ControlTypes DEF Saved, Working
<1>2. Saves(w)
    BY <1>1 DEF Saves, Saved
<1> QED BY <1>1, <1>2 DEF CalmStep, Saved

\* A save under another status.
LEMMA RestatedIsCalm ==
    ASSUME RecordInv, NEW w \in Workers, mem[w] \in MemoryRecords, Current(mem[w]),
           NEW status, NEW next, next.at # "fail",
           CanTransition(mem[w].status, status),
           Terminal(status) =>
                status = FinalStatus({mem[w].items[i].status : i \in ItemsOf(mem[w].op)}),
           faults' = faults, SaveAs(w, status, mem[w], next)
    PROVE  CalmStep(w)
<1> DEFINE m == [mem[w] EXCEPT !.status = status]
<1>1. m.op = mem[w].op /\ m.items = mem[w].items /\ m.status = status
    BY DEF MemoryRecords
<1>2. Saved(w, m, next)
    BY SaveAsCalm DEF RecordInv, CopyInv
<1> HIDE DEF m
<1>3. \A i \in Items : Unsettling(mem[w].items[i], m.items[i])
    BY <1>1 DEF Unsettling
<1>4. Terminal(m.status) =>
            m.status = FinalStatus({m.items[i].status : i \in ItemsOf(m.op)})
    BY <1>1
<1> QED BY <1>1, <1>2, <1>3, <1>4, SavedIsCalm

\* A save of the copy as it is, or with an item that is worked on.
LEMMA NotedIsCalm ==
    ASSUME RecordInv, NEW w \in Workers, mem[w] \in MemoryRecords, Current(mem[w]),
           ~Terminal(mem[w].status),
           NEW m \in MemoryRecords, m.op = mem[w].op, m.status = mem[w].status,
           m.version = mem[w].version,
           \A i \in Items : Unsettling(mem[w].items[i], m.items[i]),
           NEW next, next.at # "fail",
           faults' = faults, Save(w, m, next)
    PROVE  CalmStep(w)
<1>1. IsCopy(m) /\ Current(m)
    BY DEF IsCopy, MemoryRecords, Current
<1>2. Saved(w, m, next)
    BY <1>1, SaveCalm DEF RecordInv, CopyInv
<1> QED BY <1>2, SavedIsCalm

\* The seat is told of an item.
LEMMA ToldIsCalm ==
    ASSUME RecordInv, NEW w \in Workers, mem[w] \in MemoryRecords,
           NEW i \in ItemsOf(mem[w].op), NEW status \in ItemStatuses,
           items[i].status \notin SettledStatuses, row[mem[w].op].status # "QUEUED",
           NEW next, next.at # "fail",
           faults' = faults, Apply(w, i, status, next)
    PROVE  CalmStep(w)
<1>1. /\ ctl'[w] = next
      /\ mem'[w] = WithItem(mem[w], i, status)
      /\ UNCHANGED <<row, items>>
      /\ seats' = [seats EXCEPT ![SeatOf[i]] = SeatAfter(@, OpType[mem[w].op], status)]
    BY ApplyCalm DEF RecordInv, CopyInv
<1>2. mem'[w].op = mem[w].op
    BY <1>1 DEF WithItem, MemoryRecords
<1> QED BY <1>1, <1>2 DEF CalmStep, Tells

\* A renewal.
LEMMA RenewedIsCalm ==
    ASSUME RecordInv, NEW w \in Workers, HoldsLease(w, mem[w].op),
           NEW next, next.at # "fail", faults' = faults, Renew(w, next)
    PROVE  CalmStep(w)
<1>1. Unstored(w, next) /\ UNCHANGED mem
    BY RenewCalm DEF RecordInv, CopyInv
<1> QED BY <1>1 DEF CalmStep, Quiet, Unstored, Unsettling

LEMMA ExecuteCalm ==
    ASSUME RecordInv, AloneInv, CalmInv, Calm, NEW w \in Workers, faults' = faults, Execute(w)
    PROVE  CalmStep(w)
<1> DEFINE m == mem[w]
           c == ctl[w]
           o == mem[w].op
           s == row[o].status
<1>0. /\ m \in MemoryRecords /\ c \in ControlRecords /\ TypeOK
      /\ m.items \in [Items -> ItemRecords]
    BY DEF RecordInv, CopyInv, TypeOK, MemoryRecords
<1>1. ASSUME c.at \in Labels \ {"idle", "stopped", "load", "loadItems", "fail"}
      PROVE  /\ Working(w) /\ Current(m) /\ HoldsLease(w, o)
             /\ CopyFits(pve, s, items, m, c)
             /\ m.status = s /\ ~Terminal(m.status)
    <2>1. Working(w) /\ Loaded(w)
        BY <1>1 DEF Working, Loaded
    <2>2. CopyFits(pve, s, items, m, c) /\ Current(m) /\ HoldsLease(w, o) /\ ~Terminal(s)
        BY <1>1, <2>1, CalmFacts
    <2> QED BY <1>1, <2>1, <2>2 DEF CopyFits, StatusFits
<1>2. CASE Begin(w)
    <2>1. HoldsLease(w, o)
        BY <1>1, <1>2 DEF Begin, Labels
    <2>2. Resume(m).at # "fail"
        BY DEF Resume, At
    <2> QED BY <1>2, <2>1, <2>2, RenewedIsCalm DEF Begin
<1>3. CASE StartWave(w) \/ RenewForSubmit(w)
    <2>1. HoldsLease(w, o)
        BY <1>1, <1>3 DEF StartWave, RenewForSubmit, Labels
    <2>2. \E next : next.at # "fail" /\ Renew(w, next)
        <3>1. CASE StartWave(w)
            <4> DEFINE wave == NextWave(ctl[w].rest)
                       next == [ctl[w] EXCEPT
                            !.at = "mark", !.wave = wave, !.rest = @ \ wave,
                            !.todo = {i \in wave :
                                        mem[w].items[i].status \in {"QUEUED", "RUNNING"}}]
            <4>1. Renew(w, next)
                BY <3>1 DEF StartWave
            <4>2. next.at = "mark"
                BY <1>0 DEF ControlRecords
            <4> QED BY <4>1, <4>2
        <3>2. CASE RenewForSubmit(w)
            <4>1. [ctl[w] EXCEPT !.at = "send"].at = "send"
                BY <1>0 DEF ControlRecords
            <4> QED BY <3>2, <4>1 DEF RenewForSubmit
        <3> QED BY <1>3, <3>1, <3>2
    <2> QED BY <2>1, <2>2, RenewedIsCalm
<1>4. CASE Validate(w) \/ StartRunning(w) \/ Verify(w)
    <2>1. c.at \in {"validate", "check", "wave"} /\ c.at \in Labels
        BY <1>4 DEF Validate, StartRunning, Verify, Labels
    <2>2. Current(m) /\ CopyFits(pve, s, items, m, c)
        BY <1>1, <2>1
    <2>3. \E status, next : /\ next.at # "fail" /\ ~Terminal(status)
                            /\ CanTransition(m.status, status)
                            /\ SaveAs(w, status, m, next)
        <3>1. CASE Validate(w)
            <4>1. CanTransition(m.status, "VALIDATING")
                BY <2>2, <3>1 DEF Validate, CopyFits, StatusFits, CanTransition,
                                  OperationTransitions, OperationStatuses
            <4> QED BY <3>1, <4>1 DEF Validate, At, Terminal, TerminalStatuses
        <3>2. CASE StartRunning(w)
            <4>1. CanTransition(m.status, "RUNNING")
                BY <2>2, <3>2 DEF StartRunning, CopyFits, StatusFits, CanTransition,
                                  OperationTransitions, OperationStatuses
            <4> QED BY <3>2, <4>1 DEF StartRunning, At, Terminal, TerminalStatuses
        <3>3. CASE Verify(w)
            <4>1. CanTransition(m.status, "VERIFYING")
                BY <2>2, <3>3 DEF Verify, CopyFits, StatusFits, CanTransition,
                                  OperationTransitions, OperationStatuses
            <4> QED BY <3>3, <4>1 DEF Verify, At, Terminal, TerminalStatuses
        <3> QED BY <1>4, <3>1, <3>2, <3>3
    <2> QED BY <1>0, <2>2, <2>3, RestatedIsCalm
<1>5. CASE SaveWave(w) \/ StartWaiting(w)
    <2>1. c.at \in {"mark", "submit"} /\ c.at \in Labels
        BY <1>5 DEF SaveWave, StartWaiting, Labels
    <2>2. Current(m) /\ CopyFits(pve, s, items, m, c)
        BY <1>1, <2>1
    <2>3. m.status \in {"RUNNING", "WAITING_PVE"}
        BY <2>1, <2>2 DEF CopyFits, StatusFits, InWave, InSubmit
    <2>4. CanTransition(m.status, "RUNNING") /\ CanTransition(m.status, "WAITING_PVE")
        BY <2>3 DEF CanTransition, OperationTransitions, OperationStatuses
    <2>5. \E status, next : /\ next.at # "fail" /\ ~Terminal(status)
                            /\ CanTransition(m.status, status)
                            /\ SaveAs(w, status, m, next)
        <3>1. CASE SaveWave(w)
            <4>1. [ctl[w] EXCEPT !.at = "submit", !.todo = ctl[w].wave].at = "submit"
                BY <1>0 DEF ControlRecords
            <4> QED BY <2>4, <3>1, <4>1 DEF SaveWave, Terminal, TerminalStatuses
        <3>2. CASE StartWaiting(w)
            <4>1. \A S : [ctl[w] EXCEPT !.at = "wait", !.todo = S].at = "wait"
                BY <1>0 DEF ControlRecords
            <4> QED BY <2>4, <3>2, <4>1 DEF StartWaiting, Terminal, TerminalStatuses
        <3> QED BY <1>5, <3>1, <3>2
    <2> QED BY <1>0, <2>2, <2>5, RestatedIsCalm
<1>6. CASE Finish(w)
    <2> DEFINE status == FinalStatus({m.items[i].status : i \in ItemsOf(o)})
    <2>1. c.at = "finish" /\ SaveAs(w, status, m, Idle)
        BY <1>6 DEF Finish
    <2>2. Current(m) /\ CopyFits(pve, s, items, m, c)
        BY <1>1, <2>1 DEF Labels
    <2>3. m.status = "VERIFYING" /\ status \in {"SUCCEEDED", "PARTIALLY_SUCCEEDED", "FAILED"}
        BY <2>1, <2>2 DEF CopyFits, StatusFits, FinalStatus
    <2>4. CanTransition(m.status, status)
        BY <2>3 DEF CanTransition, OperationTransitions, OperationStatuses
    <2>5. Idle.at # "fail"
        BY ControlTypes
    <2> QED BY <1>0, <2>1, <2>2, <2>4, <2>5, RestatedIsCalm
<1>7. CASE Accepted(w) \/ SaveSubmit(w) \/ TaskEnded(w) \/ SaveResult(w)
    <2>1. c.at \in {"reply", "saveSubmit", "wait", "saveResult"} /\ c.at \in Labels
        BY <1>7 DEF Accepted, SaveSubmit, TaskEnded, SaveResult, Labels
    <2>2. Current(m) /\ ~Terminal(m.status)
        BY <1>1, <2>1
    <2>3. \E k \in MemoryRecords : \E next :
            /\ k.op = o /\ k.status = m.status /\ k.version = m.version
            /\ \A i \in Items : Unsettling(m.items[i], k.items[i])
            /\ next.at # "fail" /\ Save(w, k, next)
        <3>1. CASE Accepted(w)
            <4>1. PICK i \in c.todo :
                    Save(w, [m EXCEPT !.items[i] = [status |-> "WAITING_PVE", upid |-> c.call]],
                         [c EXCEPT !.at = "submit", !.todo = @ \ {i}, !.call = 0])
                BY <3>1 DEF Accepted
            <4> DEFINE r == [status |-> "WAITING_PVE", upid |-> c.call]
                       k == [m EXCEPT !.items[i] = r]
                       next == [c EXCEPT !.at = "submit", !.todo = @ \ {i}, !.call = 0]
            <4>2. i \in Items /\ r \in ItemRecords /\ r.status = "WAITING_PVE"
                BY <1>0 DEF ControlRecords, ItemRecords, ItemStatuses
            <4>3. k.status = m.status /\ next.at = "submit"
                BY <1>0 DEF MemoryRecords, ControlRecords
            <4> HIDE DEF r
            <4>4. /\ k \in MemoryRecords /\ k.op = m.op /\ k.version = m.version
                  /\ k.items[i] = r /\ \A j \in Items : j # i => k.items[j] = m.items[j]
                BY <1>0, <4>2, ItemReplaced
            <4>5. Save(w, k, next)
                BY <4>1 DEF r
            <4> HIDE DEF k, next
            <4>6. \A j \in Items : Unsettling(m.items[j], k.items[j])
                BY <4>2, <4>4 DEF Unsettling, SettledStatuses
            <4> QED BY <4>3, <4>4, <4>5, <4>6
        <3>2. CASE SaveSubmit(w) \/ SaveResult(w)
            <4>1. \E next : next.at # "fail" /\ Save(w, m, next)
                BY <1>0, <3>2 DEF SaveSubmit, SaveResult, ControlRecords
            <4>2. \A i \in Items : Unsettling(m.items[i], m.items[i])
                BY DEF Unsettling
            <4> QED BY <1>0, <4>1, <4>2
        <3>3. CASE TaskEnded(w)
            <4>1. PICK i \in c.todo : Save(w, WithItem(m, i, "VERIFYING"), [c EXCEPT !.at = "result"])
                BY <3>3 DEF TaskEnded
            <4> DEFINE k == WithItem(m, i, "VERIFYING")
            <4>2. i \in Items /\ "VERIFYING" \in ItemStatuses
                BY <1>0 DEF ControlRecords, ItemStatuses
            <4>3. /\ k \in MemoryRecords
                  /\ k.op = m.op /\ k.status = m.status /\ k.version = m.version
                  /\ k.items[i] = [status |-> "VERIFYING", upid |-> m.items[i].upid]
                  /\ \A j \in Items : j # i => k.items[j] = m.items[j]
                BY <1>0, <4>2, OneItem
            <4>4. \A j \in Items : Unsettling(m.items[j], k.items[j])
                BY <4>3 DEF Unsettling, SettledStatuses
            <4>5. [c EXCEPT !.at = "result"].at = "result"
                BY <1>0 DEF ControlRecords
            <4> QED BY <4>1, <4>3, <4>4, <4>5
        <3> QED BY <1>7, <3>1, <3>2, <3>3
    <2> QED BY <1>0, <2>2, <2>3, NotedIsCalm
<1>8. CASE Check(w) \/ Mark(w) \/ NotAccepted(w) \/ Result(w) \/ Unresolved(w)
    <2>1. /\ c.at \in {"check", "mark", "reply", "result", "unresolved"} /\ c.at \in Labels
          /\ c.at \notin {"saveSubmit", "saveResult"}
        BY <1>8 DEF Check, Mark, NotAccepted, Result, Unresolved, Labels
    <2>2. CopyFits(pve, s, items, m, c) /\ m.status = s
        BY <1>1, <2>1
    <2>3. s \in {"VALIDATING", "RUNNING", "WAITING_PVE"}
        BY <2>1, <2>2 DEF CopyFits, StatusFits, InWave, InSubmit, InWait
    <2>4. ASSUME NEW i \in c.todo, c.at \notin {"check", "mark"} => IsFirst(i, c.todo)
          PROVE  i \in ItemsOf(o) /\ items[i].status \notin SettledStatuses
        <3>1. CASE c.at = "check"
            <4>1. i \in ItemsOf(o) /\ s = "VALIDATING"
                BY <2>2, <3>1 DEF CopyFits, FreshFits, StatusFits
            <4>2. o \in Ops
                BY <1>0, <1>1, <2>1 DEF TypeOK
            <4>3. items[i] = NewItem
                BY <4>1, <4>2 DEF RecordInv, StoredSound
            <4> QED BY <4>1, <4>3 DEF NewItem, SettledStatuses
        <3>2. CASE c.at = "mark"
            <4>1. SetsFit(m, c) /\ ItemsFit(m, c) /\ InStep(items, m, c)
                BY <2>2, <3>2, WaveFacts DEF InWave
            <4>2. i \in ItemsOf(o) /\ m.items[i].status \in {"QUEUED", "RUNNING"}
                BY <3>2, <4>1 DEF SetsFit, ItemsFit, InWave
            <4>3. items[i] = m.items[i]
                BY <3>2, <4>1, <4>2 DEF InStep, Unsaved, InSubmit
            <4> QED BY <4>2, <4>3 DEF SettledStatuses
        <3>3. CASE c.at \in {"reply", "result", "unresolved"}
            <4>1. SetsFit(m, c) /\ ItemsFit(m, c) /\ InStep(items, m, c)
                BY <2>2, <3>3, WaveFacts DEF InWave, InSubmit, InWait
            <4>2. i \in ItemsOf(o) /\ i \in Items
                BY <3>3, <4>1 DEF SetsFit, ItemsOf, InWave, InSubmit, InWait
            <4>3. items[i] = m.items[i]
                BY <3>3, <4>1, <4>2 DEF InStep, Unsaved, Handled, InSubmit
            <4>4. c.at = "reply" => m.items[i].upid = NoUPID /\ Workable(m.items[i])
                BY <2>4, <4>1, <4>2
                DEF ItemsFit, Ahead, Handled, InSubmit, RecordInv, CopyInv, SubmitsWithoutUpid
            <4>5. c.at # "reply" => Tracked(m.items[i])
                BY <3>3, <4>1 DEF ItemsFit, Handled, InWait
            <4> QED BY <4>2, <4>3, <4>4, <4>5
                    DEF Workable, Tracked, SettledStatuses, Promise!ResultStatuses
        <3> QED BY <2>1, <3>1, <3>2, <3>3
    <2>5. \E i \in c.todo, status \in ItemStatuses : \E next :
            /\ c.at \notin {"check", "mark"} => IsFirst(i, c.todo)
            /\ next.at # "fail" /\ Apply(w, i, status, next)
        <3>1. {"FAILED", "RUNNING", "UNKNOWN", "SUCCEEDED"} \subseteq ItemStatuses
            BY DEF ItemStatuses
        <3>2. CASE Check(w)
            <4>1. \A S : [c EXCEPT !.todo = S].at = "check"
                BY <1>0, <3>2 DEF Check, ControlRecords
            <4> QED BY <3>1, <3>2, <4>1 DEF Check
        <3>3. CASE Mark(w)
            <4>1. \A S : [c EXCEPT !.todo = S].at = "mark"
                BY <1>0, <3>3 DEF Mark, ControlRecords
            <4> QED BY <3>1, <3>3, <4>1 DEF Mark
        <3>4. CASE NotAccepted(w)
            <4>1. [c EXCEPT !.at = "saveSubmit", !.call = 0].at = "saveSubmit"
                BY <1>0 DEF ControlRecords
            <4> QED BY <3>1, <3>4, <4>1 DEF NotAccepted
        <3>5. CASE Result(w) \/ Unresolved(w)
            <4>1. [c EXCEPT !.at = "saveResult"].at = "saveResult"
                BY <1>0 DEF ControlRecords
            <4> QED BY <3>1, <3>5, <4>1 DEF Result, Unresolved
        <3> QED BY <1>8, <3>2, <3>3, <3>4, <3>5
    <2>6. s # "QUEUED"
        BY <2>3
    <2> QED BY <1>0, <2>4, <2>5, <2>6, ToldIsCalm
<1>9. CASE Track(w) \/ Send(w) \/ EndWave(w) \/ WaitFails(w) \/ Heartbeat(w)
    <2>1. UNCHANGED <<row, items, seats>>
        BY <1>9 DEF Track, Send, EndWave, WaitFails, Heartbeat, stored
    <2>2. c.at # "fail" /\ ctl'[w].at # "fail"
        <3>1. CASE Track(w)
            <4>1. \A S : [c EXCEPT !.todo = S].at = "submit"
                BY <1>0, <3>1 DEF Track, ControlRecords
            <4> QED BY <1>0, <3>1, <4>1 DEF Track, TypeOK
        <3>2. CASE Send(w)
            BY <1>0, <3>2 DEF Send, TypeOK, ControlRecords
        <3>3. CASE EndWave(w)
            BY <1>0, <3>3 DEF EndWave, TypeOK, At
        <3>4. CASE WaitFails(w)
            BY <1>0, <3>4 DEF WaitFails, TypeOK, ControlRecords
        <3>5. CASE Heartbeat(w)
            BY <3>5 DEF Heartbeat
        <3> QED BY <1>9, <3>1, <3>2, <3>3, <3>4, <3>5
    <2>3. mem'[w].op = o /\ \A i \in Items : Unsettling(m.items[i], mem'[w].items[i])
        <3>1. CASE Track(w)
            <4>1. PICK i \in c.todo : mem' = [mem EXCEPT ![w] = WithItem(@, i, "WAITING_PVE")]
                BY <3>1 DEF Track
            <4>2. i \in Items /\ "WAITING_PVE" \in ItemStatuses
                BY <1>0 DEF ControlRecords, ItemStatuses
            <4> DEFINE k == WithItem(m, i, "WAITING_PVE")
            <4>3. /\ k.op = m.op
                  /\ k.items[i] = [status |-> "WAITING_PVE", upid |-> m.items[i].upid]
                  /\ \A j \in Items : j # i => k.items[j] = m.items[j]
                BY <1>0, <4>2, OneItem
            <4>4. mem'[w] = k
                BY <1>0, <4>1 DEF TypeOK
            <4> HIDE DEF k
            <4> QED BY <4>3, <4>4 DEF Unsettling, SettledStatuses
        <3>2. CASE Send(w) \/ EndWave(w) \/ WaitFails(w) \/ Heartbeat(w)
            BY <3>2 DEF Send, EndWave, WaitFails, Heartbeat, Unsettling
        <3> QED BY <1>9, <3>1, <3>2
    <2> QED BY <2>1, <2>2, <2>3 DEF CalmStep, Quiet
<1> QED BY <1>2, <1>3, <1>4, <1>5, <1>6, <1>7, <1>8, <1>9 DEF Execute

\* What is used of the budgets stays used.
LEMMA BudgetsGrow ==
    ASSUME TypeOK, [Next]_vars
    PROVE  /\ faults' \in {faults, faults + 1} /\ stalls' \in {stalls, stalls + 1}
           /\ stops' \in {stops, stops + 1}
<1>1. ASSUME NEW w \in Workers, NEW m, NEW next, Save(w, m, next)
      PROVE  faults' \in {faults, faults + 1} /\ stalls' = stalls /\ stops' = stops
    BY <1>1 DEF Save, Fault
<1>2. ASSUME NEW w \in Workers, NEW status, NEW m, NEW next, SaveAs(w, status, m, next)
      PROVE  faults' \in {faults, faults + 1} /\ stalls' = stalls /\ stops' = stops
    <2> DEFINE k == [m EXCEPT !.status = status]
    <2>1. Save(w, k, next) \/ UNCHANGED budgets
        BY <1>2 DEF SaveAs
    <2> HIDE DEF k
    <2> QED BY <1>1, <2>1 DEF budgets
<1>3. CASE \E w \in Workers : Accepted(w) \/ SaveSubmit(w) \/ TaskEnded(w) \/ SaveResult(w)
    <2>1. \E w \in Workers : \E m, next : Save(w, m, next)
        BY <1>3 DEF Accepted, SaveSubmit, TaskEnded, SaveResult
    <2> QED BY <1>1, <2>1
<1>4. CASE \E w \in Workers :
            Validate(w) \/ StartRunning(w) \/ SaveWave(w) \/ StartWaiting(w) \/ Verify(w) \/ Finish(w)
    <2>1. \E w \in Workers : \E status, m, next : SaveAs(w, status, m, next)
        BY <1>4 DEF Validate, StartRunning, SaveWave, StartWaiting, Verify, Finish
    <2> QED BY <1>2, <2>1
<1>5. CASE \E w \in Workers :
            \/ Begin(w) \/ StartWave(w) \/ RenewForSubmit(w)
            \/ Check(w) \/ Mark(w) \/ NotAccepted(w) \/ Result(w) \/ Unresolved(w)
    <2>1. \/ \E w \in Workers : \E next : Renew(w, next)
          \/ \E w \in Workers : \E i, status, next : Apply(w, i, status, next)
        BY <1>5 DEF Begin, StartWave, RenewForSubmit, Check, Mark, NotAccepted, Result, Unresolved
    <2> QED BY <2>1 DEF Renew, Apply, Fault
<1>6. CASE \/ \E w \in Workers :
                \/ Track(w) \/ Send(w) \/ EndWave(w) \/ WaitFails(w) \/ Heartbeat(w)
                \/ LoadRow(w) \/ LoadItems(w) \/ LoadFails(w) \/ Fail(w) \/ Poll(w) \/ Stop(w)
           \/ \E w \in Workers, o \in Ops : Claim(w, o)
           \/ \E o \in Ops : LeaseLapses(o) \/ LeaseExpires(o)
           \/ \E r \in DOMAIN pve : PveAnswers(r)
           \/ UNCHANGED vars
    BY <1>6 DEF Track, Send, EndWave, WaitFails, Heartbeat, LoadRow, LoadItems, LoadFails, Fail,
                Poll, Stop, Claim, LeaseLapses, LeaseExpires, PveAnswers, vars, budgets, Fault
<1> QED BY <1>3, <1>4, <1>5, <1>6 DEF Next, Step, Execute

\* The steps of a calm run: those of execute, and those that store nothing.
Aside ==
    \/ \E w \in Workers, o \in Ops : Claim(w, o)
    \/ \E w \in Workers : LoadRow(w) \/ LoadItems(w) \/ Stop(w)
    \/ UNCHANGED <<mem, ctl>>

LEMMA CalmNext ==
    ASSUME RecordInv, AloneInv, CalmInv, [Next]_vars, Calm'
    PROVE  /\ Calm
           /\ \/ \E w \in Workers : Execute(w) /\ OwnStep(w) /\ CalmStep(w)
              \/ Aside /\ UNCHANGED <<row, items, seats>>
<1>0. TypeOK
    BY DEF RecordInv, CopyInv
<1>1. Calm /\ faults' = faults /\ stalls' = stalls
    BY <1>0, BudgetsGrow DEF Calm, TypeOK
<1>2. ASSUME NEW w \in Workers, Execute(w)
      PROVE  OwnStep(w) /\ CalmStep(w)
    BY <1>1, <1>2, ExecuteOwn, ExecuteCalm
<1>3. ASSUME NEW w \in Workers PROVE ~LoadFails(w) /\ ~Fail(w)
    BY <1>0, <1>1 DEF LoadFails, Fail, Fault, CalmInv, Calm, TypeOK
<1>4. ASSUME \/ \E w \in Workers, o \in Ops : Claim(w, o)
             \/ \E w \in Workers : LoadRow(w) \/ LoadItems(w) \/ Poll(w) \/ Stop(w)
             \/ \E o \in Ops : LeaseLapses(o) \/ LeaseExpires(o)
             \/ \E r \in DOMAIN pve : PveAnswers(r)
             \/ UNCHANGED vars
      PROVE  Aside /\ UNCHANGED <<row, items, seats>>
    BY <1>4 DEF Aside, Claim, LoadRow, LoadItems, Poll, Stop, LeaseLapses, LeaseExpires, PveAnswers,
                vars, stored
<1> QED BY <1>1, <1>2, <1>3, <1>4 DEF Next, Step

\* What a save stores of the operations.
LEMMA Committed ==
    ASSUME TypeOK, NEW m, m.op \in Ops, Commit(m)
    PROVE  /\ row'[m.op].status = m.status
           /\ \A i \in ItemsOf(m.op) : items'[i] = m.items[i]
           /\ \A o \in Ops : o # m.op =>
                /\ row'[o] = row[o]
                /\ \A i \in ItemsOf(o) : items'[i] = items[i]
BY DEF Commit, TypeOK, ItemsOf

LEMMA ClassifiedNext ==
    ASSUME RecordInv, AloneInv, CalmInv, TerminalIsClassified, [Next]_vars
    PROVE  CalmInv' /\ TerminalIsClassified'
<1> SUFFICES ASSUME Calm'
             PROVE  /\ \A w \in Workers : ctl'[w].at # "fail"
                    /\ \A o \in Ops : Terminal(row'[o].status) =>
                        row'[o].status = FinalStatus({items'[i].status : i \in ItemsOf(o)})
    BY DEF CalmInv, TerminalIsClassified, Calm
<1>0. TypeOK /\ Calm
    BY CalmNext DEF RecordInv, CopyInv
<1>1. /\ \A w \in Workers : ctl[w].at # "fail"
      /\ \A o \in Ops : Terminal(row[o].status) =>
            row[o].status = FinalStatus({items[i].status : i \in ItemsOf(o)})
    BY <1>0 DEF CalmInv, TerminalIsClassified, Calm
<1>2. ASSUME NEW w \in Workers, OwnStep(w), CalmStep(w)
      PROVE  /\ \A v \in Workers : ctl'[v].at # "fail"
             /\ \A o \in Ops : Terminal(row'[o].status) =>
                    row'[o].status = FinalStatus({items'[i].status : i \in ItemsOf(o)})
    <2>1. \A v \in Workers : ctl'[v].at # "fail"
        BY <1>1, <1>2 DEF OwnStep, CalmStep
    <2>2. CASE UNCHANGED <<row, items>>
        BY <1>1, <2>1, <2>2
    <2>3. CASE Saves(w)
        <3>1. PICK m : /\ Commit(m) /\ m.op = mem[w].op
                       /\ Terminal(m.status) =>
                            m.status = FinalStatus({m.items[i].status : i \in ItemsOf(m.op)})
            BY <2>3 DEF Saves
        <3>2. m.op \in Ops
            BY <1>0, <1>2, <3>1 DEF OwnStep, TypeOK
        <3> SUFFICES ASSUME NEW o \in Ops, Terminal(row'[o].status)
                     PROVE  row'[o].status = FinalStatus({items'[i].status : i \in ItemsOf(o)})
            BY <2>1
        <3>3. CASE o = m.op
            <4>1. /\ row'[o].status = m.status
                  /\ \A i \in ItemsOf(o) : items'[i] = m.items[i]
                BY <1>0, <3>1, <3>2, <3>3, Committed
            <4>2. {items'[i].status : i \in ItemsOf(o)} = {m.items[i].status : i \in ItemsOf(m.op)}
                BY <3>3, <4>1
            <4> QED BY <3>1, <4>1, <4>2
        <3>4. CASE o # m.op
            <4>1. /\ row'[o] = row[o]
                  /\ \A i \in ItemsOf(o) : items'[i] = items[i]
                BY <1>0, <3>1, <3>2, <3>4, Committed
            <4>2. {items'[i].status : i \in ItemsOf(o)} = {items[i].status : i \in ItemsOf(o)}
                BY <4>1
            <4> QED BY <1>1, <4>1, <4>2
        <3> QED BY <3>3, <3>4
    <2> QED BY <1>2, <2>2, <2>3 DEF CalmStep, Quiet, Tells
<1>3. ASSUME Aside, UNCHANGED <<row, items, seats>>
      PROVE  \A v \in Workers : ctl'[v].at # "fail"
    <2>1. \A l : At(l).at = l
        BY DEF At
    <2>2. \/ \E w \in Workers, l \in {"load", "loadItems", "begin", "stopped"} :
                ctl' = [ctl EXCEPT ![w] = At(l)]
          \/ ctl' = ctl
        BY <1>3 DEF Aside, Claim, LoadRow, LoadItems, Stop
    <2> QED BY <1>0, <1>1, <2>1, <2>2 DEF TypeOK
<1> QED BY <1>1, <1>2, <1>3, CalmNext

\* No worker takes the error path while no store error happens and no lease expires
\* under it.
LEMMA Calmness == Spec => [](CalmInv /\ TerminalIsClassified)
<1>1. Init => CalmInv /\ TerminalIsClassified
    BY ControlTypes DEF Init, CalmInv, TerminalIsClassified, Terminal, TerminalStatuses
<1>2. /\ RecordInv /\ AloneInv /\ CalmInv /\ TerminalIsClassified /\ [Next]_vars
      => (CalmInv /\ TerminalIsClassified)'
    BY ClassifiedNext
<1> QED BY <1>1, <1>2, RecordInvariance, Aloneness, PTL DEF Spec

\* The terminal status is the one finalize derives from the items, whichever workers
\* contributed to them (runner.go, finalize).
THEOREM Classification == Spec => []TerminalIsClassified
BY Calmness, PTL

\* A begun operation is never queued again.
LEMMA BegunStays ==
    ASSUME TypeOK, KeepsPromise, NEW o \in Ops, row[o].status # "QUEUED"
    PROVE  row'[o].status # "QUEUED"
<1>1. CASE UNCHANGED <<Statuses, items>>
    BY <1>1 DEF Statuses
<1>2. ASSUME NEW p \in Ops, Promise!Advance(p)
      PROVE  row'[o].status # "QUEUED"
    <2>1. /\ \E to : Statuses' = [Statuses EXCEPT ![p] = to]
          /\ CanTransition(Statuses[p], Statuses'[p])
        BY <1>2, SameLifecycle DEF Promise!Advance, Statuses
    <2>2. /\ o # p => Statuses'[o] = Statuses[o]
          /\ CanTransition(Statuses[p], Statuses'[p])
          /\ Statuses[o] = row[o].status /\ Statuses'[o] = row'[o].status
        BY <2>1 DEF Statuses
    <2>3. \A from \in OperationStatuses : "QUEUED" \notin OperationTransitions[from]
        BY DEF OperationTransitions, OperationStatuses
    <2>4. row[p].status \in OperationStatuses
        BY DEF TypeOK
    <2> QED BY <2>2, <2>3, <2>4 DEF CanTransition, Statuses
<1> QED BY <1>1, <1>2 DEF KeepsPromise

\* A worker that may still begin an operation has touched none of its items.
LEMMA NotBegun ==
    ASSUME RecordInv, AloneInv, CalmInv, Calm, NEW w \in Workers, Loaded(w),
           row[mem[w].op].status = "QUEUED", NEW i \in ItemsOf(mem[w].op)
    PROVE  mem[w].items[i].status = "QUEUED"
<1> DEFINE m == mem[w]
           c == ctl[w]
           s == row[m.op].status
<1>1. CopyFits(pve, s, items, m, c) /\ m.op \in Ops /\ c.at # "fail"
    BY CalmFacts DEF Loaded, Calm, CalmInv
<1>2. m.status = "QUEUED"
    BY <1>1 DEF CopyFits, StatusFits
<1>3. ~Unsaved(c, i)
    BY <1>1, <1>2 DEF CopyFits, StatusFits, Unsaved, InWave, InSubmit, InWait
<1>4. m.items[i] = items[i]
    BY <1>1, <1>3 DEF CopyFits, InStep
<1>5. items[i] = NewItem
    BY <1>1 DEF RecordInv, StoredSound
<1> QED BY <1>4, <1>5 DEF NewItem

\* What Shows says of one worker.
ShowsIn(w, i) ==
    /\ Working(w) /\ mem[w].op = OpOf[i]
    /\ mem[w].items[i].status \in SettledStatuses
    => seats[SeatOf[i]].state = mem[w].items[i].status

LEMMA ShowsParts ==
    ASSUME NEW i
    PROVE  Shows(i) <=>
            /\ items[i].status \in SettledStatuses => seats[SeatOf[i]].state = items[i].status
            /\ \A w \in Workers : ShowsIn(w, i)
BY DEF Shows, ShowsIn

\* A worker on another operation knows nothing of an item.
LEMMA OthersShow ==
    ASSUME TypeOK, NEW w \in Workers, OwnStep(w), NEW v \in Workers, v # w,
           NEW i \in Items, seats'[SeatOf[i]] = seats[SeatOf[i]], ShowsIn(v, i)
    PROVE  ShowsIn(v, i)'
BY DEF OwnStep, ShowsIn, Working

LEMMA ExecuteShows ==
    ASSUME RecordInv, AloneInv, CalmInv, Calm, KeepsPromise, SeatInv,
           NEW w \in Workers, Execute(w), OwnStep(w), CalmStep(w),
           NEW s \in Seats, Touching(s)' # {}
    PROVE  \E i \in Touching(s)' : Shows(i)'
<1> DEFINE o == mem[w].op
<1>0. TypeOK /\ o \in Ops /\ Loaded(w) /\ Working(w)
    BY DEF RecordInv, CopyInv, TypeOK, OwnStep, Loaded, Working, Execute, Begin, Validate, Check,
           StartRunning, StartWave, Mark, SaveWave, Track, RenewForSubmit, Send, Accepted,
           NotAccepted, SaveSubmit, StartWaiting, TaskEnded, Result, Heartbeat, WaitFails,
           Unresolved, SaveResult, EndWave, Verify, Finish
<1>1. Touching(s) \subseteq Touching(s)'
    BY <1>0, BegunStays, ItemsAssumption DEF Touching
<1>2. Touching(s) # {} => \E i \in Touching(s) : Shows(i)
    BY DEF SeatInv, Calm
<1>3. ASSUME NEW v \in Workers, v # w, Working(v)' PROVE mem'[v].op # o
    BY <1>0, <1>3 DEF AloneInv, Calm, OwnStep, Working
<1>4. CASE Quiet(w)
    <2>1. Touching(s)' = Touching(s)
        BY <1>4 DEF Quiet, Touching
    <2>2. PICK i \in Touching(s) : Shows(i)
        BY <1>2, <2>1
    <2>3. i \in Items
        BY DEF Touching
    <2>4. ShowsIn(w, i)'
        BY <1>0, <1>4, <2>2, <2>3, ShowsParts DEF ShowsIn, Quiet, Unsettling, CalmStep
    <2>5. \A v \in Workers : ShowsIn(v, i)'
        BY <1>0, <1>4, <2>2, <2>3, <2>4, ShowsParts, OthersShow DEF Quiet
    <2>6. items'[i].status \in SettledStatuses => seats'[SeatOf[i]].state = items'[i].status
        BY <1>4, <2>2, ShowsParts DEF Quiet
    <2> QED BY <2>1, <2>2, <2>5, <2>6 DEF Shows, ShowsIn
<1>5. CASE Tells(w)
    <2>0. Touching(s)' = Touching(s)
        BY <1>5 DEF Tells, Touching
    <2>1. PICK j \in ItemsOf(o), status \in ItemStatuses :
            /\ mem'[w] = WithItem(mem[w], j, status)
            /\ seats' = [seats EXCEPT ![SeatOf[j]] = SeatAfter(@, OpType[o], status)]
            /\ items[j].status \notin SettledStatuses
        BY <1>5 DEF Tells
    <2>2. /\ j \in Items /\ OpOf[j] = o /\ mem[w] \in MemoryRecords /\ SeatOf[j] \in Seats
        BY <1>0, ItemsAssumption DEF ItemsOf, TypeOK
    <2>3. /\ mem'[w].items[j].status = status
          /\ \A i \in Items : i # j => mem'[w].items[i] = mem[w].items[i]
        <3> DEFINE k == WithItem(mem[w], j, status)
        <3>1. /\ k.items[j].status = status
              /\ \A i \in Items : i # j => k.items[i] = mem[w].items[i]
            <4>1. /\ k.items[j] = [status |-> status, upid |-> mem[w].items[j].upid]
                  /\ \A i \in Items : i # j => k.items[i] = mem[w].items[i]
                BY <2>2, OneItem
            <4> HIDE DEF k
            <4> QED BY <4>1
        <3>2. mem'[w] = k
            BY <2>1
        <3> HIDE DEF k
        <3> QED BY <3>1, <3>2
    <2>4. /\ seats'[SeatOf[j]].state = status
          /\ \A z \in Seats : z # SeatOf[j] => seats'[z] = seats[z]
        BY <1>0, <2>1, <2>2 DEF TypeOK, SeatAfter
    <2>5. CASE s = SeatOf[j]
        <3>1. j \in Touching(s)'
            BY <1>5, <2>0, <2>2, <2>5 DEF Tells, Touching
        <3>2. ShowsIn(w, j)'
            BY <2>3, <2>4 DEF ShowsIn
        <3>3. ASSUME NEW v \in Workers, v # w PROVE ShowsIn(v, j)'
            BY <1>3, <2>2, <3>3 DEF ShowsIn
        <3>4. items'[j].status \notin SettledStatuses
            BY <1>5, <2>1 DEF Tells
        <3> QED BY <3>1, <3>2, <3>3, <3>4 DEF Shows, ShowsIn
    <2>6. CASE s # SeatOf[j]
        <3>1. PICK i \in Touching(s) : Shows(i)
            BY <1>2, <2>0
        <3>2. i \in Items /\ i # j /\ seats'[SeatOf[i]] = seats[SeatOf[i]]
            BY <2>4, <2>6 DEF Touching
        <3>3. ShowsIn(w, i)'
            BY <1>0, <2>3, <3>1, <3>2, ShowsParts DEF ShowsIn, CalmStep
        <3>4. \A v \in Workers : ShowsIn(v, i)'
            BY <1>0, <3>1, <3>2, <3>3, ShowsParts, OthersShow
        <3>5. items'[i].status \in SettledStatuses => seats'[SeatOf[i]].state = items'[i].status
            BY <1>5, <3>1, <3>2, ShowsParts DEF Tells
        <3> QED BY <2>0, <3>1, <3>4, <3>5 DEF Shows, ShowsIn
    <2> QED BY <2>5, <2>6
<1>6. CASE Saves(w)
    <2>1. PICK m :
            /\ Commit(m) /\ m.op = o
            /\ Working(w)' => mem'[w].items = m.items
            /\ \A i \in Items : Unsettling(mem[w].items[i], m.items[i])
        BY <1>6 DEF Saves
    <2>2. seats' = seats
        BY <1>6 DEF Saves
    <2>3. /\ \A i \in ItemsOf(o) : items'[i] = m.items[i]
          /\ \A p \in Ops : p # o =>
                row'[p] = row[p] /\ \A i \in ItemsOf(p) : items'[i] = items[i]
        BY <1>0, <2>1, Committed
    <2>4. CASE Touching(s) # {}
        <3>1. PICK i \in Touching(s) : Shows(i)
            BY <1>2, <2>4
        <3>2. i \in Items /\ i \in Touching(s)' /\ OpOf[i] \in Ops
            BY <1>1, ItemsAssumption DEF Touching
        <3>3. ShowsIn(w, i)'
            BY <1>0, <2>1, <2>2, <3>1, <3>2, ShowsParts DEF ShowsIn, Unsettling, CalmStep
        <3>4. \A v \in Workers : ShowsIn(v, i)'
            BY <1>0, <2>2, <3>1, <3>2, <3>3, ShowsParts, OthersShow
        <3>5. items'[i].status \in SettledStatuses => seats'[SeatOf[i]].state = items'[i].status
            <4>1. CASE OpOf[i] = o
                <5>1. items'[i] = m.items[i] /\ Unsettling(mem[w].items[i], m.items[i])
                    BY <2>1, <2>3, <3>2, <4>1 DEF ItemsOf
                <5>2. ShowsIn(w, i)
                    BY <3>1, ShowsParts
                <5> QED BY <1>0, <2>2, <4>1, <5>1, <5>2 DEF ShowsIn, Unsettling
            <4>2. CASE OpOf[i] # o
                BY <2>2, <2>3, <3>1, <3>2, <4>2, ShowsParts DEF ItemsOf
            <4> QED BY <4>1, <4>2
        <3> QED BY <3>2, <3>4, <3>5 DEF Shows, ShowsIn
    <2>5. CASE Touching(s) = {}
        <3>1. PICK i \in Touching(s)' : TRUE
            OBVIOUS
        <3>2. /\ i \in Items /\ OpOf[i] \in Ops
              /\ row[OpOf[i]].status = "QUEUED" /\ row'[OpOf[i]].status # "QUEUED"
            BY <2>5, <3>1, ItemsAssumption DEF Touching
        <3>3. OpOf[i] = o /\ i \in ItemsOf(o)
            BY <2>3, <3>2 DEF ItemsOf
        <3>4. mem[w].items[i].status = "QUEUED"
            BY <1>0, <3>2, <3>3, NotBegun
        <3>5. m.items[i].status \notin SettledStatuses
            BY <2>1, <3>2, <3>4 DEF Unsettling, SettledStatuses
        <3>6. \A v \in Workers : ShowsIn(v, i)'
            BY <1>3, <2>1, <3>3, <3>5 DEF ShowsIn
        <3>7. items'[i].status \notin SettledStatuses
            BY <2>3, <3>3, <3>5
        <3> QED BY <3>6, <3>7 DEF Shows, ShowsIn
    <2> QED BY <2>4, <2>5
<1> QED BY <1>4, <1>5, <1>6 DEF CalmStep

LEMMA AsideShows ==
    ASSUME TypeOK, Aside, UNCHANGED <<row, items, seats>>, NEW i \in Items, Shows(i)
    PROVE  Shows(i)'
<1>0. items[i].status \in SettledStatuses => seats[SeatOf[i]].state = items[i].status
    BY ShowsParts
<1>1. ASSUME NEW v \in Workers PROVE ShowsIn(v, i)'
    <2>1. ShowsIn(v, i)
        BY ShowsParts
    <2>2. CASE mem'[v] = mem[v] /\ ctl'[v] = ctl[v]
        BY <2>1, <2>2 DEF ShowsIn, Working
    <2>3. CASE LoadRow(v)
        <3>1. mem'[v].items = mem[v].items /\ mem'[v].op = mem[v].op /\ Working(v)
            BY <2>3 DEF LoadRow, TypeOK, MemoryRecords, Working
        <3> QED BY <2>1, <3>1 DEF ShowsIn
    <2>4. CASE LoadItems(v)
        <3>1. mem'[v].op = OpOf[i] => mem'[v].items[i] = items[i]
            BY <2>4 DEF LoadItems, TypeOK, MemoryRecords
        <3> QED BY <1>0, <3>1 DEF ShowsIn
    <2>5. CASE Stop(v)
        <3>1. ~Working(v)'
            BY <2>5, ControlTypes DEF Stop, Working, TypeOK, Labels
        <3> QED BY <3>1 DEF ShowsIn
    <2>6. ASSUME NEW o \in Ops, Claim(v, o) PROVE ShowsIn(v, i)'
        <3>1. mem'[v].items = NoMemory.items
            BY <2>6, ControlTypes DEF Claim, TypeOK, MemoryRecords
        <3>2. mem'[v].items[i].status = "QUEUED"
            BY <3>1 DEF NoMemory, NewItem
        <3> QED BY <3>2 DEF ShowsIn, SettledStatuses
    <2>7. ASSUME NEW w \in Workers, v # w,
                 LoadRow(w) \/ LoadItems(w) \/ Stop(w) \/ \E o \in Ops : Claim(w, o)
          PROVE  mem'[v] = mem[v] /\ ctl'[v] = ctl[v]
        BY <2>7 DEF LoadRow, LoadItems, Stop, Claim, TypeOK
    <2> QED BY <2>2, <2>3, <2>4, <2>5, <2>6, <2>7 DEF Aside
<1> QED BY <1>0, <1>1 DEF Shows, ShowsIn

LEMMA SeatNext ==
    ASSUME RecordInv, AloneInv, CalmInv, SeatInv, [Next]_vars
    PROVE  SeatInv'
<1> SUFFICES ASSUME Calm', NEW s \in Seats, Touching(s)' # {}
             PROVE  \E i \in Touching(s)' : Shows(i)'
    BY DEF SeatInv, Calm
<1>0. TypeOK /\ Calm /\ KeepsPromise
    BY CalmNext, NextRecords DEF RecordInv, CopyInv
<1>1. CASE \E w \in Workers : Execute(w) /\ OwnStep(w) /\ CalmStep(w)
    BY <1>0, <1>1, ExecuteShows
<1>2. CASE Aside /\ UNCHANGED <<row, items, seats>>
    <2>1. Touching(s)' = Touching(s)
        BY <1>2 DEF Touching
    <2>2. PICK i \in Touching(s) : Shows(i)
        BY <1>0, <2>1 DEF SeatInv, Calm
    <2>3. Shows(i)'
        BY <1>0, <1>2, <2>2, AsideShows DEF Touching
    <2> QED BY <2>1, <2>3
<1> QED BY <1>1, <1>2, CalmNext

\* The seats show the results of the finished operations, whatever workers stop or
\* take over, as long as no repository call fails (runner.go, where every result is
\* given to ApplyOperationItemResult before it is saved).
THEOREM SeatsShowResults == Spec => [](faults = 0 => SeatShowsResult)
<1>1. Init => SeatInv
    <2> SUFFICES ASSUME Init PROVE \A s \in Seats : Touching(s) = {}
        BY DEF SeatInv
    <2>1. \A o \in Ops : row[o].status = "QUEUED"
        BY DEF Init
    <2> QED BY <2>1, ItemsAssumption DEF Touching
<1>2. RecordInv /\ AloneInv /\ CalmInv /\ SeatInv /\ [Next]_vars => SeatInv'
    BY SeatNext
<1>3. ASSUME RecordInv, SeatInv, faults = 0 PROVE SeatShowsResult
    <2> SUFFICES ASSUME stalls = 0, NEW s \in Seats, Touching(s) # {},
                        \A i \in Touching(s) : Terminal(row[OpOf[i]].status)
                 PROVE  \E i \in Touching(s) : seats[s].state = items[i].status
        BY DEF SeatShowsResult
    <2>1. PICK i \in Touching(s) : Shows(i)
        BY <1>3 DEF SeatInv
    <2>2. i \in Items /\ SeatOf[i] = s /\ OpOf[i] \in Ops /\ i \in ItemsOf(OpOf[i])
        BY ItemsAssumption DEF Touching, ItemsOf
    <2>3. items[i].status \in SettledStatuses
        BY <1>3, <2>2 DEF RecordInv, StoredSound, Sound, DoneStatuses, Terminal
    <2> QED BY <2>1, <2>2, <2>3, ShowsParts
<1> QED BY <1>1, <1>2, <1>3, RecordInvariance, Aloneness, Calmness, PTL DEF Spec

-----------------------------------------------------------------------------
(* No task is lost sight of.                                                 *)

\* The record of a request is final.
LEMMA ItemKept ==
    ASSUME TypeOK, KeepsPromise, NEW i \in Items, NEW r \in Nat \ {0}, Keeps(i, r)
    PROVE  Keeps(i, r)'
<1>1. CASE UNCHANGED <<Statuses, items>>
    BY <1>1 DEF Keeps
<1>2. ASSUME NEW p \in Ops, Promise!Advance(p)
      PROVE  Keeps(i, r)'
    <2>1. items'[i] = items[i] \/ Promise!Forward(items[i], items'[i])
        BY <1>2 DEF Promise!Advance
    <2> QED BY <2>1 DEF Keeps, Promise!Forward, LostItem, NoUPID
<1> QED BY <1>1, <1>2 DEF KeepsPromise

\* Requests are not forgotten, and a refusal is final.
LEMMA LiveWas ==
    ASSUME TypeOK, [Next]_vars, NEW r \in DOMAIN pve
    PROVE  /\ r \in DOMAIN pve' /\ pve'[r].item = pve[r].item
           /\ r \in Live' => r \in Live
<1>1. Grows(pve, pve')
    BY PveGrows
<1>2. CASE pve' = pve
    BY <1>2 DEF Live
<1>3. ASSUME NEW w \in Workers, Send(w), r \in Live' PROVE r \in Live
    <2>1. PICK i \in ctl[w].todo : pve' = Append(pve, [item |-> i, state |-> "sent"])
        BY <1>3 DEF Send
    <2>2. pve'[r] = pve[r]
        BY <2>1 DEF TypeOK
    <2> QED BY <1>3, <2>2 DEF Live
<1>4. ASSUME NEW q \in DOMAIN pve, PveAnswers(q), r \in Live' PROVE r \in Live
    <2>1. /\ pve[q].state \in {"sent", "running"}
          /\ \E to : pve' = [pve EXCEPT ![q].state = to]
        BY <1>4 DEF PveAnswers
    <2>2. r = q \/ pve'[r] = pve[r]
        BY <2>1 DEF TypeOK
    <2> QED BY <1>4, <2>1, <2>2 DEF Live
<1> QED BY <1>1, <1>2, <1>3, <1>4, PveSteps DEF Grows

\* A worker that awaits an answer could save.
LEMMA AwaitsFacts ==
    ASSUME RecordInv, AloneInv, stalls = 0, NEW w \in Workers, NEW i \in Items, NEW r,
           Awaits(w, i, r)
    PROVE  /\ TypeOK /\ mem[w] \in MemoryRecords /\ ctl[w] \in ControlRecords
           /\ mem[w].op \in Ops /\ i \in ItemsOf(mem[w].op) /\ Working(w)
           /\ Current(mem[w])
           /\ ctl[w].at \in {"reply", "saveSubmit", "fail"}
           /\ ctl[w].at = "reply" => mem[w].items[i].upid = NoUPID
<1>1. TypeOK /\ mem[w] \in MemoryRecords /\ ctl[w] \in ControlRecords /\ mem[w].op \in Ops
    BY DEF RecordInv, CopyInv, TypeOK, Awaits
<1>2. Working(w) /\ i \in ItemsOf(mem[w].op) /\ ctl[w].at \in {"reply", "saveSubmit", "fail"}
    BY DEF Awaits, ItemsOf
<1>3. Current(mem[w])
    BY <1>2 DEF Awaits, AloneInv, Relieved, Attended, Fresh
<1>4. ctl[w].at = "reply" => mem[w].items[i].upid = NoUPID
    BY DEF Awaits, RecordInv, CopyInv, SubmitsWithoutUpid
<1> QED BY <1>1, <1>2, <1>3, <1>4

\* A copy with the request is saved, or its worker goes to fail with it.
LEMMA SaveKept ==
    ASSUME TypeOK, NEW w \in Workers, NEW k \in MemoryRecords, k.op \in Ops, Current(k),
           NEW i \in ItemsOf(k.op), NEW r, k.items[i].upid = r \/ k.items[i] = LostItem,
           NEW n, Save(w, k, n)
    PROVE  Keeps(i, r)' \/ Awaits(w, i, r)'
<1>1. CASE Commit(k)
    BY <1>1, Committed DEF Keeps
<1>2. CASE /\ Fault /\ UNCHANGED row
           /\ mem' = [mem EXCEPT ![w] = k] /\ ctl' = [ctl EXCEPT ![w] = Failing]
    <2>1. mem'[w] = k /\ ctl'[w] = Failing /\ faults' > 0
        BY <1>2 DEF TypeOK, Fault
    <2>2. Current(mem[w])'
        BY <1>2, <2>1 DEF Current
    <2> QED BY <2>1, <2>2, ControlTypes DEF Awaits, Working, ItemsOf
<1> QED BY <1>1, <1>2 DEF Save

LEMMA AwaitsNext ==
    ASSUME RecordInv, AloneInv, [Next]_vars, KeepsPromise, ~Unlucky, ~Unlucky',
           NEW r \in Live, r \in Live', NEW i \in Items, i = pve[r].item,
           NEW w \in Workers, Awaits(w, i, r)
    PROVE  Keeps(i, r)' \/ Awaits(w, i, r)'
<1> DEFINE m == mem[w]
           c == ctl[w]
<1>0. /\ TypeOK /\ stalls = 0 /\ i \in Items /\ r \in DOMAIN pve /\ r \in Nat \ {0}
      /\ faults' \in {faults, faults + 1} /\ faults \in Nat /\ faults' <= 1
    <2>1. TypeOK
        BY DEF RecordInv, CopyInv
    <2>2. r \in DOMAIN pve /\ stalls = 0
        BY <2>1 DEF Live, Unlucky, TypeOK
    <2>3. faults' \in {faults, faults + 1}
        BY <2>1, BudgetsGrow
    <2> QED BY <2>1, <2>2, <2>3 DEF TypeOK, Unlucky
<1>1. /\ m \in MemoryRecords /\ c \in ControlRecords /\ m.op \in Ops
      /\ i \in ItemsOf(m.op) /\ Working(w) /\ Current(m)
      /\ c.at \in {"reply", "saveSubmit", "fail"} /\ OpOf[i] = m.op
      /\ c.at = "reply" => m.items[i].upid = NoUPID
    BY <1>0, AwaitsFacts DEF ItemsOf
<1>2. CASE mem'[w] = m /\ ctl'[w] = c /\ row'[m.op] = row[m.op]
    <2>1. Current(m)'
        BY <1>1, <1>2 DEF Current
    <2> QED BY <1>0, <1>1, <1>2, <2>1 DEF Awaits, Working
<1>3. ASSUME NEW v \in Workers, v # w, Step(v) \/ Poll(v) \/ Stop(v)
      PROVE  mem'[w] = m /\ ctl'[w] = c /\ row'[m.op] = row[m.op]
    <2>1. mem'[w] = m /\ ctl'[w] = c
        BY <1>0, <1>3, OthersStay
    <2>2. CASE Execute(v) \/ LoadRow(v) \/ LoadItems(v) \/ LoadFails(v) \/ Fail(v)
        <3>1. OwnStep(v)
            BY <1>0, <2>2, ExecuteOwn, AroundOwn
        <3>2. mem[v].op # m.op
            BY <1>0, <1>1, <1>3, <3>1 DEF OwnStep, AloneInv
        <3> QED BY <1>1, <2>1, <3>1, <3>2 DEF OwnStep
    <2>3. CASE (\E o \in Ops : Claim(v, o)) \/ Poll(v) \/ Stop(v)
        BY <2>1, <2>3 DEF Claim, Poll, Stop, vars, stored
    <2> QED BY <1>3, <2>1, <2>2, <2>3 DEF Step
<1>4. CASE Execute(w)
    <2>1. Accepted(w) \/ NotAccepted(w) \/ SaveSubmit(w)
        BY <1>1, <1>4 DEF Execute, Begin, Validate, Check, StartRunning, StartWave, Mark,
             SaveWave, Track, RenewForSubmit, Send, StartWaiting, TaskEnded, Result,
             Heartbeat, WaitFails, Unresolved, SaveResult, EndWave, Verify, Finish
    <2>2. c.at \in {"reply", "saveSubmit"} /\ IsFirst(i, c.todo)
        BY <2>1 DEF Accepted, NotAccepted, SaveSubmit, Awaits
    <2>3. \A j \in c.todo : IsFirst(j, c.todo) => j = i
        BY <1>0, <1>1, <2>2, OneFirst DEF IsFirst, ControlRecords
    <2>4. CASE Accepted(w)
        <3>1. c.call = r /\ c.at = "reply"
            BY <1>1, <2>4 DEF Accepted, Awaits
        <3> DEFINE record == [status |-> "WAITING_PVE", upid |-> r]
                   k == [m EXCEPT !.items[i] = record]
        <3>2. \E n : Save(w, k, n)
            BY <2>3, <2>4, <3>1 DEF Accepted
        <3>3. record \in ItemRecords /\ record.upid = r
            BY <1>0 DEF ItemRecords, ItemStatuses
        <3> HIDE DEF record
        <3>4. /\ k \in MemoryRecords /\ k.op = m.op /\ k.version = m.version
              /\ k.items[i] = record
            BY <1>0, <1>1, <3>3, ItemReplaced
        <3> HIDE DEF k
        <3>5. Current(k)
            BY <1>1, <3>4 DEF Current
        <3> QED BY <1>0, <1>1, <3>2, <3>3, <3>4, <3>5, SaveKept
    <2>5. CASE NotAccepted(w)
        <3>1. c.call = r /\ c.at = "reply" /\ pve' = pve
            <4>1. \E j, status, n : Apply(w, j, status, n)
                BY <2>5 DEF NotAccepted
            <4> QED BY <1>1, <2>5, <4>1 DEF NotAccepted, Awaits, Apply
        <3>2. pve[r].state # "refused"
            BY DEF Live
        <3> DEFINE n == [c EXCEPT !.at = "saveSubmit", !.call = 0]
                   k == WithItem(m, i, "UNKNOWN")
        <3>3. Apply(w, i, "UNKNOWN", n)
            BY <2>3, <2>5, <3>1, <3>2 DEF NotAccepted
        <3>4. n.at = "saveSubmit" /\ n.todo = c.todo
            BY <1>1 DEF ControlRecords
        <3>5. /\ k \in MemoryRecords /\ k.op = m.op /\ k.version = m.version
              /\ k.items[i] = [status |-> "UNKNOWN", upid |-> m.items[i].upid]
              /\ k.status = m.status
              /\ \A j \in Items : j # i => k.items[j] = m.items[j]
            BY <1>0, <1>1, OneItem DEF ItemStatuses
        <3>6. mem' = [mem EXCEPT ![w] = k] /\ row' = row
            BY <1>0, <3>3 DEF Apply, TypeOK
        <3>7. \/ ctl' = [ctl EXCEPT ![w] = n]
              \/ ctl' = [ctl EXCEPT ![w] = Failing] /\ faults' = faults + 1
            BY <3>3 DEF Apply, Fault
        <3> HIDE DEF n, k
        <3>8. k.items[i] = LostItem
            BY <1>1, <3>1, <3>5 DEF LostItem
        <3>9. mem'[w] = k /\ (ctl'[w] = n \/ (ctl'[w] = Failing /\ faults' = faults + 1))
            BY <1>0, <3>6, <3>7 DEF TypeOK
        <3>10. Current(mem[w])'
            BY <1>1, <3>5, <3>6, <3>9 DEF Current
        <3> QED BY <1>0, <1>1, <2>2, <3>4, <3>5, <3>8, <3>9, <3>10, ControlTypes
                DEF Awaits, Working
    <2>6. CASE SaveSubmit(w)
        <3>1. c.at = "saveSubmit" /\ m.items[i] = LostItem
            BY <1>1, <2>6 DEF SaveSubmit, Awaits
        <3>2. \E n : Save(w, m, n)
            BY <2>6 DEF SaveSubmit
        <3> QED BY <1>0, <1>1, <3>1, <3>2, SaveKept
    <2> QED BY <2>1, <2>4, <2>5, <2>6
<1>5. CASE Fail(w)
    <2> DEFINE k == FailedMemory(m)
    <2>1. faults > 0 /\ (m.items[i].upid = r \/ m.items[i] = LostItem)
        BY <1>5 DEF Fail, Awaits
    <2>2. k.op = m.op /\ k.version = m.version
        BY <1>1 DEF FailedMemory, MemoryRecords
    <2>3. k.items[i].upid = r \/ k.items[i] = LostItem
        <3>1. k.items = [j \in Items |-> IF m.items[j].status \in OpenStatuses
                                         THEN [m.items[j] EXCEPT !.status = "UNKNOWN"]
                                         ELSE m.items[j]]
            BY <1>1 DEF FailedMemory, MemoryRecords
        <3>2. m.items[i] \in ItemRecords
            BY <1>0, <1>1 DEF MemoryRecords
        <3> QED BY <1>0, <2>1, <3>1, <3>2 DEF LostItem, ItemRecords, OpenStatuses
    <2>4. Current(k) /\ ~Fault
        BY <1>0, <1>1, <2>1, <2>2 DEF Current, Fault
    <2>5. Commit(k)
        BY <1>5, <2>4 DEF Fail
    <2> HIDE DEF k
    <2> QED BY <1>0, <1>1, <2>2, <2>3, <2>5, Committed DEF Keeps
<1>6. CASE \/ \E o \in Ops : LeaseLapses(o) \/ LeaseExpires(o)
           \/ \E q \in DOMAIN pve : PveAnswers(q)
           \/ Poll(w) \/ UNCHANGED vars
    BY <1>2, <1>6 DEF LeaseLapses, LeaseExpires, PveAnswers, Poll, vars, stored
<1>7. CASE Stop(w)
    BY <1>0, <1>7 DEF Stop, Unlucky, TypeOK, RecordInv
<1>8. ~((\E o \in Ops : Claim(w, o)) \/ LoadRow(w) \/ LoadItems(w) \/ LoadFails(w))
    BY <1>1 DEF Claim, LoadRow, LoadItems, LoadFails
<1> QED BY <1>2, <1>3, <1>4, <1>5, <1>6, <1>7, <1>8 DEF Next, Step

\* A worker that is about to submit an item has not lost an earlier request of it.
LEMMA SentOnce ==
    ASSUME RecordInv, AloneInv, KeptInv, ~Unlucky, NEW w \in Workers, NEW i \in ctl[w].todo,
           IsFirst(i, ctl[w].todo), Send(w), pve' = Append(pve, [item |-> i, state |-> "sent"])
    PROVE  \A r \in Live : pve[r].item # i
<1>0. /\ TypeOK /\ stalls = 0 /\ ctl[w] \in ControlRecords /\ i \in Items /\ ctl[w].at = "send"
      /\ pve \in Seq(RequestRecords) /\ stops \in Nat /\ stalls \in Nat /\ faults \in Nat
    BY DEF RecordInv, CopyInv, TypeOK, ControlRecords, Send, Unlucky
<1>1. items[i] = [status |-> "RUNNING", upid |-> NoUPID]
    <2>1. pve'[Len(pve')].item = i
        BY <1>0
    <2> QED BY <1>0, <2>1, SubmitsMarked
<1>2. Working(w) /\ mem[w].op = OpOf[i]
    <2>1. Loaded(w) /\ Current(mem[w])
        BY <1>0 DEF Loaded, Working, AloneInv, Relieved, Attended, Fresh
    <2>2. CopyFits(pve, row[mem[w].op].status, items, mem[w], ctl[w])
        BY <2>1 DEF RecordInv, CopiesFit
    <2>3. SetsFit(mem[w], ctl[w])
        BY <1>0, <2>2, WaveFacts DEF InWave, InSubmit
    <2> QED BY <1>0, <2>1, <2>3 DEF SetsFit, InWave, InSubmit, ItemsOf, Loaded
<1> SUFFICES ASSUME NEW r \in Live, pve[r].item = i PROVE FALSE
    OBVIOUS
<1>3. r # NoUPID
    BY <1>0 DEF Live, NoUPID
<1>4. PICK v \in Workers : Awaits(v, i, r)
    BY <1>0, <1>1, <1>3 DEF KeptInv, Held, Keeps, LostItem
<1>5. v = w
    BY <1>0, <1>2, <1>4 DEF Awaits, AloneInv
<1> QED BY <1>0, <1>4, <1>5 DEF Awaits

LEMMA KeptNext == RecordInv /\ AloneInv /\ KeptInv /\ [Next]_vars => KeptInv'
<1> SUFFICES ASSUME RecordInv, AloneInv, KeptInv, [Next]_vars, ~Unlucky'
             PROVE  Single' /\ Held'
    BY DEF KeptInv
<1>0. TypeOK /\ KeepsPromise /\ ~Unlucky
    <2>1. TypeOK /\ KeepsPromise
        BY NextRecords DEF RecordInv, CopyInv
    <2> QED BY <2>1, BudgetsGrow DEF Unlucky, TypeOK
<1>1. Single /\ Held
    BY <1>0 DEF KeptInv
<1>2. ASSUME NEW r \in Live', r \in DOMAIN pve, NEW i \in Items, pve'[r].item = i
      PROVE  /\ r \in Live /\ pve[r].item = i
             /\ Keeps(i, r)' \/ \E w \in Workers : Awaits(w, i, r)'
    <2>1. r \in Live /\ pve[r].item = i
        BY <1>0, <1>2, LiveWas
    <2>2. r \in Nat \ {0}
        BY <1>0, <1>2 DEF TypeOK
    <2>3. CASE Keeps(i, r)
        BY <1>0, <2>1, <2>2, <2>3, ItemKept
    <2>4. ASSUME NEW w \in Workers, Awaits(w, i, r)
          PROVE  Keeps(i, r)' \/ Awaits(w, i, r)'
        BY <1>0, <1>2, <2>1, <2>4, AwaitsNext
    <2> QED BY <1>1, <2>1, <2>3, <2>4 DEF Held
<1>3. ASSUME NEW r \in Live', r \in DOMAIN pve
      PROVE  r \in Live /\ pve'[r].item = pve[r].item
    BY <1>0, <1>3, LiveWas
<1>4. CASE DOMAIN pve' = DOMAIN pve
    <2>1. \A r \in Live' : r \in DOMAIN pve
        BY <1>4 DEF Live
    <2>2. Single'
        BY <1>1, <1>3, <2>1 DEF Single
    <2> QED BY <1>2, <2>1, <2>2 DEF Held
<1>5. ASSUME NEW w \in Workers, Send(w)
      PROVE  Single' /\ Held'
    <2>1. PICK i \in ctl[w].todo :
            IsFirst(i, ctl[w].todo) /\ pve' = Append(pve, [item |-> i, state |-> "sent"])
        BY <1>5 DEF Send
    <2>0. PICK new \in Nat : new = Len(pve) + 1
        BY <1>0 DEF TypeOK
    <2>2. DOMAIN pve' = DOMAIN pve \cup {new} /\ pve'[new].item = i /\ new \notin DOMAIN pve
        BY <1>0, <2>0, <2>1 DEF TypeOK
    <2>3. \A r \in Live : pve[r].item # i
        BY <1>0, <1>5, <2>1, SentOnce
    <2>4. Awaits(w, i, new)'
        <3>1. /\ Working(w) /\ Loaded(w) /\ ctl[w].at = "send" /\ mem' = mem
              /\ ctl'[w].at = "reply" /\ ctl'[w].call = new /\ ctl'[w].todo = ctl[w].todo
            BY <1>0, <1>5, <2>0 DEF Send, Loaded, Working, TypeOK, ControlRecords
        <3>2. Current(mem[w])
            <4>1. stalls = 0
                BY <1>0 DEF TypeOK, Unlucky
            <4> QED BY <3>1, <4>1 DEF AloneInv, Relieved, Attended, Fresh
        <3>3. SetsFit(mem[w], ctl[w])
            BY <3>1, <3>2, WaveFacts DEF RecordInv, CopiesFit, InWave, InSubmit
        <3>4. mem[w].op = OpOf[i]
            BY <2>1, <3>1, <3>3 DEF SetsFit, InWave, InSubmit, ItemsOf
        <3> QED BY <2>1, <3>1, <3>4 DEF Awaits, Working
    <2>5. \A r \in Live' : r = new \/ r \in DOMAIN pve
        BY <2>2 DEF Live
    <2>6. Single'
        BY <1>1, <1>3, <2>2, <2>3, <2>5 DEF Single
    <2>7. ASSUME NEW r \in Live', NEW j \in Items, pve'[r].item = j
          PROVE  Keeps(j, r)' \/ \E v \in Workers : Awaits(v, j, r)'
        <3>1. CASE r \in DOMAIN pve
            BY <1>2, <2>7, <3>1
        <3>2. CASE r = new
            BY <2>2, <2>4, <2>7, <3>2
        <3> QED BY <2>5, <3>1, <3>2
    <2> QED BY <2>6, <2>7 DEF Held
<1>6. CASE \E r \in DOMAIN pve : PveAnswers(r)
    <2>1. PICK r \in DOMAIN pve : \E state : pve' = [pve EXCEPT ![r].state = state]
        BY <1>6 DEF PveAnswers
    <2> QED BY <1>0, <1>4, <2>1 DEF TypeOK
<1> QED BY <1>0, <1>4, <1>5, <1>6, PveSteps

\* While no process stops or stalls and at most one repository call fails, every request
\* PVE may have taken is stored, stored as lost, or in its sender's hand, and it is the
\* only one of its item (runner.go 245-262, the save right after Submit).
THEOREM TasksAreKept == Spec => []KeptInv
<1>1. Init => KeptInv
    BY DEF Init, KeptInv, Single, Held, Live
<1> QED BY <1>1, KeptNext, RecordInvariance, Aloneness, PTL DEF Spec

LEMMA NothingSilent == RecordInv /\ AloneInv /\ KeptInv => NoSilentTask
<1> SUFFICES ASSUME RecordInv, AloneInv, KeptInv, stops = 0, stalls = 0, faults <= 1,
                    NEW o \in Ops, Terminal(row[o].status), NEW i \in ItemsOf(o),
                    NEW r \in Taken(i), items[i].upid # r
             PROVE  items[i].status = "UNKNOWN"
    BY DEF NoSilentTask
<1>0. /\ TypeOK /\ ~Unlucky /\ r \in Live /\ pve[r].item = i /\ i \in Items
    BY DEF RecordInv, CopyInv, TypeOK, Unlucky, Taken, Live, ItemsOf
<1>1. CASE items[i] = LostItem
    BY <1>1 DEF LostItem
<1>2. ASSUME NEW w \in Workers, Awaits(w, i, r)
      PROVE  items[i].status = "UNKNOWN"
    <2>1. /\ mem[w].op \in Ops /\ i \in ItemsOf(mem[w].op) /\ Working(w) /\ Current(mem[w])
          /\ ctl[w].at \in {"reply", "saveSubmit", "fail"}
        BY <1>0, <1>2, AwaitsFacts
    <2>2. mem[w].op = o
        BY <2>1 DEF ItemsOf
    <2>3. ~Attended(w)
        BY <2>1, <2>2, AttendedIsOpen
    <2>4. ctl[w].at = "fail" /\ Loaded(w)
        BY <2>1, <2>3 DEF AloneInv, Relieved, Loaded
    <2>5. MaySave(pve, row[o].status, items, mem[w])
        BY <2>1, <2>2, <2>4 DEF RecordInv, CopiesFit, CopyFits
    <2>6. mem[w].items[i] = items[i]
        BY <2>2, <2>5 DEF MaySave
    <2>7. mem[w].items[i].upid = r \/ mem[w].items[i] = LostItem
        BY <1>2, <2>4 DEF Awaits
    <2> QED BY <2>6, <2>7 DEF LostItem
<1> QED BY <1>0, <1>1, <1>2 DEF KeptInv, Held, Keeps

\* No task PVE took for a finished operation is unknown to its record, unless the item
\* honestly says so (runner.go 245-262 and fail).
THEOREM NothingSilentlyRuns == Spec => []NoSilentTask
BY TasksAreKept, NothingSilent, RecordInvariance, Aloneness, PTL


-----------------------------------------------------------------------------
(* No more tasks are running than a wave has items.                          *)

\* A wave is not larger than its size: an item is in it if fewer than WaveSize pending
\* items are before it, and no two items have the same number of items before them.
LEMMA NextWaveSmall ==
    ASSUME NEW S \in SUBSET Items
    PROVE  IsFiniteSet(NextWave(S)) /\ Cardinality(NextWave(S)) <= WaveSize
<1> DEFINE Before(i) == {j \in S : j < i}
           f == [i \in NextWave(S) |-> Cardinality(Before(i))]
<1>0. IsFiniteSet(S) /\ S \subseteq Nat
    BY ItemsAssumption, FS_Subset
<1>1. \A i \in S : IsFiniteSet(Before(i)) /\ Cardinality(Before(i)) \in Nat
    <2> TAKE i \in S
    <2>1. Before(i) \in SUBSET S
        OBVIOUS
    <2>2. IsFiniteSet(Before(i))
        BY <1>0, <2>1, FS_Subset
    <2> QED BY <2>2, FS_CardinalityType
<1>2. ASSUME NEW i \in S, NEW k \in S, i < k
      PROVE  Cardinality(Before(i)) # Cardinality(Before(k))
    <2>0. i \in Nat /\ k \in Nat /\ \A j \in S : j \in Nat
        BY <1>0
    <2>1. Before(i) \subseteq Before(k)
        <3> SUFFICES ASSUME NEW j \in S, j < i PROVE j < k
            OBVIOUS
        <3> QED BY <1>2, <2>0
    <2>3. i \in Before(k) /\ i \notin Before(i)
        BY <1>2, <2>0
    <2>2. IsFiniteSet(Before(k)) /\ Before(i) \in SUBSET Before(k) /\ Before(i) # Before(k)
        BY <1>1, <2>1, <2>3
    <2> HIDE DEF Before
    <2> QED BY <2>2, FS_Subset
<1>3. f \in [NextWave(S) -> 0..(WaveSize - 1)]
    BY <1>1, BoundsAssumption DEF NextWave
<1>4. ASSUME NEW i \in NextWave(S), NEW k \in NextWave(S), f[i] = f[k]
      PROVE  i = k
    <2>1. i \in S /\ k \in S /\ Cardinality(Before(i)) = Cardinality(Before(k))
        BY <1>4 DEF NextWave
    <2> HIDE DEF Before
    <2>2. ~(i < k) /\ ~(k < i)
        BY <1>2, <2>1
    <2> QED BY <1>0, <2>1, <2>2
<1>5. DOMAIN f = NextWave(S)
    OBVIOUS
<1> HIDE DEF f
<1>6. f \in Injection(NextWave(S), 0..(WaveSize - 1))
    BY <1>3, <1>4, <1>5 DEF Injection, IsInjective
<1>7. IsFiniteSet(0..(WaveSize - 1)) /\ Cardinality(0..(WaveSize - 1)) = WaveSize
    BY FS_Interval, BoundsAssumption
<1> QED BY <1>6, <1>7, FS_Injection

\* Where a worker is after a call that did not fail, and with what.
LEMMA SaveGoes ==
    ASSUME TypeOK, NEW w \in Workers, NEW m, IsCopy(m), NEW next,
           Save(w, m, next), ctl'[w].at # "fail"
    PROVE  ctl'[w] = next /\ (next # Idle => mem'[w].items = m.items)
<1>1. /\ mem' = [mem EXCEPT ![w] = IF next = Idle THEN NoMemory
                                   ELSE [m EXCEPT !.version = m.version + 1]]
      /\ ctl' = [ctl EXCEPT ![w] = next]
    BY ControlTypes DEF Save, TypeOK
<1>2. ctl'[w] = next /\ (next # Idle => mem'[w] = [m EXCEPT !.version = m.version + 1])
    BY <1>1 DEF TypeOK
<1> QED BY <1>2 DEF IsCopy

LEMMA SaveAsGoes ==
    ASSUME TypeOK, NEW w \in Workers, NEW status, NEW next,
           SaveAs(w, status, mem[w], next), ctl'[w].at # "fail"
    PROVE  ctl'[w] = next /\ (next # Idle => mem'[w].items = mem[w].items)
<1> DEFINE m == [mem[w] EXCEPT !.status = status]
<1>0. mem[w] \in MemoryRecords
    BY DEF TypeOK
<1>1. IsCopy(m) /\ m.items = mem[w].items
    BY <1>0 DEF IsCopy, MemoryRecords
<1>2. Save(w, m, next)
    BY ControlTypes DEF SaveAs, TypeOK
<1> HIDE DEF m
<1> QED BY <1>1, <1>2, SaveGoes

LEMMA RenewGoes ==
    ASSUME TypeOK, NEW w \in Workers, NEW next, Renew(w, next), ctl'[w].at # "fail"
    PROVE  ctl'[w] = next /\ UNCHANGED <<mem, items>>
BY ControlTypes DEF Renew, TypeOK

LEMMA ApplyGoes ==
    ASSUME TypeOK, NEW w \in Workers, NEW i \in Items, NEW status \in ItemStatuses, NEW next,
           Apply(w, i, status, next), ctl'[w].at # "fail"
    PROVE  /\ ctl'[w] = next
           /\ \A j \in Items : j # i => mem'[w].items[j] = mem[w].items[j]
<1> DEFINE k == WithItem(mem[w], i, status)
<1>1. \A j \in Items : j # i => k.items[j] = mem[w].items[j]
    BY OneItem DEF TypeOK
<1>2. mem'[w] = k /\ ctl'[w] = next
    BY ControlTypes DEF Apply, TypeOK
<1> HIDE DEF k
<1> QED BY <1>1, <1>2


\* A step of execute stays in its wave, ends it, begins one, or is outside any; ...
Places(w) ==
    \/ ctl[w].at \in InWave /\ ctl'[w].at \in InWave /\ ctl'[w].wave = ctl[w].wave
    \/ EndWave(w)
    \/ /\ ctl[w].at \in {"begin", "wave"} /\ UNCHANGED items
       /\ ctl'[w].at \in InWave => ctl'[w].wave = NextWave(ctl[w].rest)
    \/ ctl[w].at \notin InWave /\ ctl'[w].at = "check"
    \/ ctl[w].at = "check" /\ ctl[w].todo = {} /\ ctl'[w].at = "wave"
    \/ ctl'[w].at = "finish" \/ Finish(w)

\* ... and it touches no other item of the copy than its loop is at.
TouchesTodo(w) ==
    Working(w)' => \A i \in Items \ ctl[w].todo : mem'[w].items[i] = mem[w].items[i]

LEMMA ExecutePlaces ==
    ASSUME TypeOK, NEW w \in Workers, Execute(w), ctl'[w].at # "fail"
    PROVE  Places(w) /\ TouchesTodo(w)
<1> DEFINE m == mem[w]
           c == ctl[w]
<1>0. m \in MemoryRecords /\ c \in ControlRecords
    BY DEF TypeOK
<1>1. ASSUME mem' = mem \/ mem'[w].items = m.items
      PROVE  TouchesTodo(w)
    BY <1>1 DEF TouchesTodo
<1>2. ASSUME NEW next, NEW status, SaveAs(w, status, m, next)
      PROVE  ctl'[w] = next /\ TouchesTodo(w)
    <2>1. ctl'[w] = next /\ (next # Idle => mem'[w].items = m.items)
        BY <1>2, SaveAsGoes
    <2>2. next = Idle => ~Working(w)'
        BY <2>1, ControlTypes DEF Working
    <2> QED BY <1>1, <2>1, <2>2 DEF TouchesTodo
<1>3. ASSUME NEW i \in c.todo, NEW status \in ItemStatuses, NEW next, Apply(w, i, status, next)
      PROVE  ctl'[w] = next /\ TouchesTodo(w)
    <2>1. i \in Items
        BY <1>0 DEF ControlRecords
    <2> QED BY <1>3, <2>1, ApplyGoes DEF TouchesTodo
<1>4. ASSUME NEW k \in MemoryRecords, NEW i \in c.todo, NEW next,
             \A j \in Items : j # i => k.items[j] = m.items[j],
             Save(w, k, next)
      PROVE  ctl'[w] = next /\ TouchesTodo(w)
    <2>1. IsCopy(k)
        BY DEF IsCopy, MemoryRecords
    <2>2. ctl'[w] = next /\ (next # Idle => mem'[w].items = k.items)
        BY <1>4, <2>1, SaveGoes
    <2>3. next = Idle => ~Working(w)'
        BY <2>2, ControlTypes DEF Working
    <2> QED BY <1>4, <2>2, <2>3 DEF TouchesTodo
<1>5. CASE Begin(w)
    <2>1. ctl'[w] = Resume(m) /\ UNCHANGED <<mem, items>>
        BY <1>5, RenewGoes DEF Begin
    <2>2. Resume(m).at \notin InWave
        BY DEF Resume, At, InWave, InSubmit, InWait
    <2> QED BY <1>1, <1>5, <2>1, <2>2 DEF Begin, Places
<1>6. CASE StartWave(w)
    <2> DEFINE wave == NextWave(c.rest)
               next == [c EXCEPT
                    !.at = "mark", !.wave = wave, !.rest = @ \ wave,
                    !.todo = {i \in wave : mem[w].items[i].status \in {"QUEUED", "RUNNING"}}]
    <2>1. Renew(w, next) /\ c.at = "wave"
        BY <1>6 DEF StartWave
    <2>2. next.wave = wave
        BY <1>0 DEF ControlRecords
    <2> HIDE DEF next
    <2>3. ctl'[w] = next /\ UNCHANGED <<mem, items>>
        BY <2>1, RenewGoes
    <2> QED BY <1>1, <2>1, <2>2, <2>3 DEF Places
<1>7. CASE RenewForSubmit(w)
    <2>1. ctl'[w] = [c EXCEPT !.at = "send"] /\ UNCHANGED mem /\ c.at = "submit"
        BY <1>7, RenewGoes DEF RenewForSubmit
    <2>2. ctl'[w].at = "send" /\ ctl'[w].wave = c.wave
        BY <1>0, <2>1 DEF ControlRecords
    <2> QED BY <1>1, <2>1, <2>2 DEF Places, InWave, InSubmit
<1>8. CASE Validate(w)
    <2>1. ctl'[w].at = "check" /\ TouchesTodo(w)
        BY <1>2, <1>8 DEF Validate, At
    <2> QED BY <1>8, <2>1 DEF Validate, Places, InWave, InSubmit, InWait
<1>9. CASE StartRunning(w)
    <2>1. ctl'[w].at = "wave" /\ TouchesTodo(w)
        BY <1>2, <1>9 DEF StartRunning, At
    <2> QED BY <1>9, <2>1 DEF StartRunning, Places
<1>10. CASE SaveWave(w)
    <2>1. ctl'[w] = [c EXCEPT !.at = "submit", !.todo = c.wave] /\ TouchesTodo(w)
        BY <1>2, <1>10 DEF SaveWave
    <2>2. ctl'[w].at = "submit" /\ ctl'[w].wave = c.wave
        BY <1>0, <2>1 DEF ControlRecords
    <2> QED BY <1>10, <2>1, <2>2 DEF SaveWave, Places, InWave, InSubmit
<1>11. CASE StartWaiting(w)
    <2>1. PICK S : ctl'[w] = [c EXCEPT !.at = "wait", !.todo = S]
        BY <1>2, <1>11 DEF StartWaiting
    <2>2. ctl'[w].at = "wait" /\ ctl'[w].wave = c.wave
        BY <1>0, <2>1 DEF ControlRecords
    <2>3. TouchesTodo(w)
        BY <1>2, <1>11 DEF StartWaiting
    <2> QED BY <1>11, <2>2, <2>3 DEF StartWaiting, Places, InWave, InSubmit, InWait
<1>12. CASE Verify(w)
    <2>1. ctl'[w].at = "finish" /\ TouchesTodo(w)
        BY <1>2, <1>12 DEF Verify, At
    <2> QED BY <2>1 DEF Places
<1>13. CASE Finish(w)
    <2>1. TouchesTodo(w)
        BY <1>2, <1>13 DEF Finish
    <2> QED BY <1>13, <2>1 DEF Places
<1>14. CASE Check(w)
    <2>1. PICK i \in c.todo : Apply(w, i, "FAILED", [c EXCEPT !.todo = @ \ {i}])
        BY <1>14 DEF Check
    <2>2. ctl'[w] = [c EXCEPT !.todo = @ \ {i}] /\ TouchesTodo(w)
        BY <1>3, <2>1 DEF ItemStatuses
    <2>3. ctl'[w].at = "check" /\ c.at = "check"
        BY <1>0, <1>14, <2>2 DEF Check, ControlRecords
    <2> QED BY <2>2, <2>3 DEF Places, InWave, InSubmit, InWait
<1>15. CASE Mark(w)
    <2>1. PICK i \in c.todo : Apply(w, i, "RUNNING", [c EXCEPT !.todo = @ \ {i}])
        BY <1>15 DEF Mark
    <2>2. ctl'[w] = [c EXCEPT !.todo = @ \ {i}] /\ TouchesTodo(w)
        BY <1>3, <2>1 DEF ItemStatuses
    <2>3. ctl'[w].at = "mark" /\ c.at = "mark" /\ ctl'[w].wave = c.wave
        BY <1>0, <1>15, <2>2 DEF Mark, ControlRecords
    <2> QED BY <2>2, <2>3 DEF Places, InWave
<1>16. CASE NotAccepted(w)
    <2>1. PICK i \in c.todo, status \in {"FAILED", "UNKNOWN"} :
            Apply(w, i, status, [c EXCEPT !.at = "saveSubmit", !.call = 0])
        BY <1>16 DEF NotAccepted
    <2>2. ctl'[w] = [c EXCEPT !.at = "saveSubmit", !.call = 0] /\ TouchesTodo(w)
        BY <1>3, <2>1 DEF ItemStatuses
    <2>3. ctl'[w].at = "saveSubmit" /\ ctl'[w].wave = c.wave
        BY <1>0, <2>2 DEF ControlRecords
    <2> QED BY <1>16, <2>2, <2>3 DEF NotAccepted, Places, InWave, InSubmit
<1>17. CASE Result(w) \/ Unresolved(w)
    <2>1. PICK i \in c.todo, status \in {"SUCCEEDED", "FAILED", "UNKNOWN"} :
            Apply(w, i, status, [c EXCEPT !.at = "saveResult"])
        BY <1>17 DEF Result, Unresolved
    <2>2. ctl'[w] = [c EXCEPT !.at = "saveResult"] /\ TouchesTodo(w)
        BY <1>3, <2>1 DEF ItemStatuses
    <2>3. ctl'[w].at = "saveResult" /\ ctl'[w].wave = c.wave
        BY <1>0, <2>2 DEF ControlRecords
    <2> QED BY <1>17, <2>2, <2>3 DEF Result, Unresolved, Places, InWave, InWait
<1>18. CASE Accepted(w)
    <2>1. PICK i \in c.todo :
            Save(w, [m EXCEPT !.items[i] = [status |-> "WAITING_PVE", upid |-> c.call]],
                 [c EXCEPT !.at = "submit", !.todo = @ \ {i}, !.call = 0])
        BY <1>18 DEF Accepted
    <2> DEFINE r == [status |-> "WAITING_PVE", upid |-> c.call]
               k == [m EXCEPT !.items[i] = r]
    <2>2. i \in Items /\ r \in ItemRecords
        BY <1>0 DEF ControlRecords, ItemRecords, ItemStatuses
    <2> HIDE DEF r
    <2>3. k \in MemoryRecords /\ \A j \in Items : j # i => k.items[j] = m.items[j]
        BY <1>0, <2>2, ItemReplaced
    <2>4. Save(w, k, [c EXCEPT !.at = "submit", !.todo = @ \ {i}, !.call = 0])
        BY <2>1 DEF r
    <2> HIDE DEF k
    <2>5. ctl'[w] = [c EXCEPT !.at = "submit", !.todo = @ \ {i}, !.call = 0] /\ TouchesTodo(w)
        BY <1>4, <2>3, <2>4
    <2>6. ctl'[w].at = "submit" /\ ctl'[w].wave = c.wave
        BY <1>0, <2>5 DEF ControlRecords
    <2> QED BY <1>18, <2>5, <2>6 DEF Accepted, Places, InWave, InSubmit
<1>19. CASE SaveSubmit(w) \/ SaveResult(w)
    <2>1. PICK i \in c.todo, at \in {"submit", "wait"} :
            Save(w, m, [c EXCEPT !.at = at, !.todo = @ \ {i}])
        BY <1>19 DEF SaveSubmit, SaveResult
    <2>2. ctl'[w] = [c EXCEPT !.at = at, !.todo = @ \ {i}] /\ TouchesTodo(w)
        BY <1>0, <1>4, <2>1
    <2>3. ctl'[w].at = at /\ ctl'[w].wave = c.wave
        BY <1>0, <2>2 DEF ControlRecords
    <2> QED BY <1>19, <2>2, <2>3 DEF SaveSubmit, SaveResult, Places, InWave, InSubmit, InWait
<1>20. CASE TaskEnded(w)
    <2>1. PICK i \in c.todo : Save(w, WithItem(m, i, "VERIFYING"), [c EXCEPT !.at = "result"])
        BY <1>20 DEF TaskEnded
    <2> DEFINE k == WithItem(m, i, "VERIFYING")
    <2>2. i \in Items /\ "VERIFYING" \in ItemStatuses
        BY <1>0 DEF ControlRecords, ItemStatuses
    <2>3. k \in MemoryRecords /\ \A j \in Items : j # i => k.items[j] = m.items[j]
        BY <1>0, <2>2, OneItem
    <2> HIDE DEF k
    <2>4. ctl'[w] = [c EXCEPT !.at = "result"] /\ TouchesTodo(w)
        BY <1>4, <2>1, <2>3 DEF k
    <2>5. ctl'[w].at = "result" /\ ctl'[w].wave = c.wave
        BY <1>0, <2>4 DEF ControlRecords
    <2> QED BY <1>20, <2>4, <2>5 DEF TaskEnded, Places, InWave, InWait
<1>21. CASE Track(w)
    <2>1. PICK i \in c.todo : /\ mem' = [mem EXCEPT ![w] = WithItem(@, i, "WAITING_PVE")]
                              /\ ctl' = [ctl EXCEPT ![w].todo = @ \ {i}]
        BY <1>21 DEF Track
    <2> DEFINE k == WithItem(m, i, "WAITING_PVE")
    <2>2. i \in Items /\ "WAITING_PVE" \in ItemStatuses
        BY <1>0 DEF ControlRecords, ItemStatuses
    <2>3. \A j \in Items : j # i => k.items[j] = m.items[j]
        BY <1>0, <2>2, OneItem
    <2>4. mem'[w] = k
        BY <2>1 DEF TypeOK
    <2> HIDE DEF k
    <2>5. c.at = "submit" /\ ctl'[w].at = "submit" /\ ctl'[w].wave = c.wave
        BY <1>21, <2>1 DEF Track, TypeOK, ControlRecords
    <2> QED BY <2>3, <2>4, <2>5 DEF TouchesTodo, Places, InWave, InSubmit
<1>22. CASE Send(w) \/ WaitFails(w) \/ Heartbeat(w)
    <2>1. c.at \in InWave /\ ctl'[w].at \in InWave /\ ctl'[w].wave = c.wave
        <3>1. CASE Send(w)
            BY <3>1 DEF Send, TypeOK, ControlRecords, InWave, InSubmit
        <3>2. CASE WaitFails(w)
            BY <3>2 DEF WaitFails, TypeOK, ControlRecords, InWave, InWait
        <3>3. CASE Heartbeat(w)
            BY <3>3 DEF Heartbeat, InWave, InWait
        <3> QED BY <1>22, <3>1, <3>2, <3>3
    <2>2. mem' = mem
        BY <1>22 DEF Send, WaitFails, Heartbeat
    <2> QED BY <1>1, <2>1, <2>2 DEF Places
<1>23. CASE EndWave(w)
    BY <1>1, <1>23 DEF EndWave, Places
<1> QED BY <1>5, <1>6, <1>7, <1>8, <1>9, <1>10, <1>11, <1>12, <1>13, <1>14, <1>15, <1>16, <1>17,
           <1>18, <1>19, <1>20, <1>21, <1>22, <1>23 DEF Execute


\* No process has stopped either.
Peaceful == stops = 0 /\ Calm

\* The steps that are not of execute keep the waves as they are.
LEMMA AsideWaves ==
    ASSUME TypeOK, Aside, stops' = stops, NEW w \in Workers,
           ctl[w].at \in InWave \/ ctl'[w].at \in InWave
    PROVE  ctl'[w] = ctl[w] /\ mem'[w] = mem[w]
<1>1. ASSUME NEW v \in Workers, LoadRow(v) \/ LoadItems(v) \/ \E o \in Ops : Claim(v, o)
      PROVE  /\ v # w => ctl'[w] = ctl[w] /\ mem'[w] = mem[w]
             /\ ctl[v].at \notin InWave /\ ctl'[v].at \notin InWave
    BY <1>1 DEF LoadRow, LoadItems, Claim, TypeOK, At, InWave, InSubmit, InWait
<1>2. ASSUME NEW v \in Workers PROVE ~Stop(v)
    BY DEF Stop, TypeOK
<1> QED BY <1>1, <1>2 DEF Aside

\* A worker is in a wave with every item whose task may be running.
LEMMA ExecuteWaves ==
    ASSUME RecordInv, AloneInv, CalmInv, WaveInv, RecordInv', AloneInv', CalmInv',
           Peaceful, Peaceful',
           NEW w \in Workers, Execute(w), OwnStep(w), CalmStep(w),
           NEW i \in Items, Tracked(items'[i])
    PROVE  \E v \in Workers : ctl'[v].at \in InWave /\ mem'[v].op = OpOf[i] /\ i \in ctl'[v].wave
<1> DEFINE o == mem[w].op
           m == mem[w]
           c == ctl[w]
<1>0. /\ TypeOK /\ TypeOK' /\ o \in Ops /\ Loaded(w) /\ Working(w) /\ i \in ItemsOf(OpOf[i])
      /\ OpOf[i] \in Ops /\ c \in ControlRecords /\ ctl'[w] \in ControlRecords
    <2>1. TypeOK /\ TypeOK' /\ i \in ItemsOf(OpOf[i]) /\ OpOf[i] \in Ops
        BY ItemsAssumption DEF RecordInv, CopyInv, ItemsOf
    <2>2. Loaded(w) /\ Working(w)
        BY DEF OwnStep, Loaded, Working, Execute, Begin, Validate, Check,
           StartRunning, StartWave, Mark, SaveWave, Track, RenewForSubmit, Send, Accepted,
           NotAccepted, SaveSubmit, StartWaiting, TaskEnded, Result, Heartbeat, WaitFails,
           Unresolved, SaveResult, EndWave, Verify, Finish
    <2> QED BY <2>1, <2>2 DEF TypeOK
<1>1. ASSUME items'[i] = items[i]
      PROVE  \E v \in Workers : /\ ctl[v].at \in InWave /\ mem[v].op = OpOf[i]
                                /\ i \in ctl[v].wave
    BY <1>1 DEF WaveInv, Peaceful, Calm, Unlucky
<1>2. CASE OpOf[i] # o
    <2>1. items'[i] = items[i]
        <3>1. CASE UNCHANGED items
            BY <3>1
        <3>2. CASE \E k : Commit(k) /\ k.op = o
            BY <1>0, <1>2, <3>2, Committed
        <3> QED BY <3>1, <3>2 DEF CalmStep, Quiet, Tells, Saves
    <2>2. PICK v \in Workers : ctl[v].at \in InWave /\ mem[v].op = OpOf[i] /\ i \in ctl[v].wave
        BY <1>1, <2>1
    <2> QED BY <1>2, <2>2 DEF OwnStep
<1>3. CASE OpOf[i] = o
    <2>0. i \in ItemsOf(o)
        BY <1>0, <1>3
    <2>1. CopyFits(pve, row[o].status, items, m, c) /\ Current(m)
        BY <1>0, CalmFacts DEF Loaded, Peaceful
    <2>2. ASSUME items'[i] = items[i]
          PROVE  c.at \in InWave /\ i \in c.wave
        <3>1. PICK v \in Workers : /\ ctl[v].at \in InWave /\ mem[v].op = OpOf[i]
                                   /\ i \in ctl[v].wave
            BY <1>1, <2>2
        <3>2. v = w
            BY <1>0, <1>3, <3>1 DEF AloneInv, Peaceful, Calm, Working, InWave, InSubmit, InWait
        <3> QED BY <3>1, <3>2
    <2>3. row'[o].status \notin {"QUEUED", "VALIDATING"} \cup DoneStatuses
        <3>1. row'[o].status \in {"QUEUED", "VALIDATING"} => items'[i] = NewItem
            BY <1>0, <2>0 DEF RecordInv, StoredSound
        <3>2. row'[o].status \in DoneStatuses => items'[i].status \in SettledStatuses
            BY <1>0, <2>0 DEF RecordInv, StoredSound, Sound
        <3> QED BY <3>1, <3>2 DEF NewItem, Tracked
    <2>4. ctl'[w].at # "fail" /\ Places(w) /\ TouchesTodo(w)
        BY <1>0, ExecutePlaces DEF CalmStep
    <2>5. ASSUME ctl'[w].at \in {"check", "wave", "finish"} \cup InWave
          PROVE  /\ mem'[w].op = o /\ CopyFits(pve', row'[o].status, items', mem'[w], ctl'[w])
        <3>1. Loaded(w)'
            BY <2>5 DEF Loaded, Working, InWave, InSubmit, InWait
        <3>2. (Current(mem[w]))' /\ mem'[w].op = o
            BY <2>4, <3>1 DEF Loaded, OwnStep, AloneInv, Relieved, Attended, Fresh, Peaceful, Calm
        <3> QED BY <3>1, <3>2 DEF RecordInv, CopiesFit
    <2>6. CASE c.at \in InWave /\ ctl'[w].at \in InWave /\ ctl'[w].wave = c.wave
        <3>1. /\ mem'[w].op = o
              /\ SetsFit(m, c) /\ InStep(items, m, c)
              /\ SetsFit(mem'[w], ctl'[w]) /\ InStep(items', mem'[w], ctl'[w])
            BY <2>1, <2>5, <2>6, WaveFacts
        <3>2. CASE i \in c.wave
            BY <1>3, <2>6, <3>1, <3>2
        <3>3. CASE i \notin c.wave
            <4>1. i \notin c.todo /\ i \notin ctl'[w].todo
                BY <2>6, <3>1, <3>3 DEF SetsFit
            <4>2. ~Unsaved(c, i) /\ ~Unsaved(ctl'[w], i)
                BY <2>6, <3>3, <4>1 DEF Unsaved, Handled, IsFirst, InWave, InSubmit, InWait
            <4>3. m.items[i] = items[i] /\ mem'[w].items[i] = items'[i]
                BY <2>0, <3>1, <4>2 DEF InStep
            <4>4. Working(w)'
                BY <2>6 DEF Working, InWave, InSubmit, InWait
            <4>5. mem'[w].items[i] = m.items[i]
                BY <2>4, <4>1, <4>4 DEF TouchesTodo
            <4> QED BY <2>2, <3>3, <4>3, <4>5
        <3> QED BY <3>2, <3>3
    <2>7. CASE EndWave(w)
        <3>1. items' = items /\ c.at = "wait" /\ c.todo = {}
            BY <2>7 DEF EndWave, stored
        <3>2. i \in c.wave /\ SetsFit(m, c) /\ ItemsFit(m, c) /\ InStep(items, m, c)
            BY <2>1, <2>2, <3>1, WaveFacts DEF InWave, InWait
        <3>3. Behind(c, i) /\ ~Unsaved(c, i)
            BY <3>1, <3>2 DEF Behind, Unsaved, SetsFit, InWave, InSubmit, InWait
        <3>4. items[i].status \in SettledStatuses
            BY <2>0, <3>2, <3>3 DEF ItemsFit, InStep
        <3> QED BY <3>1, <3>4 DEF Tracked
    <2>8. CASE c.at \in {"begin", "wave"} /\ UNCHANGED items
        BY <2>2, <2>8 DEF InWave, InSubmit, InWait
    <2>9. CASE ctl'[w].at = "check"
        BY <2>3, <2>5, <2>9 DEF CopyFits, StatusFits
    <2>10. CASE c.at = "check" /\ c.todo = {} /\ ctl'[w].at = "wave"
        <3>1. m.items[i] \in {NewItem, UnreadyItem}
            BY <2>0, <2>1, <2>10 DEF CopyFits, FreshFits
        <3>2. mem'[w].items[i] = m.items[i]
            BY <2>4, <2>10 DEF TouchesTodo, Working
        <3>3. mem'[w].items[i] = items'[i]
            BY <2>0, <2>5, <2>10 DEF CopyFits, InStep, Unsaved, InSubmit
        <3> QED BY <3>1, <3>2, <3>3 DEF NewItem, UnreadyItem, Tracked
    <2>11. CASE ctl'[w].at = "finish"
        BY <2>3, <2>5, <2>11 DEF CopyFits, StatusFits, DoneStatuses
    <2>12. CASE Finish(w)
        <3> DEFINE status == FinalStatus({m.items[j].status : j \in ItemsOf(o)})
                   k == [m EXCEPT !.status = status]
        <3>1. k.op = o /\ k.status = status /\ status \in TerminalStatuses
            BY <1>0 DEF TypeOK, MemoryRecords, FinalStatus, TerminalStatuses
        <3>2. Commit(k)
            <4>1. SaveAs(w, status, m, Idle)
                BY <2>12 DEF Finish
            <4>2. Save(w, k, Idle)
                BY <1>0, <2>4, <4>1, ControlTypes DEF SaveAs, TypeOK
            <4> HIDE DEF k
            <4> QED BY <1>0, <2>4, <4>2, ControlTypes DEF Save, TypeOK
        <3> HIDE DEF k, status
        <3> QED BY <1>0, <2>3, <3>1, <3>2, Committed DEF DoneStatuses
    <2> QED BY <2>4, <2>6, <2>7, <2>8, <2>9, <2>10, <2>11, <2>12 DEF Places
<1> QED BY <1>2, <1>3

LEMMA WaveNext ==
    ASSUME RecordInv, AloneInv, CalmInv, WaveInv, [Next]_vars,
           RecordInv', AloneInv', CalmInv'
    PROVE  WaveInv'
<1> SUFFICES ASSUME Peaceful'
             PROVE  /\ \A w \in Workers :
                        ctl'[w].at \in InWave => Cardinality(ctl'[w].wave) <= WaveSize
                    /\ \A i \in Items : Tracked(items'[i]) =>
                        \E w \in Workers : /\ ctl'[w].at \in InWave /\ mem'[w].op = OpOf[i]
                                           /\ i \in ctl'[w].wave
    <2>1. stops' \in Nat /\ stalls' \in Nat /\ faults' \in Nat
        BY DEF RecordInv, CopyInv, TypeOK
    <2> QED BY <2>1 DEF WaveInv, Peaceful, Calm, Unlucky
<1>0. TypeOK /\ Peaceful /\ stops' = stops
    <2>1. TypeOK
        BY DEF RecordInv, CopyInv
    <2> QED BY <2>1, BudgetsGrow DEF Peaceful, Calm, TypeOK
<1>1. /\ \A w \in Workers : ctl[w].at \in InWave => Cardinality(ctl[w].wave) <= WaveSize
      /\ \A i \in Items : Tracked(items[i]) =>
            \E w \in Workers : /\ ctl[w].at \in InWave /\ mem[w].op = OpOf[i]
                               /\ i \in ctl[w].wave
    BY <1>0 DEF WaveInv, Peaceful, Calm, Unlucky
<1>2. ASSUME NEW w \in Workers, Execute(w), OwnStep(w), CalmStep(w)
      PROVE  /\ \A v \in Workers :
                    ctl'[v].at \in InWave => Cardinality(ctl'[v].wave) <= WaveSize
             /\ \A i \in Items : Tracked(items'[i]) =>
                    \E v \in Workers : /\ ctl'[v].at \in InWave /\ mem'[v].op = OpOf[i]
                                       /\ i \in ctl'[v].wave
    <2>1. ASSUME ctl'[w].at \in InWave
          PROVE  Cardinality(ctl'[w].wave) <= WaveSize
        <3>1. Places(w)
            BY <1>0, <1>2, ExecutePlaces DEF CalmStep
        <3>2. ~EndWave(w) /\ ~Finish(w)
            <4>1. EndWave(w) => ctl'[w].at = "wave"
                BY <1>0 DEF EndWave, TypeOK, At
            <4>2. Finish(w) => ctl'[w] = Idle
                BY <1>0, <1>2, SaveAsGoes DEF Finish, CalmStep
            <4> QED BY <2>1, <4>1, <4>2, ControlTypes DEF InWave, InSubmit, InWait
        <3>3. ctl[w].rest \in SUBSET Items
            BY <1>0 DEF TypeOK, ControlRecords
        <3> QED BY <1>1, <2>1, <3>1, <3>2, <3>3, NextWaveSmall
                DEF Places, InWave, InSubmit, InWait
    <2>2. \A v \in Workers : v # w => ctl'[v] = ctl[v]
        BY <1>2 DEF OwnStep
    <2> QED BY <1>0, <1>1, <1>2, <2>1, <2>2, ExecuteWaves
<1>3. CASE Aside /\ UNCHANGED <<row, items, seats>>
    BY <1>0, <1>1, <1>3, AsideWaves
<1> QED BY <1>2, <1>3, CalmNext DEF Peaceful


\* While no process stops or stalls and no repository call fails, a task that may be
\* running is one of the wave its operation is at (runner.go 225-300, the wave loop).
THEOREM WavesAreFollowed == Spec => []WaveInv
<1>1. Init => WaveInv
    BY ItemsAssumption DEF Init, WaveInv, Tracked, NewItem, NoUPID, Idle, At, InWave, InSubmit, InWait
<1>2. /\ RecordInv /\ AloneInv /\ CalmInv /\ WaveInv /\ [Next]_vars
      /\ RecordInv' /\ AloneInv' /\ CalmInv'
      => WaveInv'
    BY WaveNext
<1> QED BY <1>1, <1>2, RecordInvariance, Aloneness, Calmness, PTL DEF Spec

\* The item of a task in progress is in the wave of the worker of its operation.
LEMMA FollowedInWave ==
    ASSUME RecordInv, AloneInv, CalmInv, KeptInv, WaveInv, Peaceful, NEW r \in Followed
    PROVE  /\ r \in Live /\ pve[r].item \in Items
           /\ \E w \in Workers : /\ ctl[w].at \in InWave /\ mem[w].op = OpOf[pve[r].item]
                                 /\ pve[r].item \in ctl[w].wave
<1> DEFINE i == pve[r].item
<1>0. /\ TypeOK /\ ~Unlucky /\ stalls = 0 /\ r \in DOMAIN pve /\ r # NoUPID /\ r \in Live
      /\ pve[r].state = "running" /\ i \in Items /\ OpOf[i] \in Ops /\ i \in ItemsOf(OpOf[i])
      /\ items[i].status # "UNKNOWN"
    <2>1. TypeOK
        BY DEF RecordInv, CopyInv
    <2>2. r \in DOMAIN pve /\ pve[r].state = "running" /\ items[i].status # "UNKNOWN"
        BY DEF Followed, InProgress
    <2>3. pve[r] \in RequestRecords /\ r # NoUPID
        BY <2>1, <2>2 DEF TypeOK, NoUPID
    <2>4. i \in Items /\ OpOf[i] \in Ops
        BY <2>3, ItemsAssumption DEF RequestRecords
    <2>5. ~Unlucky /\ stalls = 0
        BY DEF Peaceful, Calm, Unlucky
    <2> QED BY <2>1, <2>2, <2>3, <2>4, <2>5 DEF Live, ItemsOf
<1>1. CASE items[i].upid = r
    <2>1. Truthful(pve, i, items[i]) /\ items[i].status # "SKIPPED"
        BY <1>0 DEF RecordInv, StoredSound, Sound, NeverSkipped
    <2>2. Tracked(items[i])
        BY <1>0, <1>1, <2>1 DEF Truthful, Tracked, SettledStatuses
    <2> QED BY <1>0, <2>2 DEF WaveInv, Peaceful, Calm
<1>2. ASSUME NEW w \in Workers, Awaits(w, i, r)
      PROVE  ctl[w].at \in InWave /\ mem[w].op = OpOf[i] /\ i \in ctl[w].wave
    <2>1. /\ Working(w) /\ mem[w].op = OpOf[i] /\ Current(mem[w])
          /\ ctl[w].at \in {"reply", "saveSubmit", "fail"}
        BY <1>0, <1>2, AwaitsFacts DEF ItemsOf
    <2>2. ctl[w].at \in {"reply", "saveSubmit"} /\ i \in ctl[w].todo
        BY <1>2, <2>1 DEF CalmInv, Peaceful, Calm, Awaits, IsFirst
    <2>3. SetsFit(mem[w], ctl[w])
        BY <2>1, <2>2, WaveFacts
        DEF RecordInv, CopiesFit, Loaded, InWave, InSubmit
    <2> QED BY <2>1, <2>2, <2>3 DEF SetsFit, InWave, InSubmit
<1>3. Keeps(i, r) \/ \E w \in Workers : Awaits(w, i, r)
    BY <1>0 DEF KeptInv, Held
<1> QED BY <1>0, <1>1, <1>2, <1>3 DEF Keeps, LostItem

LEMMA WaveBounded ==
    RecordInv /\ AloneInv /\ CalmInv /\ KeptInv /\ WaveInv => WaveIsBounded
<1> SUFFICES ASSUME RecordInv, AloneInv, CalmInv, KeptInv, WaveInv, Peaceful, NEW o \in Ops
             PROVE  Cardinality({r \in Followed : OpOf[pve[r].item] = o}) <= WaveSize
    BY DEF WaveIsBounded, Peaceful, Calm
<1> DEFINE R == {r \in Followed : OpOf[pve[r].item] = o}
<1>0. TypeOK /\ Single
    BY DEF RecordInv, CopyInv, TypeOK, KeptInv, Peaceful, Calm, Unlucky
<1>1. CASE R = {}
    <2>1. Cardinality(R) = 0
        BY <1>1, FS_EmptySet
    <2> QED BY <2>1, BoundsAssumption
<1>2. ASSUME NEW q \in R
      PROVE  Cardinality(R) <= WaveSize
    <2>1. PICK w \in Workers : ctl[w].at \in InWave /\ mem[w].op = o
        BY <1>2, FollowedInWave
    <2> DEFINE f == [r \in R |-> pve[r].item]
    <2>2. \A r \in R : r \in Live /\ pve[r].item \in ctl[w].wave
        <3> TAKE r \in R
        <3>1. PICK v \in Workers : /\ ctl[v].at \in InWave /\ mem[v].op = o
                                   /\ pve[r].item \in ctl[v].wave
            BY FollowedInWave
        <3>2. v = w
            BY <2>1, <3>1 DEF AloneInv, Peaceful, Calm, Working, InWave, InSubmit, InWait
        <3> QED BY <3>1, <3>2, FollowedInWave
    <2>3. f \in [R -> ctl[w].wave] /\ DOMAIN f = R
        BY <2>2
    <2>4. \A r, p \in R : f[r] = f[p] => r = p
        BY <1>0, <2>2 DEF Single
    <2> HIDE DEF f, R
    <2>5. f \in Injection(R, ctl[w].wave)
        BY <2>3, <2>4 DEF Injection, IsInjective
    <2>6. IsFiniteSet(ctl[w].wave)
        BY <1>0, <2>1, ItemsAssumption, FS_Subset DEF TypeOK, ControlRecords
    <2>7. Cardinality(ctl[w].wave) <= WaveSize
        BY <2>1 DEF WaveInv, Peaceful, Calm, Unlucky, RecordInv, CopyInv, TypeOK
    <2>8. Cardinality(R) <= Cardinality(ctl[w].wave) /\ IsFiniteSet(R)
        BY <2>5, <2>6, FS_Injection
    <2> QED BY <2>6, <2>7, <2>8, FS_CardinalityType, BoundsAssumption
<1> QED BY <1>1, <1>2

\* An operation never has more tasks in progress than a wave has items (RunnerConfig.WaveSize),
\* for any number of workers, items and operations.
THEOREM BoundedWaves == Spec => []WaveIsBounded
BY WavesAreFollowed, WaveBounded, TasksAreKept, RecordInvariance, Aloneness, Calmness, PTL


-----------------------------------------------------------------------------
(* A single worker.                                                          *)

\* A finished operation stays so, and an operation is begun by the step that moves it.
LEMMA StatusMoves ==
    ASSUME TypeOK, KeepsPromise, NEW o \in Ops
    PROVE  Terminal(row[o].status) => row'[o].status = row[o].status
<1>1. CASE UNCHANGED <<Statuses, items>>
    BY <1>1 DEF Statuses
<1>2. ASSUME NEW p \in Ops, Promise!Advance(p)
      PROVE  Terminal(row[o].status) => row'[o].status = row[o].status
    <2>1. /\ \E to : Statuses' = [Statuses EXCEPT ![p] = to]
          /\ ~Terminal(Statuses[p])
        BY <1>2, SameLifecycle DEF Promise!Advance, Statuses, Terminal
    <2>2. /\ o # p => Statuses'[o] = Statuses[o]
          /\ Statuses[o] = row[o].status /\ Statuses'[o] = row'[o].status
        BY <2>1 DEF Statuses
    <2> QED BY <2>1, <2>2 DEF Statuses
<1> QED BY <1>1, <1>2 DEF KeepsPromise

\* A worker that is alone takes up an operation only when all older ones are finished.
LEMMA OldestFirst ==
    ASSUME RecordInv, NEW w \in Workers, Workers = {w}, NEW o \in Ops, Claim(w, o),
           NEW p \in Ops, p < o
    PROVE  Terminal(row[p].status)
<1>1. ~Claimable(w, p)
    BY DEF Claim
<1>2. lease[p].owner \in {NoWorker, w}
    BY DEF RecordInv, CopyInv, TypeOK, LeaseRecords
<1>3. row[p].status # "CANCEL_REQUESTED"
    BY DEF RecordInv, StoredSound, Sound, CancelStatuses
<1> QED BY <1>1, <1>2, <1>3 DEF Claimable, Terminal

LEMMA OrderNext == RecordInv /\ OrderInv /\ [Next]_vars => OrderInv'
<1> SUFFICES ASSUME RecordInv, OrderInv, [Next]_vars, NEW w \in Workers, Workers = {w}
             PROVE  /\ \A o, p \in Ops : p < o /\ row'[o].status # "QUEUED" => Terminal(row'[p].status)
                    /\ \A p \in Ops : Working(w)' /\ p < mem'[w].op => Terminal(row'[p].status)
    BY DEF OrderInv
<1>0. TypeOK /\ KeepsPromise
    BY NextRecords DEF RecordInv, CopyInv
<1>1. \A p \in Ops : Terminal(row[p].status) => Terminal(row'[p].status)
    BY <1>0, StatusMoves
<1>2. /\ \A o, p \in Ops : p < o /\ row[o].status # "QUEUED" => Terminal(row[p].status)
      /\ \A p \in Ops : Working(w) /\ p < mem[w].op => Terminal(row[p].status)
    BY DEF OrderInv
<1>3. CASE Execute(w) \/ LoadRow(w) \/ LoadItems(w) \/ LoadFails(w) \/ Fail(w)
    <2>1. OwnStep(w)
        BY <1>0, <1>3, ExecuteOwn, AroundOwn
    <2> QED BY <1>1, <1>2, <2>1 DEF OwnStep
<1>4. ASSUME NEW o \in Ops, Claim(w, o)
      PROVE  row' = row /\ mem'[w].op = o /\ \A p \in Ops : p < o => Terminal(row[p].status)
    BY <1>0, <1>4, OldestFirst DEF Claim, TypeOK, NoMemory
<1>5. CASE \/ Poll(w) \/ UNCHANGED vars
           \/ \E o \in Ops : LeaseLapses(o) \/ LeaseExpires(o)
           \/ \E r \in DOMAIN pve : PveAnswers(r)
    BY <1>2, <1>5 DEF Poll, LeaseLapses, LeaseExpires, PveAnswers, vars, stored, Working
<1>6. CASE Stop(w)
    <2>1. row' = row /\ ctl'[w] = At("stopped")
        BY <1>0, <1>6 DEF Stop, stored, TypeOK
    <2> QED BY <1>2, <2>1 DEF Working, At
<1> QED BY <1>2, <1>3, <1>4, <1>5, <1>6 DEF Next, Step

LEMMA Exclusive ==
    ASSUME RecordInv, AloneInv, KeptInv, OrderInv, ~Unlucky, NEW w \in Workers, Workers = {w}
    PROVE  VmIsExclusive
<1>0. TypeOK /\ Single
    BY DEF RecordInv, CopyInv, KeptInv
<1>1. ASSUME NEW r \in Followed
      PROVE  /\ r \in Live /\ pve[r].item \in Items /\ OpOf[pve[r].item] \in Ops
             /\ ~Terminal(row[OpOf[pve[r].item]].status)
             /\ row[OpOf[pve[r].item]].status # "QUEUED"
    <2> DEFINE i == pve[r].item
               o == OpOf[i]
    <2>1. r \in DOMAIN pve /\ pve[r].state = "running" /\ items[i].status # "UNKNOWN"
        BY DEF Followed, InProgress
    <2>2. pve[r] \in RequestRecords /\ r # NoUPID
        BY <1>0, <2>1 DEF TypeOK, NoUPID
    <2>3. i \in Items /\ o \in Ops /\ i \in ItemsOf(o)
        BY <2>2, ItemsAssumption DEF RequestRecords, ItemsOf
    <2>4. row[o].status # "QUEUED"
        <3>1. items[i].status # "QUEUED"
            BY <2>1 DEF RecordInv, IntentIsRecorded
        <3> QED BY <2>3, <3>1 DEF RecordInv, StoredSound, NewItem
    <2>5. ~Terminal(row[o].status)
        <3> SUFFICES ASSUME Terminal(row[o].status) PROVE FALSE
            OBVIOUS
        <3>1. items[i].upid = r
            <4>1. NoSilentTask /\ r \in Taken(i)
                BY <2>1, NothingSilent DEF Taken
            <4>2. stops = 0 /\ stalls = 0 /\ faults <= 1
                BY <1>0 DEF Unlucky, TypeOK
            <4> QED BY <2>1, <2>3, <4>1, <4>2 DEF NoSilentTask
        <3>2. Truthful(pve, i, items[i]) /\ items[i].status \in SettledStatuses
            BY <2>3 DEF RecordInv, StoredSound, Sound, DoneStatuses, Terminal
        <3>3. items[i].status # "SKIPPED"
            BY <2>3 DEF RecordInv, NeverSkipped
        <3> QED BY <2>1, <2>2, <3>1, <3>2, <3>3 DEF Truthful, SettledStatuses
    <2> QED BY <2>1, <2>3, <2>4, <2>5 DEF Live
<1>2. ASSUME NEW r \in Followed, NEW q \in Followed,
             SeatOf[pve[r].item] = SeatOf[pve[q].item]
      PROVE  r = q
    <2> DEFINE o == OpOf[pve[r].item]
               p == OpOf[pve[q].item]
    <2>1. /\ ~Terminal(row[o].status) /\ row[o].status # "QUEUED" /\ o \in Ops
          /\ ~Terminal(row[p].status) /\ row[p].status # "QUEUED" /\ p \in Ops
          /\ pve[r].item \in Items /\ pve[q].item \in Items /\ r \in Live /\ q \in Live
        BY <1>1
    <2>2. ~(o < p) /\ ~(p < o)
        BY <2>1 DEF OrderInv
    <2>3. o = p
        <3>1. o \in Nat /\ p \in Nat
            BY <2>1, OpsAssumption
        <3> HIDE DEF o, p
        <3> QED BY <2>2, <3>1
    <2>4. pve[r].item = pve[q].item
        BY <1>2, <2>1, <2>3, SeatsAssumption
    <2> QED BY <1>0, <2>1, <2>4 DEF Single
<1> QED BY <1>2 DEF VmIsExclusive

\* A worker that is alone takes the oldest operation first (postgres.go,
\* ClaimNextOperation), so that no virtual machine runs two followed tasks; of several
\* workers two may each run one (the run vm_conflict).
THEOREM ExclusiveVm ==
    ASSUME NEW w, Workers = {w}
    PROVE  Spec => [](~Unlucky => VmIsExclusive)
<1>0. w \in Workers
    OBVIOUS
<1>1. Init => OrderInv
    BY DEF Init, OrderInv, Working, Idle, At
<1>2. RecordInv /\ AloneInv /\ KeptInv /\ OrderInv /\ ~Unlucky => VmIsExclusive
    BY <1>0, Exclusive
<1> QED BY <1>1, <1>2, OrderNext, RecordInvariance, Aloneness, TasksAreKept, PTL DEF Spec
=============================================================================
