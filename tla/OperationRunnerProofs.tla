----------------------- MODULE OperationRunnerProofs -----------------------
(***************************************************************************)
(* Proofs about OperationRunner for every value of its constants, with     *)
(* nothing assumed of the environment.                                     *)
(*                                                                         *)
(* The first part proves type correctness and the stability of stored      *)
(* UPIDs.  The repository calls are dealt with once, in the lemmas about   *)
(* Save, Renew and Apply; every action of a worker then only has to show   *)
(* what it passes to them.                                                 *)
(*                                                                         *)
(* The second part proves that the stored operations keep the promise of   *)
(* OperationPromise, that their results are those of PVE's tasks, and that *)
(* nothing is submitted that was not stored as taken up: first what a step *)
(* of execute makes of CopyFits, then what the repository calls do with it.*)
(*                                                                         *)
(* The third part proves that a power state is told of a seat only after   *)
(* the task that brings it has succeeded: what a worker knows of its items *)
(* (OwnTasks) is true even when its copy is too old to be saved.           *)
(***************************************************************************)
EXTENDS OperationRunnerInvariant, TLAPS

\* What a step must establish: the invariant again, and no stored UPID lost.
KeepsUpids ==
    \A i \in Items : items[i].upid # NoUPID => items'[i].upid = items[i].upid

\* The copy m of worker w may be saved: it is the worker's own, and the worker
\* has not dropped or replaced a UPID in it.
Saveable(w, m) ==
    /\ m \in MemoryRecords
    /\ m.op = mem[w].op
    /\ m.version = mem[w].version
    /\ \A i \in Items : mem[w].items[i].upid # NoUPID =>
            m.items[i].upid = mem[w].items[i].upid

\* The labels a repository call may lead to without further obligations.
Plain == Labels \ {"stopped", "load", "loadItems", "send", "reply"}

\* A place inside execute that a worker with copy m may go to: when an item is
\* about to be submitted, the copy has no UPID for it.
Proper(next, m) ==
    /\ next \in ControlRecords
    /\ next.at \notin {"idle", "stopped", "load", "loadItems"}
    /\ next.at \in {"send", "reply"} =>
            \A i \in Items : IsFirst(i, next.todo) => m.items[i].upid = NoUPID

LEMMA ControlTypes ==
    /\ Idle \in ControlRecords /\ Idle.at = "idle"
    /\ Failing \in ControlRecords /\ Failing.at = "fail"
    /\ NoMemory \in MemoryRecords
    /\ \A l \in Labels : At(l) \in ControlRecords /\ At(l).at = l
BY DEF Idle, Failing, At, ControlRecords, Labels, NoMemory, MemoryRecords,
       ItemRecords, NewItem, NoOp, NoUPID, OperationStatuses, ItemStatuses

\* A copy with the record of one item replaced.
LEMMA ItemReplaced ==
    ASSUME NEW m \in MemoryRecords, NEW i \in Items, NEW r \in ItemRecords
    PROVE  LET k == [m EXCEPT !.items[i] = r]
           IN  /\ k \in MemoryRecords /\ k.op = m.op /\ k.version = m.version
               /\ k.items[i] = r
               /\ \A j \in Items : j # i => k.items[j] = m.items[j]
BY DEF MemoryRecords

\* A copy with the status of one item changed.
LEMMA ItemMarked ==
    ASSUME NEW m \in MemoryRecords, NEW i \in Items, NEW status \in ItemStatuses
    PROVE  /\ WithItem(m, i, status) \in MemoryRecords
           /\ WithItem(m, i, status).op = m.op
           /\ WithItem(m, i, status).version = m.version
           /\ \A j \in Items : WithItem(m, i, status).items[j].upid = m.items[j].upid
<1> DEFINE r == [m.items[i] EXCEPT !.status = status]
<1>1. r \in ItemRecords /\ r.upid = m.items[i].upid
    BY DEF MemoryRecords, ItemRecords
<1>2. WithItem(m, i, status) = [m EXCEPT !.items[i] = r]
    BY DEF WithItem, MemoryRecords
<1> HIDE DEF r
<1> QED BY <1>1, <1>2, ItemReplaced

\* The initial state satisfies the invariant.
LEMMA InitCopyInv == Init => CopyInv
<1> SUFFICES ASSUME Init PROVE CopyInv
    OBVIOUS
<1>1. TypeOK
    BY ControlTypes, OpsAssumption, ItemsAssumption
    DEF Init, TypeOK, NewItem, NoLease, LeaseRecords, SeatRecords, ItemRecords, Working, Idle, At,
        OperationStatuses, ItemStatuses, NoUPID
<1>2. CopyIsNotAhead /\ CopyKnowsUpids /\ SubmitsWithoutUpid
    BY DEF Init, CopyIsNotAhead, CopyKnowsUpids, SubmitsWithoutUpid, Loaded,
           Working, Idle, At
<1> QED BY <1>1, <1>2 DEF CopyInv

\* A commit of a saveable copy, followed by c and k as the worker's place and copy.
LEMMA CommitKeeps ==
    ASSUME CopyInv, NEW w \in Workers, Loaded(w),
           NEW m, Saveable(w, m),
           NEW c \in ControlRecords, NEW k \in MemoryRecords,
           Current(m), Commit(m),
           UNCHANGED <<seats, pve, stops, stalls>>, faults' \in Nat,
           mem' = [mem EXCEPT ![w] = k],
           ctl' = [ctl EXCEPT ![w] = c],
           c.at \in Plain,
           \/ c.at = "idle"
           \/ c.at # "idle" /\ k.op = m.op /\ k.items = m.items /\ k.version = m.version + 1
           \/ c.at # "idle" /\ k = m
    PROVE  CopyInv' /\ KeepsUpids
<1> USE DEF CopyInv, TypeOK, Loaded, Working, Saveable
<1> DEFINE o == mem[w].op
<1>0. o \in Ops /\ mem[w].version <= row[o].version
    BY DEF CopyIsNotAhead
<1>1. row' = [row EXCEPT ![o] = [status |-> m.status, version |-> m.version + 1]]
      /\ row[o].version = m.version
    BY DEF Commit, Current
<1>2. items' = [i \in Items |-> IF OpOf[i] = o THEN m.items[i] ELSE items[i]]
    BY DEF Commit
<1>3. lease' \in [Ops -> LeaseRecords]
    BY DEF Commit, NoLease, LeaseRecords
<1>4. KeepsUpids
    BY <1>0, <1>1, <1>2 DEF KeepsUpids, CopyKnowsUpids, ItemsOf
<1>5. TypeOK'
    <2>1. row' \in [Ops -> [status : OperationStatuses, version : Nat]]
        BY <1>0, <1>1 DEF MemoryRecords
    <2>2. items' \in [Items -> ItemRecords]
        BY <1>2 DEF MemoryRecords
    <2>3. mem' \in [Workers -> MemoryRecords] /\ ctl' \in [Workers -> ControlRecords]
        OBVIOUS
    <2>4. \A v \in Workers : Working(v)' => mem'[v].op \in Ops
        BY <1>0
    <2> QED BY <1>3, <2>1, <2>2, <2>3, <2>4
<1>6. CopyIsNotAhead'
    BY <1>0, <1>1 DEF CopyIsNotAhead, MemoryRecords
<1>7. CopyKnowsUpids'
    BY <1>0, <1>1, <1>2 DEF CopyKnowsUpids, CopyIsNotAhead, MemoryRecords, ItemsOf
<1>8. SubmitsWithoutUpid'
    BY DEF SubmitsWithoutUpid, Plain
<1> QED BY <1>4, <1>5, <1>6, <1>7, <1>8

\* SaveOperation of a saveable copy, whatever its outcome.
LEMMA SaveKeeps ==
    ASSUME CopyInv, NEW w \in Workers, Loaded(w),
           NEW m, Saveable(w, m),
           NEW next \in ControlRecords, next.at \in Plain,
           next.at = "idle" => next = Idle,
           Save(w, m, next)
    PROVE  CopyInv' /\ KeepsUpids
<1> USE DEF CopyInv, TypeOK, Loaded, Working, Saveable
<1> DEFINE o == mem[w].op
<1>0. o \in Ops /\ mem[w].version <= row[o].version
    BY DEF CopyIsNotAhead
<1>1. CASE /\ UNCHANGED <<row, items, lease, seats, pve, stops, stalls>>
           /\ faults' \in Nat
           /\ mem' = [mem EXCEPT ![w] = m]
           /\ ctl' = [ctl EXCEPT ![w] = Failing]
    <2>1. TypeOK'
        BY <1>0, <1>1, ControlTypes
    <2>2. CopyIsNotAhead'
        BY <1>0, <1>1, ControlTypes DEF CopyIsNotAhead
    <2>3. CopyKnowsUpids'
        BY <1>0, <1>1, ControlTypes DEF CopyKnowsUpids, ItemsOf
    <2>4. SubmitsWithoutUpid'
        BY <1>0, <1>1, ControlTypes DEF SubmitsWithoutUpid
    <2> QED BY <1>1, <2>1, <2>2, <2>3, <2>4 DEF KeepsUpids
<1>2. CASE /\ Current(m)
           /\ Commit(m)
           /\ mem' = [mem EXCEPT ![w] = IF next = Idle THEN NoMemory
                                        ELSE [m EXCEPT !.version = m.version + 1]]
           /\ ctl' = [ctl EXCEPT ![w] = next]
           /\ UNCHANGED faults
    <2> DEFINE k == IF next = Idle THEN NoMemory
                    ELSE [m EXCEPT !.version = m.version + 1]
    <2>1. k \in MemoryRecords
        <3>1. m \in MemoryRecords /\ m.version + 1 \in Nat
            BY DEF MemoryRecords
        <3>2. [m EXCEPT !.version = m.version + 1] \in MemoryRecords
            BY <3>1 DEF MemoryRecords
        <3> QED BY <3>2, ControlTypes
    <2>2. \/ next.at = "idle"
          \/ next.at # "idle" /\ k.op = o /\ k.items = m.items /\ k.version = m.version + 1
        BY ControlTypes DEF MemoryRecords
    <2>3. UNCHANGED <<seats, pve, stops, stalls>> /\ faults' \in Nat
        BY <1>2 DEF Save
    <2>4. mem' = [mem EXCEPT ![w] = k]
        BY <1>2
    <2> HIDE DEF k
    <2> QED BY <1>2, <2>1, <2>2, <2>3, <2>4, CommitKeeps
<1>3. CASE /\ Fault
           /\ Current(m)
           /\ Commit(m)
           /\ mem' = [mem EXCEPT ![w] = m]
           /\ ctl' = [ctl EXCEPT ![w] = Failing]
    <2>1. UNCHANGED <<seats, pve, stops, stalls>> /\ faults' \in Nat
        BY <1>3 DEF Save, Fault
    <2>2. Failing \in ControlRecords /\ Failing.at \in Plain /\ Failing.at # "idle"
        BY ControlTypes DEF Plain, Labels
    <2> QED BY <1>3, <2>1, <2>2, CommitKeeps
<1> QED BY <1>1, <1>2, <1>3 DEF Save, Fault

\* The same after a Transition, which may be refused.
LEMMA SaveAsKeeps ==
    ASSUME CopyInv, NEW w \in Workers, Loaded(w),
           NEW status \in OperationStatuses,
           NEW next \in ControlRecords, next.at \in Plain,
           next.at = "idle" => next = Idle,
           SaveAs(w, status, mem[w], next)
    PROVE  CopyInv' /\ KeepsUpids
<1> USE DEF CopyInv, TypeOK
<1>1. Saveable(w, mem[w])
    BY DEF Saveable, MemoryRecords
<1>2. CASE CanTransition(mem[w].status, status)
    <2> DEFINE m == [mem[w] EXCEPT !.status = status]
    <2>1. Saveable(w, m)
        BY DEF Saveable, MemoryRecords
    <2>2. Save(w, m, next)
        BY <1>2 DEF SaveAs
    <2> HIDE DEF m
    <2> QED BY <2>1, <2>2, SaveKeeps
<1>3. CASE ~CanTransition(mem[w].status, status)
    <2>1. /\ ctl' = [ctl EXCEPT ![w] = Failing]
          /\ mem' = mem
          /\ UNCHANGED <<row, items, lease, seats, pve, stops, stalls, faults>>
        BY <1>3 DEF SaveAs, stored, budgets
    <2>2. TypeOK'
        BY <2>1, ControlTypes DEF Loaded, Working
    <2>3. CopyIsNotAhead' /\ CopyKnowsUpids' /\ SubmitsWithoutUpid'
        BY <2>1, ControlTypes
        DEF CopyIsNotAhead, CopyKnowsUpids, SubmitsWithoutUpid, Loaded, Working, ItemsOf
    <2> QED BY <2>1, <2>2, <2>3 DEF KeepsUpids
<1> QED BY <1>2, <1>3

\* A step of worker w that leaves the tables, its version and its UPIDs alone.
LEMMA PrivateStepKeeps ==
    ASSUME CopyInv, NEW w \in Workers, Loaded(w),
           NEW m, Saveable(w, m), NEW next, Proper(next, m),
           UNCHANGED <<row, items>>,
           TypeOK => lease' \in [Ops -> LeaseRecords],
           TypeOK => seats' \in [Seats -> SeatRecords],
           TypeOK => pve' \in Seq(RequestRecords),
           TypeOK => stops' \in Nat /\ stalls' \in Nat /\ faults' \in Nat,
           mem' = [mem EXCEPT ![w] = m],
           ctl' = [ctl EXCEPT ![w] = next]
    PROVE  CopyInv' /\ KeepsUpids
<1> USE DEF CopyInv, Loaded, Working, Saveable, Proper
<1>1. TypeOK'
    BY DEF TypeOK
<1>2. CopyIsNotAhead'
    BY DEF TypeOK, CopyIsNotAhead
<1>3. CopyKnowsUpids'
    BY DEF TypeOK, CopyKnowsUpids, ItemsOf
<1>4. SubmitsWithoutUpid'
    BY DEF TypeOK, SubmitsWithoutUpid
<1> QED BY <1>1, <1>2, <1>3, <1>4 DEF KeepsUpids

\* RenewOperationLease, whatever its outcome.
LEMMA RenewKeeps ==
    ASSUME CopyInv, NEW w \in Workers, Loaded(w),
           NEW next, Proper(next, mem[w]),
           Renew(w, next)
    PROVE  CopyInv' /\ KeepsUpids
<1> USE DEF CopyInv
<1>1. Saveable(w, mem[w]) /\ mem' = [mem EXCEPT ![w] = mem[w]]
    BY DEF Saveable, MemoryRecords, TypeOK, Renew
<1>2. UNCHANGED <<row, items, seats, pve, stops, stalls>>
    BY DEF Renew
<1>3. TypeOK => /\ faults' \in Nat
                /\ lease' \in [Ops -> LeaseRecords]
    <2>1. TypeOK => mem[w].op \in Ops
        BY DEF TypeOK, Loaded, Working
    <2>2. TypeOK => lease' \in [Ops -> LeaseRecords]
        <3> DEFINE l == [lease[mem[w].op] EXCEPT !.until = "ahead"]
        <3>1. lease' = lease \/ lease' = [lease EXCEPT ![mem[w].op] = l]
            BY DEF Renew
        <3>2. TypeOK => l \in LeaseRecords
            BY <2>1 DEF TypeOK, LeaseRecords
        <3> HIDE DEF l
        <3> QED BY <2>1, <3>1, <3>2 DEF TypeOK
    <2>3. TypeOK => faults' \in Nat
        BY DEF Renew, TypeOK, Fault
    <2> QED BY <2>2, <2>3
<1>4. CASE ctl' = [ctl EXCEPT ![w] = next]
    BY <1>1, <1>2, <1>3, <1>4, PrivateStepKeeps DEF TypeOK
<1>5. CASE ctl' = [ctl EXCEPT ![w] = Failing]
    <2>1. Proper(Failing, mem[w])
        BY ControlTypes DEF Proper
    <2> QED BY <1>1, <1>2, <1>3, <1>5, <2>1, PrivateStepKeeps DEF TypeOK
<1> QED BY <1>4, <1>5 DEF Renew

\* ApplyOperationItemResult, whatever its outcome.
LEMMA ApplyKeeps ==
    ASSUME CopyInv, NEW w \in Workers, Loaded(w),
           NEW i \in Items, NEW status \in ItemStatuses,
           NEW next \in ControlRecords, next.at \in Plain \ {"idle"},
           Apply(w, i, status, next)
    PROVE  CopyInv' /\ KeepsUpids
<1> USE DEF CopyInv
<1> DEFINE m == WithItem(mem[w], i, status)
<1>1. mem' = [mem EXCEPT ![w] = m] /\ UNCHANGED <<row, items, lease, pve, stops, stalls>>
    BY DEF Apply, TypeOK
<1>2. Saveable(w, m)
    BY ItemMarked DEF Saveable, TypeOK
<1>3. TypeOK => /\ faults' \in Nat
                /\ seats' \in [Seats -> SeatRecords]
    <2> SUFFICES ASSUME TypeOK
                 PROVE  /\ faults' \in Nat
                        /\ seats' \in [Seats -> SeatRecords]
        OBVIOUS
    <2>1. faults' \in Nat
        BY DEF Apply, Fault, TypeOK
    <2>2. \A seat \in SeatRecords :
            SeatAfter(seat, OpType[mem[w].op], status)
                \in SeatRecords
        BY DEF SeatAfter, SeatRecords
    <2>3. [seats EXCEPT ![SeatOf[i]] = SeatAfter(@, OpType[mem[w].op], status)]
            \in [Seats -> SeatRecords]
        BY <2>2, ItemsAssumption DEF TypeOK
    <2> QED BY <2>1, <2>3 DEF Apply, TypeOK
<1> HIDE DEF m
<1>4. CASE ctl' = [ctl EXCEPT ![w] = next]
    <2>1. Proper(next, m)
        BY DEF Proper, Plain
    <2> QED BY <2>1, <1>1, <1>2, <1>3, <1>4, PrivateStepKeeps DEF TypeOK
<1>5. CASE ctl' = [ctl EXCEPT ![w] = Failing]
    <2>1. Proper(Failing, m)
        BY ControlTypes DEF Proper
    <2> QED BY <1>1, <1>2, <1>3, <1>5, <2>1, PrivateStepKeeps DEF TypeOK
<1> QED BY <1>4, <1>5 DEF Apply

\* The places computed by execute are well formed.
LEMMA PlaceTypes ==
    ASSUME CopyInv, NEW w \in Workers
    PROVE  /\ ctl[w] \in ControlRecords
           /\ mem[w] \in MemoryRecords
           /\ mem[w].items \in [Items -> ItemRecords]
           /\ mem[w].status \in OperationStatuses
           /\ Unready(mem[w]) \subseteq Items
           /\ Pending(mem[w]) \subseteq Items
           /\ \A S \in SUBSET Items : NextWave(S) \subseteq Items
           /\ Saveable(w, mem[w])
BY DEF CopyInv, TypeOK, MemoryRecords, Unready, Pending, NextWave, ItemsOf, Saveable

LEMMA ResumeProper ==
    ASSUME CopyInv, NEW w \in Workers
    PROVE  Proper(Resume(mem[w]), mem[w])
<1>1. {"validate", "check", "finish", "wave"} \subseteq Labels
    BY DEF Labels
<1>2. /\ At("validate") \in ControlRecords /\ At("validate").at = "validate"
      /\ At("check") \in ControlRecords /\ At("check").at = "check"
      /\ At("finish") \in ControlRecords /\ At("finish").at = "finish"
      /\ At("wave") \in ControlRecords /\ At("wave").at = "wave"
    BY <1>1, ControlTypes
<1>3. CASE mem[w].status = "QUEUED"
    BY <1>2, <1>3 DEF Resume, Proper
<1>4. CASE mem[w].status = "VALIDATING"
    BY <1>2, <1>4, PlaceTypes DEF Resume, Proper, ControlRecords
<1>5. CASE mem[w].status = "VERIFYING"
    BY <1>2, <1>5 DEF Resume, Proper
<1>6. CASE mem[w].status \notin {"QUEUED", "VALIDATING", "VERIFYING"}
    BY <1>2, <1>6, PlaceTypes DEF Resume, Proper, ControlRecords
<1> QED BY <1>3, <1>4, <1>5, <1>6

\* What a worker does before execute, and when it is done.
LEMMA OutsideKeeps ==
    ASSUME CopyInv, NEW w \in Workers,
           \/ \E o \in Ops : Claim(w, o)
           \/ LoadRow(w) \/ LoadItems(w) \/ LoadFails(w) \/ Stop(w)
    PROVE  CopyInv' /\ KeepsUpids
<1> USE DEF CopyInv
<1>1. ASSUME NEW o \in Ops, Claim(w, o)
      PROVE  CopyInv' /\ KeepsUpids
    <2> DEFINE c == At("load")
               m == [NoMemory EXCEPT !.op = o]
    <2>1. c \in ControlRecords /\ c.at = "load"
        BY ControlTypes DEF Labels
    <2>2. m \in MemoryRecords /\ m.op = o /\ m.version = 0
        BY ControlTypes DEF MemoryRecords, NoMemory
    <2>3. /\ mem' = [mem EXCEPT ![w] = m] /\ ctl' = [ctl EXCEPT ![w] = c]
          /\ UNCHANGED <<row, items, seats, pve, stops, stalls, faults>>
        BY <1>1 DEF Claim, TypeOK, budgets
    <2>4. lease' \in [Ops -> LeaseRecords]
        BY <1>1 DEF Claim, TypeOK, LeaseRecords
    <2> HIDE DEF c, m
    <2>5. TypeOK'
        BY <2>1, <2>2, <2>3, <2>4 DEF TypeOK, Working
    <2>6. CopyIsNotAhead'
        BY <2>1, <2>2, <2>3 DEF CopyIsNotAhead, TypeOK, Working
    <2>7. CopyKnowsUpids' /\ SubmitsWithoutUpid'
        BY <2>1, <2>2, <2>3 DEF CopyKnowsUpids, SubmitsWithoutUpid, TypeOK, Loaded, Working, ItemsOf
    <2> QED BY <2>3, <2>5, <2>6, <2>7 DEF KeepsUpids
<1>2. ASSUME LoadRow(w)
      PROVE  CopyInv' /\ KeepsUpids
    <2> DEFINE c == At("loadItems")
               o == mem[w].op
               m == [mem[w] EXCEPT !.status = row[o].status,
                                   !.version = row[o].version]
    <2>0. o \in Ops
        BY <1>2 DEF LoadRow, TypeOK, Working
    <2>1. c \in ControlRecords /\ c.at = "loadItems"
        BY ControlTypes DEF Labels
    <2>2. m \in MemoryRecords /\ m.op = o /\ m.version = row[o].version
        BY <2>0 DEF TypeOK, MemoryRecords
    <2>3. /\ mem' = [mem EXCEPT ![w] = m] /\ ctl' = [ctl EXCEPT ![w] = c]
          /\ UNCHANGED <<row, items, lease, seats, pve, stops, stalls, faults>>
        BY <1>2 DEF LoadRow, TypeOK, MemoryRecords, stored, budgets
    <2> HIDE DEF c, m, o
    <2>5. TypeOK'
        BY <2>0, <2>1, <2>2, <2>3 DEF TypeOK, Working
    <2>6. CopyIsNotAhead'
        BY <2>0, <2>1, <2>2, <2>3 DEF CopyIsNotAhead, TypeOK, Working
    <2>7. CopyKnowsUpids' /\ SubmitsWithoutUpid'
        BY <2>1, <2>2, <2>3 DEF CopyKnowsUpids, SubmitsWithoutUpid, TypeOK, Loaded, Working, ItemsOf
    <2> QED BY <2>3, <2>5, <2>6, <2>7 DEF KeepsUpids
<1>3. ASSUME LoadItems(w)
      PROVE  CopyInv' /\ KeepsUpids
    <2> DEFINE c == At("begin")
               o == mem[w].op
               read == [i \in Items |-> IF OpOf[i] = o THEN items[i] ELSE NewItem]
               m == [mem[w] EXCEPT !.items = read]
    <2>0. o \in Ops /\ mem[w].version <= row[o].version
        BY <1>3 DEF LoadItems, TypeOK, Working, CopyIsNotAhead
    <2>1. c \in ControlRecords /\ c.at = "begin"
        BY ControlTypes DEF Labels
    <2>2. read \in [Items -> ItemRecords]
        BY DEF TypeOK, NewItem, ItemRecords, ItemStatuses, NoUPID
    <2>3. /\ m \in MemoryRecords /\ m.op = o /\ m.version = mem[w].version
          /\ m.items = read
        BY <2>2 DEF TypeOK, MemoryRecords
    <2>4. /\ mem' = [mem EXCEPT ![w] = m] /\ ctl' = [ctl EXCEPT ![w] = c]
          /\ UNCHANGED <<row, items, lease, seats, pve, stops, stalls, faults>>
        BY <1>3 DEF LoadItems, TypeOK, stored, budgets
    <2> HIDE DEF c, m
    <2>5. TypeOK'
        BY <2>0, <2>1, <2>3, <2>4 DEF TypeOK, Working
    <2>6. CopyIsNotAhead'
        BY <2>0, <2>1, <2>3, <2>4 DEF CopyIsNotAhead, TypeOK, Working
    <2>7. \A v \in Workers \ {w} : mem'[v] = mem[v] /\ ctl'[v] = ctl[v]
        BY <2>4 DEF TypeOK
    <2>8. mem'[w] = m /\ ctl'[w] = c
        BY <2>4 DEF TypeOK
    <2>9. \A i \in ItemsOf(o) : m.items[i].upid = items[i].upid
        BY <2>3 DEF ItemsOf
    <2>10. CopyKnowsUpids'
        BY <2>3, <2>4, <2>7, <2>8, <2>9 DEF CopyKnowsUpids, Loaded, Working, ItemsOf
    <2>11. SubmitsWithoutUpid'
        BY <2>1, <2>7, <2>8 DEF SubmitsWithoutUpid
    <2> QED BY <2>4, <2>5, <2>6, <2>10, <2>11 DEF KeepsUpids
<1>4. ASSUME LoadFails(w) \/ Stop(w)
      PROVE  CopyInv' /\ KeepsUpids
    <2>1. PICK c \in {Idle, At("stopped")} :
            /\ ctl' = [ctl EXCEPT ![w] = c]
            /\ mem' = [mem EXCEPT ![w] = NoMemory]
            /\ UNCHANGED <<row, items, lease, seats, pve>>
            /\ stops' \in Nat /\ stalls' \in Nat /\ faults' \in Nat
        BY <1>4 DEF LoadFails, Stop, Fault, stored, TypeOK
    <2>2. c \in ControlRecords /\ c.at \in {"idle", "stopped"}
        BY ControlTypes DEF Labels
    <2>3. TypeOK'
        BY <2>1, <2>2, ControlTypes DEF TypeOK, Working
    <2>4. CopyIsNotAhead' /\ CopyKnowsUpids' /\ SubmitsWithoutUpid'
        BY <2>1, <2>2 DEF CopyIsNotAhead, CopyKnowsUpids, SubmitsWithoutUpid, TypeOK,
                          Loaded, Working, ItemsOf
    <2> QED BY <2>1, <2>3, <2>4 DEF KeepsUpids
<1> QED BY <1>1, <1>2, <1>3, <1>4

\* The steps of the world around the workers.
LEMMA EnvironmentKeeps ==
    ASSUME CopyInv,
           \/ \E w \in Workers : Poll(w)
           \/ \E o \in Ops : LeaseLapses(o) \/ LeaseExpires(o)
           \/ \E r \in DOMAIN pve : PveAnswers(r)
           \/ UNCHANGED vars
    PROVE  CopyInv' /\ KeepsUpids
<1> USE DEF CopyInv
<1>1. UNCHANGED <<row, items, seats, mem, ctl>>
    BY DEF Poll, LeaseLapses, LeaseExpires, PveAnswers, vars, stored, budgets
<1>2. lease' \in [Ops -> LeaseRecords]
    <2>1. ASSUME NEW o \in Ops, lease' = [lease EXCEPT ![o].until = "passed"]
          PROVE  lease' \in [Ops -> LeaseRecords]
        <3> DEFINE l == [lease[o] EXCEPT !.until = "passed"]
        <3>1. l \in LeaseRecords
            BY DEF TypeOK, LeaseRecords
        <3>2. lease' = [lease EXCEPT ![o] = l]
            BY <2>1
        <3> HIDE DEF l
        <3> QED BY <3>1, <3>2 DEF TypeOK
    <2> QED BY <2>1 DEF TypeOK, Poll, LeaseLapses, LeaseExpires, PveAnswers, vars, stored
<1>3. pve' \in Seq(RequestRecords)
    <2>1. ASSUME NEW r \in DOMAIN pve,
                 NEW to \in {"running", "refused", "ok", "failed"},
                 pve' = [pve EXCEPT ![r].state = to]
          PROVE  pve' \in Seq(RequestRecords)
        <3> DEFINE q == [pve[r] EXCEPT !.state = to]
        <3>0. pve[r] \in RequestRecords
            BY DEF TypeOK
        <3>1. q \in RequestRecords
            BY <3>0 DEF RequestRecords
        <3>2. pve' = [pve EXCEPT ![r] = q]
            BY <2>1
        <3> HIDE DEF q
        <3> QED BY <3>1, <3>2 DEF TypeOK
    <2> QED BY <2>1 DEF TypeOK, Poll, LeaseLapses, LeaseExpires, PveAnswers, vars
<1>4. stops' \in Nat /\ stalls' \in Nat /\ faults' \in Nat
    BY DEF TypeOK, Poll, LeaseLapses, LeaseExpires, PveAnswers, vars, budgets
<1>5. TypeOK'
    BY <1>1, <1>2, <1>3, <1>4 DEF TypeOK, Working
<1>6. CopyIsNotAhead' /\ CopyKnowsUpids' /\ SubmitsWithoutUpid'
    BY <1>1 DEF CopyIsNotAhead, CopyKnowsUpids, SubmitsWithoutUpid, Loaded, Working, ItemsOf
<1> QED BY <1>1, <1>5, <1>6 DEF KeepsUpids

\* Every step of execute.
LEMMA ExecuteKeeps ==
    ASSUME CopyInv, NEW w \in Workers, Execute(w)
    PROVE  CopyInv' /\ KeepsUpids
<1> DEFINE Goal == CopyInv' /\ KeepsUpids
<1>0. /\ ctl[w] \in ControlRecords /\ mem[w] \in MemoryRecords
      /\ mem[w].status \in OperationStatuses
      /\ ctl[w].todo \subseteq Items /\ ctl[w].rest \subseteq Items
      /\ ctl[w].wave \subseteq Items /\ ctl[w].call \in Nat
    BY PlaceTypes DEF ControlRecords
<1>1. ASSUME ctl[w].at \in Labels \ {"idle", "stopped", "load", "loadItems"}
      PROVE  Loaded(w)
    BY <1>1 DEF Loaded, Working
<1>2. /\ {"validate", "check", "wave", "finish"} \subseteq Plain
      /\ {"VALIDATING", "RUNNING", "WAITING_PVE", "VERIFYING"} \subseteq OperationStatuses
      /\ {"FAILED", "RUNNING", "UNKNOWN", "SUCCEEDED", "VERIFYING", "WAITING_PVE"} \subseteq ItemStatuses
    BY DEF Plain, Labels, OperationStatuses, ItemStatuses
<1>3. CASE Begin(w)
    BY <1>1, <1>3, ResumeProper, RenewKeeps DEF Begin, Labels
<1>4. CASE Validate(w)
    <2> DEFINE next == [At("check") EXCEPT !.todo = Unready(mem[w])]
    <2>1. next \in ControlRecords /\ next.at = "check"
        BY PlaceTypes DEF At, ControlRecords, Labels
    <2>2. ctl[w].at = "validate" /\ SaveAs(w, "VALIDATING", mem[w], next)
        BY <1>4 DEF Validate
    <2> HIDE DEF next
    <2> QED BY <1>1, <1>2, <2>1, <2>2, SaveAsKeeps DEF Labels
<1>5. CASE Check(w)
    <2>1. PICK i \in ctl[w].todo :
            Apply(w, i, "FAILED", [ctl[w] EXCEPT !.todo = @ \ {i}])
        BY <1>5 DEF Check
    <2> DEFINE next == [ctl[w] EXCEPT !.todo = @ \ {i}]
    <2>2. next \in ControlRecords /\ next.at = "check" /\ ctl[w].at = "check"
        BY <1>0, <1>5 DEF Check, ControlRecords
    <2> HIDE DEF next
    <2> QED BY <1>0, <1>1, <1>2, <2>1, <2>2, ApplyKeeps DEF Labels, next
<1>6. CASE StartRunning(w)
    <2> DEFINE next == [At("wave") EXCEPT !.rest = Pending(mem[w])]
    <2>1. next \in ControlRecords /\ next.at = "wave"
        BY <1>0, PlaceTypes DEF At, ControlRecords, Labels
    <2>2. ctl[w].at = "check" /\ SaveAs(w, "RUNNING", mem[w], next)
        BY <1>6 DEF StartRunning
    <2>3. next.at \in Plain \ {"idle"}
        BY <2>1 DEF Plain, Labels
    <2> HIDE DEF next
    <2> QED BY <1>1, <1>2, <2>1, <2>2, <2>3, SaveAsKeeps DEF Labels
<1>7. CASE StartWave(w)
    <2> DEFINE wave == NextWave(ctl[w].rest)
               next == [ctl[w] EXCEPT
                !.at = "mark", !.wave = wave, !.rest = @ \ wave,
                !.todo = {i \in wave :
                            mem[w].items[i].status \in {"QUEUED", "RUNNING"}}]
    <2>0. wave \subseteq Items
        BY <1>0, PlaceTypes
    <2>1. next \in ControlRecords /\ next.at = "mark"
        BY <1>0, <2>0 DEF ControlRecords, Labels
    <2>2. ctl[w].at = "wave" /\ Renew(w, next)
        BY <1>7 DEF StartWave
    <2> HIDE DEF next
    <2>3. Proper(next, mem[w])
        BY <2>1 DEF Proper
    <2> QED BY <1>1, <2>2, <2>3, RenewKeeps DEF Labels
<1>8. CASE Mark(w)
    <2>1. PICK i \in ctl[w].todo :
            Apply(w, i, "RUNNING", [ctl[w] EXCEPT !.todo = @ \ {i}])
        BY <1>8 DEF Mark
    <2> DEFINE next == [ctl[w] EXCEPT !.todo = @ \ {i}]
    <2>2. next \in ControlRecords /\ next.at = "mark" /\ ctl[w].at = "mark"
        BY <1>0, <1>8 DEF Mark, ControlRecords, Labels
    <2>3. next.at \in Plain \ {"idle"}
        BY <2>2 DEF Plain, Labels
    <2> HIDE DEF next
    <2> QED BY <1>0, <1>1, <1>2, <2>1, <2>2, <2>3, ApplyKeeps DEF Labels, next
<1>9. CASE SaveWave(w)
    <2> DEFINE next == [ctl[w] EXCEPT !.at = "submit", !.todo = ctl[w].wave]
    <2>1. next \in ControlRecords /\ next.at = "submit"
        BY <1>0, PlaceTypes DEF At, ControlRecords, Labels
    <2>2. ctl[w].at = "mark" /\ SaveAs(w, "RUNNING", mem[w], next)
        BY <1>9 DEF SaveWave
    <2>3. next.at \in Plain \ {"idle"}
        BY <2>1 DEF Plain, Labels
    <2> HIDE DEF next
    <2> QED BY <1>1, <1>2, <2>1, <2>2, <2>3, SaveAsKeeps DEF Labels
<1>10. CASE Track(w)
    <2>1. PICK i \in ctl[w].todo :
            /\ mem' = [mem EXCEPT ![w] = WithItem(@, i, "WAITING_PVE")]
            /\ ctl' = [ctl EXCEPT ![w].todo = @ \ {i}]
        BY <1>10 DEF Track
    <2> DEFINE m == WithItem(mem[w], i, "WAITING_PVE")
               next == [ctl[w] EXCEPT !.todo = @ \ {i}]
    <2>2. mem' = [mem EXCEPT ![w] = m] /\ ctl' = [ctl EXCEPT ![w] = next]
        BY <2>1 DEF CopyInv, TypeOK
    <2>3. Saveable(w, m)
        BY <1>0, <1>2, ItemMarked DEF Saveable
    <2>4. ctl[w].at = "submit" /\ Proper(next, m)
        BY <1>0, <1>10 DEF Track, Proper, ControlRecords
    <2>5. UNCHANGED <<row, items, lease, seats, pve, stops, stalls, faults>>
        BY <1>10 DEF Track, stored, budgets
    <2> HIDE DEF m, next
    <2> QED BY <1>1, <2>2, <2>3, <2>4, <2>5, PrivateStepKeeps DEF Labels, TypeOK
<1>11. CASE RenewForSubmit(w)
    <2> DEFINE next == [ctl[w] EXCEPT !.at = "send"]
    <2>1. next \in ControlRecords /\ next.at = "send" /\ next.todo = ctl[w].todo
        BY <1>0 DEF ControlRecords, Labels
    <2>2. ctl[w].at = "submit" /\ Renew(w, next)
        BY <1>11 DEF RenewForSubmit
    <2>3. \A i \in Items : IsFirst(i, ctl[w].todo) => mem[w].items[i].upid = NoUPID
        BY <1>0, <1>11, ItemsAssumption DEF RenewForSubmit, IsFirst
    <2> HIDE DEF next
    <2>4. Proper(next, mem[w])
        BY <2>1, <2>3 DEF Proper
    <2> QED BY <1>1, <2>2, <2>4, RenewKeeps DEF Labels
<1>12. CASE Send(w)
    <2> DEFINE next == [ctl[w] EXCEPT !.at = "reply", !.call = Len(pve) + 1]
    <2>0. Len(pve) + 1 \in Nat
        BY DEF CopyInv, TypeOK
    <2>1. next \in ControlRecords /\ next.at = "reply" /\ next.todo = ctl[w].todo
        BY <1>0, <2>0 DEF ControlRecords, Labels
    <2>2. ctl[w].at = "send" /\ ctl' = [ctl EXCEPT ![w] = next]
        BY <1>12 DEF Send, CopyInv, TypeOK
    <2>3. \A i \in Items : IsFirst(i, ctl[w].todo) => mem[w].items[i].upid = NoUPID
        BY <2>2 DEF CopyInv, SubmitsWithoutUpid
    <2>4. pve' \in Seq(RequestRecords)
        <3>1. PICK i \in ctl[w].todo : pve' = Append(pve, [item |-> i, state |-> "sent"])
            BY <1>12 DEF Send
        <3>2. [item |-> i, state |-> "sent"] \in RequestRecords
            BY <1>0 DEF RequestRecords
        <3> QED BY <3>1, <3>2 DEF CopyInv, TypeOK
    <2>5. /\ UNCHANGED <<row, items, lease, seats, stops, stalls, faults>>
          /\ mem' = [mem EXCEPT ![w] = mem[w]]
        BY <1>12 DEF Send, stored, budgets, CopyInv, TypeOK
    <2> HIDE DEF next
    <2>6. Proper(next, mem[w])
        BY <2>1, <2>3 DEF Proper
    <2> QED BY <1>1, <2>2, <2>4, <2>5, <2>6, PlaceTypes, PrivateStepKeeps DEF Labels, TypeOK
<1>13. CASE Accepted(w)
    <2>1. PICK i \in ctl[w].todo :
            /\ IsFirst(i, ctl[w].todo)
            /\ Save(w, [mem[w] EXCEPT !.items[i] =
                            [status |-> "WAITING_PVE", upid |-> ctl[w].call]],
                    [ctl[w] EXCEPT !.at = "submit", !.todo = @ \ {i}, !.call = 0])
        BY <1>13 DEF Accepted
    <2> DEFINE next == [ctl[w] EXCEPT !.at = "submit", !.todo = @ \ {i}, !.call = 0]
               r == [status |-> "WAITING_PVE", upid |-> ctl[w].call]
               m == [mem[w] EXCEPT !.items[i] = r]
    <2>2. next \in ControlRecords /\ next.at = "submit" /\ ctl[w].at = "reply"
        BY <1>0, <1>13 DEF Accepted, ControlRecords, Labels
    <2>3. next.at \in Plain \ {"idle"}
        BY <2>2 DEF Plain, Labels
    <2>4. mem[w].items[i].upid = NoUPID
        BY <1>0, <2>1, <2>2 DEF CopyInv, SubmitsWithoutUpid
    <2>5. r \in ItemRecords
        BY <1>0, <1>2 DEF ItemRecords
    <2>6. Save(w, m, next)
        BY <2>1
    <2> HIDE DEF next, r
    <2>7. Saveable(w, m)
        BY <1>0, <2>4, <2>5, ItemReplaced DEF Saveable
    <2> HIDE DEF m
    <2> QED BY <1>1, <2>2, <2>3, <2>6, <2>7, SaveKeeps DEF Labels
<1>14. CASE NotAccepted(w)
    <2>1. PICK i \in ctl[w].todo, status \in {"FAILED", "UNKNOWN"} :
            Apply(w, i, status, [ctl[w] EXCEPT !.at = "saveSubmit", !.call = 0])
        BY <1>14 DEF NotAccepted
    <2> DEFINE next == [ctl[w] EXCEPT !.at = "saveSubmit", !.call = 0]
    <2>2. next \in ControlRecords /\ next.at = "saveSubmit" /\ ctl[w].at = "reply"
        BY <1>0, <1>14 DEF NotAccepted, ControlRecords, Labels
    <2>3. next.at \in Plain \ {"idle"}
        BY <2>2 DEF Plain, Labels
    <2> HIDE DEF next
    <2> QED BY <1>0, <1>1, <1>2, <2>1, <2>2, <2>3, ApplyKeeps DEF Labels, next
<1>15. CASE SaveSubmit(w)
    <2>1. PICK i \in ctl[w].todo : Save(w, mem[w], [ctl[w] EXCEPT !.at = "submit", !.todo = @ \ {i}])
        BY <1>15 DEF SaveSubmit
    <2> DEFINE next == [ctl[w] EXCEPT !.at = "submit", !.todo = @ \ {i}]
               m == mem[w]
    <2>2. next \in ControlRecords /\ next.at = "submit" /\ ctl[w].at = "saveSubmit"
        BY <1>0, <1>15 DEF SaveSubmit, ControlRecords, Labels
    <2>3. next.at \in Plain \ {"idle"}
        BY <2>2 DEF Plain, Labels
    <2>4. Saveable(w, m)
        BY PlaceTypes
    <2>5. Save(w, m, next)
        BY <2>1
    <2> HIDE DEF next, m
    <2> QED BY <1>1, <2>2, <2>3, <2>4, <2>5, SaveKeeps DEF Labels
<1>16. CASE StartWaiting(w)
    <2> DEFINE next == [ctl[w] EXCEPT
                !.at = "wait",
                !.todo = {i \in ctl[w].wave :
                            mem[w].items[i].status \notin SettledStatuses}]
    <2>1. next \in ControlRecords /\ next.at = "wait"
        BY <1>0, PlaceTypes DEF At, ControlRecords, Labels
    <2>2. ctl[w].at = "submit" /\ SaveAs(w, "WAITING_PVE", mem[w], next)
        BY <1>16 DEF StartWaiting
    <2>3. next.at \in Plain \ {"idle"}
        BY <2>1 DEF Plain, Labels
    <2> HIDE DEF next
    <2> QED BY <1>1, <1>2, <2>1, <2>2, <2>3, SaveAsKeeps DEF Labels
<1>17. CASE TaskEnded(w)
    <2>1. PICK i \in ctl[w].todo : Save(w, WithItem(mem[w], i, "VERIFYING"), [ctl[w] EXCEPT !.at = "result"])
        BY <1>17 DEF TaskEnded
    <2> DEFINE next == [ctl[w] EXCEPT !.at = "result"]
               m == WithItem(mem[w], i, "VERIFYING")
    <2>2. next \in ControlRecords /\ next.at = "result" /\ ctl[w].at = "wait"
        BY <1>0, <1>17 DEF TaskEnded, ControlRecords, Labels
    <2>3. next.at \in Plain \ {"idle"}
        BY <2>2 DEF Plain, Labels
    <2>4. Saveable(w, m)
        BY <1>0, <1>2, ItemMarked DEF Saveable
    <2>5. Save(w, m, next)
        BY <2>1
    <2> HIDE DEF next, m
    <2> QED BY <1>1, <2>2, <2>3, <2>4, <2>5, SaveKeeps DEF Labels
<1>18. CASE Result(w)
    <2>1. PICK i \in ctl[w].todo, status \in {"SUCCEEDED", "FAILED"} :
            Apply(w, i, status, [ctl[w] EXCEPT !.at = "saveResult"])
        BY <1>18 DEF Result
    <2> DEFINE next == [ctl[w] EXCEPT !.at = "saveResult"]
    <2>2. next \in ControlRecords /\ next.at = "saveResult" /\ ctl[w].at = "result"
        BY <1>0, <1>18 DEF Result, ControlRecords, Labels
    <2>3. next.at \in Plain \ {"idle"}
        BY <2>2 DEF Plain, Labels
    <2> HIDE DEF next
    <2> QED BY <1>0, <1>1, <1>2, <2>1, <2>2, <2>3, ApplyKeeps DEF Labels, next
<1>19. CASE Heartbeat(w)
    <2> DEFINE l == [lease[mem[w].op] EXCEPT !.until = "ahead"]
    <2>1. ctl[w].at = "wait" /\ mem[w].op \in Ops
        BY <1>19 DEF Heartbeat, CopyInv, TypeOK, Working
    <2>2. lease' = [lease EXCEPT ![mem[w].op] = l]
        BY <1>19 DEF Heartbeat
    <2>3. l \in LeaseRecords
        BY <2>1 DEF CopyInv, TypeOK, LeaseRecords
    <2>4. /\ UNCHANGED <<row, items, seats, pve, stops, stalls, faults>>
          /\ mem' = [mem EXCEPT ![w] = mem[w]]
          /\ ctl' = [ctl EXCEPT ![w] = ctl[w]]
        BY <1>19 DEF Heartbeat, budgets, CopyInv, TypeOK
    <2> HIDE DEF l
    <2>5. lease' \in [Ops -> LeaseRecords]
        BY <2>1, <2>2, <2>3 DEF CopyInv, TypeOK
    <2>6. Proper(ctl[w], mem[w])
        BY <1>0, <2>1 DEF Proper
    <2> QED BY <1>1, <2>1, <2>4, <2>5, <2>6, PlaceTypes, PrivateStepKeeps DEF Labels, TypeOK
<1>20. CASE WaitFails(w)
    <2> DEFINE next == [ctl[w] EXCEPT !.at = "unresolved"]
    <2>1. ctl[w].at = "wait" /\ ctl' = [ctl EXCEPT ![w] = next]
        BY <1>20 DEF WaitFails, CopyInv, TypeOK
    <2>2. Proper(next, mem[w])
        BY <1>0 DEF Proper, ControlRecords, Labels
    <2>3. /\ UNCHANGED <<row, items, lease, seats, pve, stops, stalls>>
          /\ mem' = [mem EXCEPT ![w] = mem[w]]
        BY <1>20 DEF WaitFails, stored, CopyInv, TypeOK
    <2>4. TypeOK => faults' \in Nat
        BY <1>20 DEF WaitFails, Fault, TypeOK
    <2> HIDE DEF next
    <2> QED BY <1>1, <2>1, <2>2, <2>3, <2>4, PlaceTypes, PrivateStepKeeps DEF Labels, TypeOK
<1>21. CASE Unresolved(w)
    <2>1. PICK i \in ctl[w].todo :
            Apply(w, i, "UNKNOWN", [ctl[w] EXCEPT !.at = "saveResult"])
        BY <1>21 DEF Unresolved
    <2> DEFINE next == [ctl[w] EXCEPT !.at = "saveResult"]
    <2>2. next \in ControlRecords /\ next.at = "saveResult" /\ ctl[w].at = "unresolved"
        BY <1>0, <1>21 DEF Unresolved, ControlRecords, Labels
    <2>3. next.at \in Plain \ {"idle"}
        BY <2>2 DEF Plain, Labels
    <2> HIDE DEF next
    <2> QED BY <1>0, <1>1, <1>2, <2>1, <2>2, <2>3, ApplyKeeps DEF Labels, next
<1>22. CASE SaveResult(w)
    <2>1. PICK i \in ctl[w].todo : Save(w, mem[w], [ctl[w] EXCEPT !.at = "wait", !.todo = @ \ {i}])
        BY <1>22 DEF SaveResult
    <2> DEFINE next == [ctl[w] EXCEPT !.at = "wait", !.todo = @ \ {i}]
               m == mem[w]
    <2>2. next \in ControlRecords /\ next.at = "wait" /\ ctl[w].at = "saveResult"
        BY <1>0, <1>22 DEF SaveResult, ControlRecords, Labels
    <2>3. next.at \in Plain \ {"idle"}
        BY <2>2 DEF Plain, Labels
    <2>4. Saveable(w, m)
        BY PlaceTypes
    <2>5. Save(w, m, next)
        BY <2>1
    <2> HIDE DEF next, m
    <2> QED BY <1>1, <2>2, <2>3, <2>4, <2>5, SaveKeeps DEF Labels
<1>23. CASE EndWave(w)
    <2> DEFINE next == [At("wave") EXCEPT !.rest = ctl[w].rest]
    <2>1. ctl[w].at = "wait" /\ ctl' = [ctl EXCEPT ![w] = next]
        BY <1>23 DEF EndWave
    <2>2. next \in ControlRecords /\ next.at = "wave"
        BY <1>0 DEF At, ControlRecords, Labels
    <2>3. /\ UNCHANGED <<row, items, lease, seats, pve, stops, stalls, faults>>
          /\ mem' = [mem EXCEPT ![w] = mem[w]]
        BY <1>23 DEF EndWave, stored, budgets, CopyInv, TypeOK
    <2> HIDE DEF next
    <2>4. Proper(next, mem[w])
        BY <2>2 DEF Proper
    <2> QED BY <1>1, <2>1, <2>3, <2>4, PlaceTypes, PrivateStepKeeps DEF Labels, TypeOK
<1>24. CASE Verify(w)
    <2> DEFINE next == At("finish")
    <2>1. next \in ControlRecords /\ next.at = "finish"
        BY <1>0, PlaceTypes DEF At, ControlRecords, Labels
    <2>2. ctl[w].at = "wave" /\ SaveAs(w, "VERIFYING", mem[w], next)
        BY <1>24 DEF Verify
    <2>3. next.at \in Plain \ {"idle"}
        BY <2>1 DEF Plain, Labels
    <2> HIDE DEF next
    <2> QED BY <1>1, <1>2, <2>1, <2>2, <2>3, SaveAsKeeps DEF Labels
<1>25. CASE Finish(w)
    <2> DEFINE status == FinalStatus({mem[w].items[i].status : i \in ItemsOf(mem[w].op)})
    <2>1. status \in OperationStatuses
        BY DEF FinalStatus, OperationStatuses
    <2>2. ctl[w].at = "finish" /\ SaveAs(w, status, mem[w], Idle)
        BY <1>25 DEF Finish
    <2>3. Idle \in ControlRecords /\ Idle.at \in Plain
        BY ControlTypes DEF Plain, Labels
    <2> HIDE DEF status
    <2> QED BY <1>1, <2>1, <2>2, <2>3, SaveAsKeeps DEF Labels
<1> QED
    BY <1>3, <1>4, <1>5, <1>6, <1>7, <1>8, <1>9, <1>10, <1>11, <1>12, <1>13, <1>14,
       <1>15, <1>16, <1>17, <1>18, <1>19, <1>20, <1>21, <1>22, <1>23, <1>24, <1>25
    DEF Execute

\* fail: one last commit, or none.
LEMMA FailKeeps ==
    ASSUME CopyInv, NEW w \in Workers, Fail(w)
    PROVE  CopyInv' /\ KeepsUpids
<1> DEFINE m == FailedMemory(mem[w])
<1>1. Loaded(w) /\ ctl[w].at = "fail"
    BY DEF Fail, Loaded, Working
<1>2. mem[w] \in MemoryRecords /\ mem[w].items \in [Items -> ItemRecords]
    BY PlaceTypes
<1>3. Saveable(w, m)
    <2> DEFINE its == [i \in Items |-> IF mem[w].items[i].status \in OpenStatuses
                                       THEN [mem[w].items[i] EXCEPT !.status = "UNKNOWN"]
                                       ELSE mem[w].items[i]]
               st == IF Terminal(mem[w].status) THEN mem[w].status ELSE "FAILED"
    <2>1. /\ its \in [Items -> ItemRecords]
          /\ \A i \in Items : its[i].upid = mem[w].items[i].upid
        BY <1>2 DEF ItemRecords, ItemStatuses
    <2>2. st \in OperationStatuses
        BY <1>2 DEF MemoryRecords, OperationStatuses
    <2>3. m = [mem[w] EXCEPT !.status = st, !.items = its]
        BY DEF FailedMemory
    <2> HIDE DEF its, st, m
    <2>4. m \in MemoryRecords /\ m.op = mem[w].op /\ m.version = mem[w].version
          /\ m.items = its
        BY <1>2, <2>1, <2>2, <2>3 DEF MemoryRecords
    <2> QED BY <2>1, <2>4 DEF Saveable
<1>4. /\ ctl' = [ctl EXCEPT ![w] = Idle]
      /\ mem' = [mem EXCEPT ![w] = NoMemory]
      /\ UNCHANGED <<seats, pve, stops, stalls>>
      /\ faults' \in Nat
    BY DEF Fail, Fault, CopyInv, TypeOK
<1>5. CASE Current(m) /\ Commit(m)
    <2>1. Idle \in ControlRecords /\ Idle.at = "idle" /\ Idle.at \in Plain
          /\ NoMemory \in MemoryRecords
        BY ControlTypes DEF Plain, Labels
    <2> HIDE DEF m
    <2> QED BY <1>1, <1>3, <1>4, <1>5, <2>1, CommitKeeps
<1>6. CASE UNCHANGED <<row, items, lease>>
    <2>1. TypeOK'
        BY <1>4, <1>6, ControlTypes DEF CopyInv, TypeOK, Working
    <2>2. CopyIsNotAhead' /\ CopyKnowsUpids' /\ SubmitsWithoutUpid'
        BY <1>4, <1>6, ControlTypes
        DEF CopyInv, CopyIsNotAhead, CopyKnowsUpids, SubmitsWithoutUpid, TypeOK,
            Loaded, Working, ItemsOf
    <2> QED BY <1>6, <2>1, <2>2 DEF CopyInv, KeepsUpids
<1> QED BY <1>5, <1>6 DEF Fail

\* Every step keeps the invariant and every stored UPID.
LEMMA NextKeeps == CopyInv /\ [Next]_vars => CopyInv' /\ KeepsUpids
<1> SUFFICES ASSUME CopyInv, [Next]_vars PROVE CopyInv' /\ KeepsUpids
    OBVIOUS
<1>1. CASE \E w \in Workers : Execute(w)
    BY <1>1, ExecuteKeeps
<1>2. CASE \E w \in Workers : Fail(w)
    BY <1>2, FailKeeps
<1>3. CASE \E w \in Workers :
            \/ \E o \in Ops : Claim(w, o)
            \/ LoadRow(w) \/ LoadItems(w) \/ LoadFails(w) \/ Stop(w)
    BY <1>3, OutsideKeeps
<1>4. CASE \/ \E w \in Workers : Poll(w)
           \/ \E o \in Ops : LeaseLapses(o) \/ LeaseExpires(o)
           \/ \E r \in DOMAIN pve : PveAnswers(r)
           \/ UNCHANGED vars
    BY <1>4, EnvironmentKeeps
<1> QED BY <1>1, <1>2, <1>3, <1>4 DEF Next, Step

\* The inductive invariant holds in every reachable state.
THEOREM CopyInvariance == Spec => []CopyInv
<1>1. CopyInv /\ [Next]_vars => CopyInv'
    BY NextKeeps
<1> QED BY <1>1, InitCopyInv, PTL DEF Spec

\* Type correctness of every variable, for every value of the constants.
THEOREM TypeCorrectness == Spec => []TypeOK
<1>1. CopyInv => TypeOK
    BY DEF CopyInv
<1> QED BY <1>1, CopyInvariance, PTL

\* A stored UPID never changes (runner.go 248-252), for any number of workers,
\* operations, items, crashes, stalled workers and store errors.
THEOREM UpidStability == Spec => UpidIsStable
<1>1. CopyInv /\ [Next]_vars
        => [\A i \in Items : items[i].upid # NoUPID => items'[i].upid = items[i].upid]_vars
    BY NextKeeps DEF KeepsUpids
<1> QED BY <1>1, CopyInvariance, PTL DEF Spec, UpidIsStable
-----------------------------------------------------------------------------
(* The record of an operation.                                               *)

\* The requests of PVE only grow in number, and the end of a task is final.
Grows(p, q) ==
    /\ DOMAIN p \subseteq DOMAIN q
    /\ \A r \in DOMAIN p :
        /\ q[r].item = p[r].item
        /\ p[r].state \in {"ok", "failed"} => q[r].state = p[r].state

\* A copy of another status and other items, for the same operation.
LEMMA OneItem ==
    ASSUME NEW m \in MemoryRecords, NEW i \in Items, NEW status \in ItemStatuses
    PROVE  LET k == WithItem(m, i, status)
           IN  /\ k \in MemoryRecords
               /\ k.op = m.op /\ k.status = m.status /\ k.version = m.version
               /\ k.items[i] = [status |-> status, upid |-> m.items[i].upid]
               /\ \A j \in Items : j # i => k.items[j] = m.items[j]
<1> DEFINE k == WithItem(m, i, status)
           r == [status |-> status, upid |-> m.items[i].upid]
<1>1. r \in ItemRecords /\ r = [m.items[i] EXCEPT !.status = status]
    BY DEF MemoryRecords, ItemRecords
<1>2. k = [m EXCEPT !.items[i] = r]
    BY <1>1 DEF WithItem, MemoryRecords
<1>3. k.status = m.status
    BY <1>2 DEF MemoryRecords
<1> HIDE DEF r, k
<1>4. k.items[i] = r /\ k \in MemoryRecords /\ k.op = m.op /\ k.version = m.version
      /\ \A j \in Items : j # i => k.items[j] = m.items[j]
    BY <1>1, <1>2, ItemReplaced
<1> QED BY <1>3, <1>4 DEF r, k

\* The first item of a loop is one.
LEMMA OneFirst ==
    ASSUME NEW S \in SUBSET Items, NEW i \in Items, NEW j \in Items,
           IsFirst(i, S), IsFirst(j, S)
    PROVE  i = j
BY ItemsAssumption DEF IsFirst

LEMMA ForwardTrans ==
    ASSUME NEW f, NEW g, NEW h, Promise!Forward(f, g), Promise!Forward(g, h)
    PROVE  Promise!Forward(f, h)
BY DEF Promise!Forward, Promise!ResultStatuses

\* What is true of a task stays true.
LEMMA TruthStays ==
    ASSUME NEW p, NEW q, Grows(p, q), NEW i, NEW f, Truthful(p, i, f)
    PROVE  Truthful(q, i, f)
BY DEF Grows, Truthful, NoUPID

LEMMA SoundStays ==
    ASSUME NEW p, NEW q, Grows(p, q), NEW o, NEW s, NEW its, NEW jts,
           \A i \in ItemsOf(o) : jts[i] = its[i],
           Sound(p, o, s, its)
    PROVE  Sound(q, o, s, jts)
BY TruthStays DEF Sound

\* Whatever happens outside leaves a copy of the stored version as good as it was.
LEMMA FitsStay ==
    ASSUME NEW p, NEW q, Grows(p, q), NEW s, NEW its, NEW jts,
           NEW m, NEW c \in ControlRecords,
           \A i \in ItemsOf(m.op) : jts[i] = its[i],
           CopyFits(p, s, its, m, c)
    PROVE  CopyFits(q, s, jts, m, c)
<1>1. MaySave(q, s, jts, m)
    BY SoundStays DEF CopyFits, MaySave
<1>2. c.at \in {"wave"} \cup InWave => PveFits(q, m, c)
    <2> SUFFICES ASSUME c.at \in {"wave"} \cup InWave PROVE PveFits(q, m, c)
        OBVIOUS
    <2>1. PveFits(p, m, c) /\ SetsFit(m, c) /\ ItemsFit(m, c) /\ Sound(p, m.op, m.status, m.items)
        BY DEF CopyFits, LoopFits, MaySave
    <2>2. ASSUME c.at = "result", NEW i \in c.todo, IsFirst(i, c.todo)
          PROVE  q[m.items[i].upid].state \in {"ok", "failed"}
        <3>1. i \in ItemsOf(m.op) /\ m.items[i].upid # NoUPID
            BY <2>1, <2>2 DEF SetsFit, ItemsFit, Tracked, InWave, InWait, Handled
        <3>2. m.items[i].upid \in DOMAIN p
            BY <2>1, <3>1 DEF Sound, Truthful
        <3> QED BY <2>1, <2>2, <3>2 DEF PveFits, Grows
    <2> QED BY <2>1, <2>2 DEF PveFits, Grows
<1> QED BY <1>1, <1>2 DEF CopyFits, LoopFits, InStep
-----------------------------------------------------------------------------
(* Copies and places.  k is m with another record r for item i ...           *)
Replaces(m, k, i, r) ==
    /\ k.op = m.op /\ k.status = m.status
    /\ k.items[i] = r
    /\ \A j \in Items : j # i => k.items[j] = m.items[j]

\* ... or with another status.
Restates(m, k, status) == k.op = m.op /\ k.items = m.items /\ k.status = status

\* The place n has the same sets as c, but for the items of the loop.
Moves(c, n, label, todo) ==
    /\ n.at = label /\ n.todo = todo
    /\ n.rest = c.rest /\ n.wave = c.wave

\* A copy that may be saved is what fail needs.
LEMMA FailingFits ==
    ASSUME NEW p, NEW s, NEW its, NEW m, MaySave(p, s, its, m)
    PROVE  CopyFits(p, s, its, m, Failing)
BY ControlTypes DEF CopyFits, StatusFits, FreshFits, LoopFits, InStep, Unsaved, InWave, InSubmit, InWait

\* Once it is saved, the copy is what the store has.
LEMMA SavedMaySave ==
    ASSUME NEW p, NEW m, Sound(p, m.op, m.status, m.items)
    PROVE  MaySave(p, m.status, m.items, m)
BY DEF MaySave, CanTransition, Promise!Forward

\* A wave works on an item without a result.
LEMMA WorkMaySave ==
    ASSUME NEW p, NEW s, NEW its, NEW m \in MemoryRecords, NEW k \in MemoryRecords,
           NEW i \in Items, NEW r, Replaces(m, k, i, r),
           MaySave(p, s, its, m),
           m.status = s, m.status \in {"RUNNING", "WAITING_PVE"},
           Promise!Forward(m.items[i], r),
           Truthful(p, i, r)
    PROVE  MaySave(p, s, its, k)
<1>1. Sound(p, k.op, k.status, k.items)
    BY DEF Sound, MaySave, Replaces, ItemsOf, DoneStatuses, TerminalStatuses
<1>2. ASSUME NEW j \in ItemsOf(k.op) PROVE Promise!Forward(its[j], k.items[j])
    <2>1. j \in ItemsOf(m.op) /\ j \in Items /\ Promise!Forward(its[j], m.items[j])
        BY <1>2 DEF MaySave, Replaces, ItemsOf
    <2>2. CASE j = i
        BY <2>1, <2>2, ForwardTrans DEF Replaces
    <2>3. CASE j # i
        BY <2>1, <2>3 DEF Replaces
    <2> QED BY <2>2, <2>3
<1>3. ~Terminal(s) /\ CanTransition(s, k.status)
    BY DEF Terminal, TerminalStatuses, CanTransition, Replaces
<1> QED BY <1>1, <1>2, <1>3 DEF MaySave

\* The wave loop starts, on a copy of whatever items.
LEMMA WaveLoopFits ==
    ASSUME NEW p, NEW m \in MemoryRecords, NEW n \in ControlRecords,
           n.at = "wave", n.rest = Pending(m)
    PROVE  LoopFits(p, m, n)
<1>1. SetsFit(m, n)
    BY DEF SetsFit, Pending, InWave, InSubmit, InWait
<1>2. ASSUME NEW i \in ItemsOf(m.op)
      PROVE  /\ Ahead(n, i) => Workable(m.items[i])
             /\ Behind(n, i) => m.items[i].status \in SettledStatuses
    <2>1. Ahead(n, i) <=> i \in Pending(m)
        BY DEF Ahead, InSubmit, InWait
    <2>2. Behind(n, i) <=> i \notin Pending(m)
        BY DEF Behind, InSubmit, InWait
    <2> QED BY <2>1, <2>2 DEF Pending, Workable, SettledStatuses, Promise!ResultStatuses
<1>3. ItemsFit(m, n) /\ PveFits(p, m, n)
    BY <1>2 DEF ItemsFit, PveFits, InSubmit, InWait
<1> QED BY <1>1, <1>3 DEF LoopFits

\* Another status that is not done yet.
LEMMA RestateMaySave ==
    ASSUME NEW p, NEW s, NEW its, NEW m \in MemoryRecords, NEW k \in MemoryRecords,
           NEW status, Restates(m, k, status),
           MaySave(p, s, its, m), m.status = s, ~Terminal(s),
           CanTransition(s, status),
           status \notin DoneStatuses \cup CancelStatuses
    PROVE  MaySave(p, s, its, k)
<1>1. Sound(p, k.op, k.status, k.items)
    BY DEF Sound, MaySave, Restates, DoneStatuses, TerminalStatuses
<1> QED BY <1>1 DEF MaySave, Restates
-----------------------------------------------------------------------------
(* The actions of execute, one by one.                                       *)

LEMMA BeginFits ==
    ASSUME NEW p, NEW s \in OperationStatuses, NEW its,
           NEW m \in MemoryRecords, NEW c \in ControlRecords,
           Resume(m) \in ControlRecords,
           CopyFits(p, s, its, m, c), c.at = "begin", ~Terminal(s)
    PROVE  CopyFits(p, s, its, m, Resume(m))
<1> DEFINE n == Resume(m)
<1>0. /\ MaySave(p, s, its, m) /\ m.status = s /\ m.status \notin CancelStatuses
      /\ \A i \in ItemsOf(m.op) : m.items[i] = its[i]
    BY DEF CopyFits, StatusFits, MaySave, Sound, InStep, Unsaved, InSubmit
<1>1. CASE m.status = "QUEUED"
    <2>1. n.at = "validate" /\ \A i \in ItemsOf(m.op) : m.items[i] = NewItem
        BY <1>1 DEF Resume, At, CopyFits, FreshFits
    <2> HIDE DEF n
    <2>2. StatusFits(s, m, n) /\ FreshFits(m, n) /\ LoopFits(p, m, n)
        BY <1>0, <1>1, <2>1 DEF StatusFits, FreshFits, LoopFits, InWave, InSubmit, InWait
    <2> QED BY <1>0, <2>2 DEF CopyFits, InStep, n
<1>2. CASE m.status = "VALIDATING"
    <2>1. /\ n.at = "check" /\ n.todo \subseteq ItemsOf(m.op)
          /\ \A i \in ItemsOf(m.op) : m.items[i] = NewItem
        BY <1>2 DEF Resume, At, Unready, CopyFits, FreshFits
    <2> HIDE DEF n
    <2>2. StatusFits(s, m, n) /\ FreshFits(m, n) /\ LoopFits(p, m, n)
        BY <1>0, <1>2, <2>1 DEF StatusFits, FreshFits, LoopFits, InWave, InSubmit, InWait
    <2> QED BY <1>0, <2>2 DEF CopyFits, InStep, n
<1>3. CASE m.status = "VERIFYING"
    <2>1. n.at = "finish"
        BY <1>3 DEF Resume, At
    <2> HIDE DEF n
    <2>2. StatusFits(s, m, n) /\ FreshFits(m, n) /\ LoopFits(p, m, n)
        BY <1>0, <1>3, <2>1 DEF StatusFits, FreshFits, LoopFits, InWave, InSubmit, InWait
    <2> QED BY <1>0, <2>2 DEF CopyFits, InStep, n
<1>4. CASE m.status \notin {"QUEUED", "VALIDATING", "VERIFYING"}
    <2>1. n.at = "wave" /\ n.rest = Pending(m)
        BY <1>4 DEF Resume, At
    <2>2. m.status \in {"RUNNING", "WAITING_PVE"}
        BY <1>0, <1>4 DEF OperationStatuses, Terminal, TerminalStatuses, CancelStatuses
    <2> HIDE DEF n
    <2>3. n \in ControlRecords
        BY DEF n
    <2>4. LoopFits(p, m, n)
        BY <2>1, <2>3, WaveLoopFits
    <2>5. StatusFits(s, m, n) /\ FreshFits(m, n)
        BY <1>0, <2>1, <2>2 DEF StatusFits, FreshFits, InWave, InSubmit, InWait
    <2> QED BY <1>0, <2>4, <2>5 DEF CopyFits, InStep, n
<1> QED BY <1>1, <1>2, <1>3, <1>4

LEMMA ValidateFits ==
    ASSUME NEW p, NEW s, NEW its,
           NEW m \in MemoryRecords, NEW c, NEW k \in MemoryRecords, NEW n,
           CopyFits(p, s, its, m, c), c.at = "validate",
           Restates(m, k, "VALIDATING"), n.at = "check", n.todo = Unready(m)
    PROVE  MaySave(p, s, its, k) /\ CopyFits(p, k.status, k.items, k, n)
<1>1. MaySave(p, s, its, m) /\ m.status = s /\ s = "QUEUED"
      /\ \A i \in ItemsOf(m.op) : m.items[i] = NewItem
    BY DEF CopyFits, StatusFits, FreshFits
<1>2. MaySave(p, s, its, k)
    <2>1. CanTransition(s, "VALIDATING") /\ ~Terminal(s)
        BY <1>1 DEF CanTransition, OperationTransitions, OperationStatuses, Terminal, TerminalStatuses
    <2> QED BY <1>1, <2>1, RestateMaySave DEF DoneStatuses, CancelStatuses, TerminalStatuses
<1>3. MaySave(p, k.status, k.items, k)
    BY <1>2, SavedMaySave DEF MaySave
<1>4. StatusFits(k.status, k, n) /\ FreshFits(k, n) /\ LoopFits(p, k, n)
    BY <1>1 DEF StatusFits, FreshFits, LoopFits, Restates, Unready, InWave, InSubmit, InWait
<1> QED BY <1>2, <1>3, <1>4 DEF CopyFits, InStep

LEMMA CheckFits ==
    ASSUME NEW p, NEW s, NEW its,
           NEW m \in MemoryRecords, NEW c, NEW k \in MemoryRecords, NEW n,
           CopyFits(p, s, its, m, c), c.at = "check",
           NEW i \in Items, NEW r \in ItemRecords, Replaces(m, k, i, r),
           r = [status |-> "FAILED", upid |-> m.items[i].upid],
           n.at = "check", n.todo \subseteq c.todo
    PROVE  CopyFits(p, s, its, k, n)
<1>1. /\ MaySave(p, s, its, m) /\ m.status = s /\ s = "VALIDATING"
      /\ \A j \in ItemsOf(m.op) : m.items[j] \in {NewItem, UnreadyItem}
      /\ c.todo \subseteq ItemsOf(m.op)
    BY DEF CopyFits, StatusFits, FreshFits
<1>2. i \in ItemsOf(m.op) => r = UnreadyItem /\ Promise!Forward(m.items[i], r)
    BY <1>1 DEF NewItem, UnreadyItem, Promise!Forward, Promise!ResultStatuses, NoUPID
<1>3. \A j \in ItemsOf(k.op) : k.items[j] \in {NewItem, UnreadyItem}
    BY <1>1, <1>2 DEF Replaces, ItemsOf
<1>4. Sound(p, k.op, k.status, k.items)
    <2>1. \A j \in ItemsOf(k.op) : Truthful(p, j, k.items[j])
        BY <1>3 DEF Truthful, NewItem, UnreadyItem, NoUPID
    <2> QED BY <1>1, <2>1 DEF Sound, Replaces, CancelStatuses, DoneStatuses, TerminalStatuses
<1>5. ASSUME NEW j \in ItemsOf(k.op) PROVE Promise!Forward(its[j], k.items[j])
    <2>1. j \in ItemsOf(m.op) /\ j \in Items /\ Promise!Forward(its[j], m.items[j])
        BY <1>1, <1>5 DEF MaySave, Replaces, ItemsOf
    <2>2. CASE j = i
        BY <1>2, <2>1, <2>2, ForwardTrans DEF Replaces
    <2>3. CASE j # i
        BY <2>1, <2>2 DEF Replaces
    <2> QED BY <2>2, <2>3
<1>6. MaySave(p, s, its, k)
    BY <1>1, <1>4, <1>5 DEF MaySave, Terminal, TerminalStatuses, CanTransition, Replaces
<1>7. StatusFits(s, k, n) /\ FreshFits(k, n) /\ LoopFits(p, k, n)
    <2>1. k.op = m.op /\ k.status = m.status
        BY DEF Replaces
    <2>2. n.todo \subseteq ItemsOf(k.op)
        BY <1>1, <2>1
    <2> QED BY <1>1, <1>3, <2>1, <2>2 DEF StatusFits, FreshFits, LoopFits, InWave, InSubmit, InWait
<1>8. InStep(its, k, n)
    BY DEF InStep, Unsaved
<1> QED BY <1>6, <1>7, <1>8 DEF CopyFits

LEMMA StartRunningFits ==
    ASSUME NEW p, NEW s, NEW its,
           NEW m \in MemoryRecords, NEW c, NEW k \in MemoryRecords, NEW n \in ControlRecords,
           CopyFits(p, s, its, m, c), c.at = "check",
           Restates(m, k, "RUNNING"),
           n.at = "wave", n.rest = Pending(m)
    PROVE  MaySave(p, s, its, k) /\ CopyFits(p, k.status, k.items, k, n)
<1>1. MaySave(p, s, its, m) /\ m.status = s /\ s = "VALIDATING"
    BY DEF CopyFits, StatusFits
<1>2. MaySave(p, s, its, k)
    <2>1. CanTransition(s, "RUNNING") /\ ~Terminal(s)
        BY <1>1 DEF CanTransition, OperationTransitions, OperationStatuses, Terminal, TerminalStatuses
    <2> QED BY <1>1, <2>1, RestateMaySave DEF DoneStatuses, CancelStatuses, TerminalStatuses
<1>3. MaySave(p, k.status, k.items, k)
    BY <1>2, SavedMaySave DEF MaySave
<1>4. n.rest = Pending(k)
    BY DEF Pending, Restates
<1>5. StatusFits(k.status, k, n) /\ FreshFits(k, n)
    BY <1>1 DEF StatusFits, FreshFits, Restates, InWave, InSubmit, InWait
<1> QED BY <1>2, <1>3, <1>4, <1>5, WaveLoopFits DEF CopyFits, InStep

\* What CopyFits says inside the wave loop ...
LEMMA WaveFacts ==
    ASSUME NEW p, NEW s, NEW its, NEW m, NEW c,
           CopyFits(p, s, its, m, c), c.at \in {"wave"} \cup InWave
    PROVE  /\ MaySave(p, s, its, m)
           /\ m.status = s /\ m.status \in {"RUNNING", "WAITING_PVE"} /\ ~Terminal(s)
           /\ SetsFit(m, c) /\ ItemsFit(m, c) /\ PveFits(p, m, c)
           /\ InStep(its, m, c)
BY DEF CopyFits, StatusFits, LoopFits, InWave, InSubmit, InWait, Terminal, TerminalStatuses

\* ... and what it takes.
LEMMA WaveFits ==
    ASSUME NEW p, NEW s, NEW its, NEW k, NEW n,
           n.at \in {"wave"} \cup InWave,
           MaySave(p, s, its, k), k.status = s, s \in {"RUNNING", "WAITING_PVE"},
           SetsFit(k, n), ItemsFit(k, n), PveFits(p, k, n), InStep(its, k, n)
    PROVE  CopyFits(p, s, its, k, n)
BY DEF CopyFits, StatusFits, FreshFits, LoopFits, InWave, InSubmit, InWait

LEMMA StartWaveFits ==
    ASSUME NEW p, NEW s, NEW its, NEW m \in MemoryRecords, NEW c, NEW n,
           CopyFits(p, s, its, m, c), c.at = "wave",
           n.at = "mark", n.wave \subseteq c.rest, n.rest = c.rest \ n.wave,
           n.todo = {i \in n.wave : m.items[i].status \in {"QUEUED", "RUNNING"}}
    PROVE  CopyFits(p, s, its, m, n)
<1>1. /\ MaySave(p, s, its, m) /\ m.status = s /\ s \in {"RUNNING", "WAITING_PVE"}
      /\ SetsFit(m, c) /\ ItemsFit(m, c) /\ InStep(its, m, c)
    BY WaveFacts
<1>2. SetsFit(m, n)
    BY <1>1 DEF SetsFit
<1>3. ItemsFit(m, n) /\ PveFits(p, m, n)
    BY <1>1, <1>2 DEF ItemsFit, Workable, SetsFit, PveFits, Ahead, Behind, InWave, InSubmit, InWait
<1>4. InStep(its, m, n)
    BY <1>1 DEF InStep, Unsaved, ItemsFit, Ahead, InSubmit
<1> QED BY <1>1, <1>2, <1>3, <1>4, WaveFits DEF InWave

LEMMA MarkFits ==
    ASSUME NEW p, NEW s, NEW its,
           NEW m \in MemoryRecords, NEW c, NEW k \in MemoryRecords, NEW n,
           CopyFits(p, s, its, m, c), c.at = "mark",
           NEW i \in Items, i \in c.todo, NEW r, Replaces(m, k, i, r),
           r = [status |-> "RUNNING", upid |-> m.items[i].upid],
           Moves(c, n, "mark", c.todo \ {i})
    PROVE  CopyFits(p, s, its, k, n)
<1>1. /\ MaySave(p, s, its, m) /\ m.status = s /\ s \in {"RUNNING", "WAITING_PVE"}
      /\ SetsFit(m, c) /\ ItemsFit(m, c) /\ InStep(its, m, c)
    BY WaveFacts DEF InWave
<1>2. i \in ItemsOf(m.op) /\ i \in c.wave /\ i \notin c.rest
    BY <1>1 DEF SetsFit, InWave
<1>3. m.items[i].status \in {"QUEUED", "RUNNING"}
    BY <1>1 DEF ItemsFit
<1>4. Truthful(p, i, m.items[i])
    BY <1>1, <1>2 DEF MaySave, Sound
<1>5. MaySave(p, s, its, k)
    BY <1>1, <1>3, <1>4, WorkMaySave
    DEF Truthful, Promise!Forward, Promise!ResultStatuses, NoUPID
<1>6. SetsFit(k, n)
    BY <1>1 DEF SetsFit, Moves, Replaces, InWave
<1>7. ItemsFit(k, n) /\ PveFits(p, k, n)
    BY <1>1, <1>2 DEF ItemsFit, Workable, SetsFit, PveFits, Ahead, Behind, Moves, Replaces, ItemsOf,
                      Promise!ResultStatuses, InWave, InSubmit, InWait
<1>8. InStep(its, k, n)
    BY <1>1, <1>2 DEF InStep, Unsaved, Moves, Replaces, ItemsOf, InSubmit
<1> QED BY <1>1, <1>5, <1>6, <1>7, <1>8, WaveFits DEF Moves, Replaces, InWave

LEMMA SaveWaveFits ==
    ASSUME NEW p, NEW s, NEW its,
           NEW m \in MemoryRecords, NEW c, NEW k \in MemoryRecords, NEW n,
           CopyFits(p, s, its, m, c), c.at = "mark", c.todo = {},
           Restates(m, k, "RUNNING"), CanTransition(s, "RUNNING"),
           Moves(c, n, "submit", c.wave)
    PROVE  /\ MaySave(p, s, its, k) /\ CopyFits(p, k.status, k.items, k, n)
           /\ \A i \in n.todo : i \in ItemsOf(k.op) /\ k.items[i].status # "QUEUED"
<1>1. /\ MaySave(p, s, its, m) /\ m.status = s /\ ~Terminal(s)
      /\ SetsFit(m, c) /\ ItemsFit(m, c)
    BY WaveFacts DEF InWave
<1>2. MaySave(p, s, its, k)
    BY <1>1, RestateMaySave DEF DoneStatuses, CancelStatuses, TerminalStatuses
<1>3. MaySave(p, k.status, k.items, k)
    BY <1>2, SavedMaySave DEF MaySave
<1>4. SetsFit(k, n)
    BY <1>1 DEF SetsFit, Moves, Restates, InWave, InSubmit
<1>5. ItemsFit(k, n) /\ PveFits(p, k, n)
    BY <1>1 DEF ItemsFit, PveFits, Ahead, Behind, Moves, Restates, Handled,
                InWave, InSubmit, InWait
<1>6. \A i \in n.todo : i \in ItemsOf(k.op) /\ k.items[i].status # "QUEUED"
    BY <1>1 DEF SetsFit, ItemsFit, Moves, Restates, InWave
<1> QED BY <1>2, <1>3, <1>4, <1>5, <1>6, WaveFits DEF InStep, Moves, Restates, InWave, InSubmit

LEMMA TrackFits ==
    ASSUME NEW p, NEW s, NEW its,
           NEW m \in MemoryRecords, NEW c, NEW k \in MemoryRecords, NEW n,
           CopyFits(p, s, its, m, c), c.at = "submit",
           NEW i \in Items, i \in c.todo, m.items[i].upid # NoUPID,
           NEW r, Replaces(m, k, i, r),
           r = [status |-> "WAITING_PVE", upid |-> m.items[i].upid],
           Moves(c, n, "submit", c.todo \ {i})
    PROVE  CopyFits(p, s, its, k, n)
<1>1. /\ MaySave(p, s, its, m) /\ m.status = s /\ s \in {"RUNNING", "WAITING_PVE"}
      /\ SetsFit(m, c) /\ ItemsFit(m, c) /\ InStep(its, m, c)
    BY WaveFacts DEF InWave, InSubmit
<1>2. i \in ItemsOf(m.op) /\ i \in c.wave /\ i \notin c.rest
    BY <1>1 DEF SetsFit, InWave, InSubmit
<1>3. m.items[i].status \notin Promise!ResultStatuses
    BY <1>1, <1>2 DEF ItemsFit, Workable, Ahead, Handled, InSubmit
<1>4. Truthful(p, i, m.items[i])
    BY <1>1, <1>2 DEF MaySave, Sound
<1>5. MaySave(p, s, its, k)
    BY <1>1, <1>3, <1>4, WorkMaySave DEF Truthful, Promise!Forward, NoUPID
<1>6. SetsFit(k, n)
    BY <1>1 DEF SetsFit, Moves, Replaces, InWave, InSubmit
<1>7. ItemsFit(k, n) /\ PveFits(p, k, n)
    BY <1>1, <1>2 DEF ItemsFit, Workable, SetsFit, PveFits, Ahead, Behind, Handled, Moves, Replaces,
                      ItemsOf, Promise!ResultStatuses, InWave, InSubmit, InWait
<1>8. InStep(its, k, n)
    BY <1>1, <1>2 DEF InStep, Unsaved, Handled, Moves, Replaces, ItemsOf, InSubmit
<1> QED BY <1>1, <1>5, <1>6, <1>7, <1>8, WaveFits DEF Moves, Replaces, InWave, InSubmit

\* RenewForSubmit and WaitFails only move on.
LEMMA NextPlaceFits ==
    ASSUME NEW p, NEW s, NEW its, NEW m \in MemoryRecords, NEW c, NEW n,
           CopyFits(p, s, its, m, c),
           \/ c.at = "submit" /\ Moves(c, n, "send", c.todo)
           \/ c.at = "wait" /\ Moves(c, n, "unresolved", c.todo)
    PROVE  CopyFits(p, s, its, m, n)
<1>1. /\ MaySave(p, s, its, m) /\ m.status = s /\ s \in {"RUNNING", "WAITING_PVE"}
      /\ SetsFit(m, c) /\ ItemsFit(m, c) /\ InStep(its, m, c)
    BY WaveFacts DEF InWave, InSubmit, InWait
<1>2. SetsFit(m, n)
    BY <1>1 DEF SetsFit, Moves, InWave, InSubmit, InWait
<1>3. ItemsFit(m, n) /\ PveFits(p, m, n)
    BY <1>1 DEF ItemsFit, PveFits, Ahead, Behind, Handled, Moves, InWave, InSubmit, InWait
<1>4. InStep(its, m, n)
    BY <1>1 DEF InStep, Unsaved, Handled, Moves, InSubmit
<1> QED BY <1>1, <1>2, <1>3, <1>4, WaveFits DEF Moves, InWave, InSubmit, InWait

LEMMA SendFits ==
    ASSUME NEW p, NEW q, NEW s, NEW its, NEW m \in MemoryRecords,
           NEW c \in ControlRecords, NEW n, NEW i \in Items,
           CopyFits(p, s, its, m, c), c.at = "send", IsFirst(i, c.todo),
           Grows(p, q), n.call \in DOMAIN q, q[n.call].item = i,
           Moves(c, n, "reply", c.todo)
    PROVE  CopyFits(q, s, its, m, n)
<1>0. CopyFits(q, s, its, m, c)
    BY FitsStay
<1>1. /\ MaySave(q, s, its, m) /\ m.status = s /\ s \in {"RUNNING", "WAITING_PVE"}
      /\ SetsFit(m, c) /\ ItemsFit(m, c) /\ InStep(its, m, c)
    BY <1>0, WaveFacts DEF InWave, InSubmit
<1>2. SetsFit(m, n)
    BY <1>1 DEF SetsFit, Moves, InWave, InSubmit, InWait
<1>3. ItemsFit(m, n)
    BY <1>1 DEF ItemsFit, Ahead, Behind, Handled, Moves, InWave, InSubmit, InWait
<1>4. \A j \in c.todo : IsFirst(j, c.todo) => j = i
    BY OneFirst DEF ControlRecords
<1>5. PveFits(q, m, n)
    BY <1>4 DEF PveFits, Moves
<1>6. InStep(its, m, n)
    BY <1>1 DEF InStep, Unsaved, Handled, Moves, InSubmit
<1> QED BY <1>1, <1>2, <1>3, <1>5, <1>6, WaveFits DEF Moves, InWave, InSubmit

LEMMA AcceptedFits ==
    ASSUME NEW p, NEW s, NEW its,
           NEW m \in MemoryRecords, NEW c, NEW k \in MemoryRecords, NEW n,
           CopyFits(p, s, its, m, c), c.at = "reply",
           NEW i \in Items, IsFirst(i, c.todo), m.items[i].upid = NoUPID,
           c.call \in Nat \ {0},
           NEW r, Replaces(m, k, i, r),
           r = [status |-> "WAITING_PVE", upid |-> c.call],
           Moves(c, n, "submit", c.todo \ {i})
    PROVE  MaySave(p, s, its, k) /\ CopyFits(p, k.status, k.items, k, n)
<1>1. /\ MaySave(p, s, its, m) /\ m.status = s /\ s \in {"RUNNING", "WAITING_PVE"}
      /\ SetsFit(m, c) /\ ItemsFit(m, c) /\ PveFits(p, m, c)
    BY WaveFacts DEF InWave, InSubmit
<1>2. i \in c.todo /\ i \in ItemsOf(m.op) /\ i \in c.wave /\ i \notin c.rest
    BY <1>1 DEF SetsFit, IsFirst, InWave, InSubmit
<1>3. /\ m.items[i].status \notin Promise!ResultStatuses
      /\ m.items[i].status = "UNKNOWN" => m.items[i].upid # NoUPID
    BY <1>1, <1>2 DEF ItemsFit, Workable, Ahead, Handled, InSubmit
<1>4. Truthful(p, i, r)
    BY <1>1, <1>2 DEF PveFits, Truthful, NoUPID
<1>5. MaySave(p, s, its, k)
    BY <1>1, <1>3, <1>4, WorkMaySave DEF Promise!Forward, NoUPID
<1>6. MaySave(p, k.status, k.items, k)
    BY <1>5, SavedMaySave DEF MaySave
<1>7. SetsFit(k, n)
    BY <1>1 DEF SetsFit, Moves, Replaces, InWave, InSubmit
<1>8. ItemsFit(k, n) /\ PveFits(p, k, n)
    BY <1>1, <1>2 DEF ItemsFit, Workable, SetsFit, PveFits, Ahead, Behind, Handled, Moves, Replaces,
                      ItemsOf, Promise!ResultStatuses, NoUPID, InWave, InSubmit, InWait
<1> QED BY <1>1, <1>5, <1>6, <1>7, <1>8, WaveFits DEF InStep, Moves, Replaces, InWave, InSubmit

LEMMA NotAcceptedFits ==
    ASSUME NEW p, NEW s, NEW its,
           NEW m \in MemoryRecords, NEW c \in ControlRecords, NEW k \in MemoryRecords, NEW n,
           CopyFits(p, s, its, m, c), c.at = "reply",
           NEW i \in Items, IsFirst(i, c.todo), m.items[i].upid = NoUPID,
           NEW r, Replaces(m, k, i, r),
           NEW status \in {"FAILED", "UNKNOWN"},
           r = [status |-> status, upid |-> m.items[i].upid],
           Moves(c, n, "saveSubmit", c.todo)
    PROVE  CopyFits(p, s, its, k, n)
<1>1. /\ MaySave(p, s, its, m) /\ m.status = s /\ s \in {"RUNNING", "WAITING_PVE"}
      /\ SetsFit(m, c) /\ ItemsFit(m, c) /\ InStep(its, m, c)
    BY WaveFacts DEF InWave, InSubmit
<1>2. i \in c.todo /\ i \in ItemsOf(m.op) /\ i \in c.wave /\ i \notin c.rest
    BY <1>1 DEF SetsFit, IsFirst, InWave, InSubmit
<1>3. /\ m.items[i].status \notin Promise!ResultStatuses
      /\ m.items[i].status = "UNKNOWN" => m.items[i].upid # NoUPID
    BY <1>1, <1>2 DEF ItemsFit, Workable, Ahead, Handled, InSubmit
<1>4. Truthful(p, i, r) /\ Promise!Forward(m.items[i], r)
    BY <1>3 DEF Truthful, Promise!Forward, NoUPID
<1>5. MaySave(p, s, its, k)
    BY <1>1, <1>4, WorkMaySave
<1>6. SetsFit(k, n)
    BY <1>1 DEF SetsFit, Moves, Replaces, InWave, InSubmit
<1>7. \A j \in Items : Handled(n, j) <=> j = i
    BY OneFirst DEF Handled, Moves, ControlRecords
<1>8. ItemsFit(k, n) /\ PveFits(p, k, n)
    <2>1. ASSUME NEW j \in ItemsOf(k.op)
          PROVE  /\ Ahead(n, j) => Workable(k.items[j])
                 /\ Behind(n, j) => k.items[j].status \in SettledStatuses
        <3>1. CASE j = i
            BY <1>2, <1>7, <2>1, <3>1 DEF Ahead, Behind, Moves, InSubmit, InWait
        <3>2. CASE j # i
            BY <1>1, <1>7, <2>1, <3>2
            DEF ItemsFit, Workable, Ahead, Behind, Handled, Moves, Replaces, ItemsOf, InSubmit, InWait
        <3> QED BY <3>1, <3>2
    <2>2. \A j \in n.wave : j \notin n.todo \/ Handled(n, j) =>
                k.items[j].status \in SettledStatuses \/ k.items[j].upid # NoUPID
        <3>1. \A j \in c.wave \ {i} : k.items[j] = m.items[j]
            BY <1>1 DEF SetsFit, Replaces, ItemsOf, InWave, InSubmit
        <3>2. k.items[i].status \in SettledStatuses
            BY DEF Replaces, SettledStatuses
        <3>3. n.wave = c.wave /\ n.todo = c.todo /\ c.wave \subseteq Items
            BY <1>1 DEF SetsFit, Moves, ItemsOf, InWave, InSubmit
        <3>4. \A j \in c.wave : j \notin c.todo =>
                m.items[j].status \in SettledStatuses \/ m.items[j].upid # NoUPID
            BY <1>1 DEF ItemsFit, InSubmit
        <3> QED BY <1>2, <1>7, <3>1, <3>2, <3>3, <3>4
    <2> QED BY <2>1, <2>2 DEF ItemsFit, Workable, PveFits, Moves, InWait
<1>9. InStep(its, k, n)
    BY <1>1, <1>2, <1>7 DEF InStep, Unsaved, Handled, Moves, Replaces, ItemsOf, InSubmit
<1> QED BY <1>1, <1>5, <1>6, <1>8, <1>9, WaveFits DEF Moves, Replaces, InWave, InSubmit

LEMMA SaveSubmitFits ==
    ASSUME NEW p, NEW s, NEW its,
           NEW m \in MemoryRecords, NEW c \in ControlRecords, NEW n,
           CopyFits(p, s, its, m, c), c.at = "saveSubmit",
           NEW i \in Items, IsFirst(i, c.todo),
           Moves(c, n, "submit", c.todo \ {i})
    PROVE  MaySave(p, s, its, m) /\ CopyFits(p, m.status, m.items, m, n)
<1>1. /\ MaySave(p, s, its, m) /\ m.status = s /\ s \in {"RUNNING", "WAITING_PVE"}
      /\ SetsFit(m, c) /\ ItemsFit(m, c)
    BY WaveFacts DEF InWave, InSubmit
<1>2. MaySave(p, m.status, m.items, m)
    BY <1>1, SavedMaySave DEF MaySave
<1>3. \A j \in Items : Handled(c, j) <=> j = i
    BY OneFirst DEF Handled, ControlRecords
<1>4. SetsFit(m, n)
    BY <1>1 DEF SetsFit, Moves, InWave, InSubmit
<1>5. ItemsFit(m, n) /\ PveFits(p, m, n)
    <2>1. \A j \in ItemsOf(m.op) :
            /\ Ahead(n, j) => Workable(m.items[j])
            /\ Behind(n, j) => m.items[j].status \in SettledStatuses
        BY <1>1, <1>3 DEF ItemsFit, Ahead, Behind, Handled, Moves, ItemsOf, InSubmit, InWait
    <2>2. \A j \in n.wave : j \notin n.todo \/ Handled(n, j) =>
                m.items[j].status \in SettledStatuses \/ m.items[j].upid # NoUPID
        BY <1>1, <1>3 DEF ItemsFit, SetsFit, Handled, Moves, ItemsOf, InWave, InSubmit
    <2> QED BY <2>1, <2>2 DEF ItemsFit, PveFits, Moves, InWait
<1> QED BY <1>1, <1>2, <1>4, <1>5, WaveFits DEF InStep, Moves, InWave, InSubmit

LEMMA StartWaitingFits ==
    ASSUME NEW p, NEW s, NEW its,
           NEW m \in MemoryRecords, NEW c, NEW k \in MemoryRecords, NEW n,
           CopyFits(p, s, its, m, c), c.at = "submit", c.todo = {},
           Restates(m, k, "WAITING_PVE"), CanTransition(s, "WAITING_PVE"),
           Moves(c, n, "wait", {i \in c.wave : m.items[i].status \notin SettledStatuses})
    PROVE  MaySave(p, s, its, k) /\ CopyFits(p, k.status, k.items, k, n)
<1>1. /\ MaySave(p, s, its, m) /\ m.status = s /\ ~Terminal(s)
      /\ SetsFit(m, c) /\ ItemsFit(m, c)
    BY WaveFacts DEF InWave, InSubmit
<1>2. MaySave(p, s, its, k)
    BY <1>1, RestateMaySave DEF DoneStatuses, CancelStatuses, TerminalStatuses
<1>3. MaySave(p, k.status, k.items, k)
    BY <1>2, SavedMaySave DEF MaySave
<1>4. SetsFit(k, n)
    BY <1>1 DEF SetsFit, Moves, Restates, InWave, InSubmit
<1>5. ItemsFit(k, n) /\ PveFits(p, k, n)
    BY <1>1 DEF ItemsFit, Workable, Tracked, SetsFit, PveFits, Ahead, Behind, Moves, Restates, Handled,
                SettledStatuses, Promise!ResultStatuses, InWave, InSubmit, InWait
<1> QED BY <1>2, <1>3, <1>4, <1>5, WaveFits DEF InStep, Moves, Restates, InWave, InWait

\* The task of the item the loop is at has ended.
Ended(p, r) == p[r].state \in {"ok", "failed"}

\* The place n of a worker whose copy k was just saved.
SavedFits(p, k, n) == CopyFits(p, k.status, k.items, k, n)

LEMMA TaskEndedFits ==
    ASSUME NEW p, NEW s, NEW its,
           NEW m \in MemoryRecords, NEW c \in ControlRecords, NEW k \in MemoryRecords, NEW n,
           CopyFits(p, s, its, m, c), c.at = "wait",
           NEW i \in Items, IsFirst(i, c.todo),
           Ended(p, m.items[i].upid),
           NEW r, Replaces(m, k, i, r),
           r = [status |-> "VERIFYING", upid |-> m.items[i].upid],
           Moves(c, n, "result", c.todo)
    PROVE  MaySave(p, s, its, k) /\ SavedFits(p, k, n)
<1>1. /\ MaySave(p, s, its, m) /\ m.status = s /\ s \in {"RUNNING", "WAITING_PVE"}
      /\ SetsFit(m, c) /\ ItemsFit(m, c)
    BY WaveFacts DEF InWave, InWait
<1>2. i \in c.todo /\ i \in ItemsOf(m.op) /\ i \in c.wave /\ i \notin c.rest
    BY <1>1 DEF SetsFit, IsFirst, InWave, InWait
<1>3. m.items[i].status \notin Promise!ResultStatuses /\ m.items[i].upid # NoUPID
    BY <1>1, <1>2 DEF ItemsFit, Workable, Tracked, SettledStatuses, Ahead, Handled, InWait
<1>4. Truthful(p, i, m.items[i])
    BY <1>1, <1>2 DEF MaySave, Sound
<1>5. MaySave(p, s, its, k)
    BY <1>1, <1>3, <1>4, WorkMaySave DEF Truthful, Promise!Forward, NoUPID
<1>6. MaySave(p, k.status, k.items, k)
    BY <1>5, SavedMaySave DEF MaySave
<1>7. SetsFit(k, n)
    BY <1>1 DEF SetsFit, Moves, Replaces, InWave, InWait
<1>8. ItemsFit(k, n)
    BY <1>1, <1>2, <1>3 DEF ItemsFit, Workable, Tracked, SettledStatuses, SetsFit, Ahead, Behind, Handled, Moves, Replaces,
                            ItemsOf, Promise!ResultStatuses, InWave, InSubmit, InWait
<1>9. PveFits(p, k, n)
    <2>1. \A j \in c.todo : IsFirst(j, c.todo) => j = i
        BY OneFirst DEF ControlRecords
    <2> QED BY <2>1 DEF PveFits, Moves, Replaces, Ended
<1> QED BY <1>1, <1>5, <1>6, <1>7, <1>8, <1>9, WaveFits DEF InStep, SavedFits, Moves, Replaces, InWave, InWait

\* Its result, or that it is not known, is noted.
LEMMA NotedFits ==
    ASSUME NEW p, NEW s, NEW its,
           NEW m \in MemoryRecords, NEW c \in ControlRecords, NEW k \in MemoryRecords, NEW n,
           CopyFits(p, s, its, m, c),
           NEW i \in Items, IsFirst(i, c.todo),
           NEW status \in {"SUCCEEDED", "FAILED", "UNKNOWN"},
           \/ /\ c.at = "result"
              /\ status = IF p[m.items[i].upid].state = "ok" THEN "SUCCEEDED" ELSE "FAILED"
           \/ c.at = "unresolved" /\ status = "UNKNOWN",
           NEW r, Replaces(m, k, i, r),
           r = [status |-> status, upid |-> m.items[i].upid],
           Moves(c, n, "saveResult", c.todo)
    PROVE  CopyFits(p, s, its, k, n)
<1>1. /\ MaySave(p, s, its, m) /\ m.status = s /\ s \in {"RUNNING", "WAITING_PVE"}
      /\ SetsFit(m, c) /\ ItemsFit(m, c) /\ PveFits(p, m, c) /\ InStep(its, m, c)
    BY WaveFacts DEF InWave, InWait
<1>2. i \in c.todo /\ i \in ItemsOf(m.op) /\ i \in c.wave /\ i \notin c.rest
    BY <1>1 DEF SetsFit, IsFirst, InWave, InWait
<1>3. m.items[i].status \notin Promise!ResultStatuses /\ m.items[i].upid # NoUPID
    BY <1>1, <1>2 DEF ItemsFit, Workable, Tracked, SettledStatuses, Ahead, Handled, InWait
<1>4. Truthful(p, i, m.items[i])
    BY <1>1, <1>2 DEF MaySave, Sound
<1>5. Truthful(p, i, r)
    BY <1>1, <1>2, <1>3, <1>4 DEF Truthful, PveFits
<1>6. MaySave(p, s, its, k)
    BY <1>1, <1>3, <1>5, WorkMaySave DEF Promise!Forward, NoUPID
<1>7. SetsFit(k, n)
    BY <1>1 DEF SetsFit, Moves, Replaces, InWave, InWait
<1>8. \A j \in Items : Handled(n, j) <=> j = i
    BY OneFirst DEF Handled, Moves, ControlRecords
<1>9. ItemsFit(k, n) /\ PveFits(p, k, n)
    <2>1. ASSUME NEW j \in ItemsOf(k.op)
          PROVE  /\ Ahead(n, j) => Workable(k.items[j])
                 /\ Behind(n, j) => k.items[j].status \in SettledStatuses
        <3>1. CASE j = i
            BY <1>2, <1>8, <3>1
            DEF Ahead, Behind, Moves, Replaces, SettledStatuses, InSubmit, InWait
        <3>2. CASE j # i
            BY <1>1, <1>8, <2>1, <3>2
            DEF ItemsFit, Workable, Tracked, SettledStatuses, Ahead, Behind, Handled, Moves, Replaces, ItemsOf, InSubmit, InWait
        <3> QED BY <3>1, <3>2
    <2>2. \A j \in n.todo : Handled(n, j) \/ Tracked(k.items[j])
        <3>1. n.todo = c.todo /\ c.todo \subseteq Items
            BY DEF Moves, ControlRecords
        <3>2. \A j \in c.todo : Tracked(m.items[j])
            BY <1>1 DEF ItemsFit, Handled, InWait
        <3> QED BY <1>8, <3>1, <3>2 DEF Replaces
    <2> QED BY <2>1, <2>2 DEF ItemsFit, Workable, Tracked, SettledStatuses, PveFits, Moves, InSubmit
<1>10. InStep(its, k, n)
    BY <1>1, <1>2, <1>8 DEF InStep, Unsaved, Handled, Moves, Replaces, ItemsOf, InSubmit
<1> QED BY <1>1, <1>6, <1>7, <1>9, <1>10, WaveFits DEF Moves, Replaces, InWave, InWait

LEMMA SaveResultFits ==
    ASSUME NEW p, NEW s, NEW its,
           NEW m \in MemoryRecords, NEW c \in ControlRecords, NEW n,
           CopyFits(p, s, its, m, c), c.at = "saveResult",
           NEW i \in Items, IsFirst(i, c.todo),
           Moves(c, n, "wait", c.todo \ {i})
    PROVE  MaySave(p, s, its, m) /\ CopyFits(p, m.status, m.items, m, n)
<1>1. /\ MaySave(p, s, its, m) /\ m.status = s /\ s \in {"RUNNING", "WAITING_PVE"}
      /\ SetsFit(m, c) /\ ItemsFit(m, c)
    BY WaveFacts DEF InWave, InWait
<1>2. MaySave(p, m.status, m.items, m)
    BY <1>1, SavedMaySave DEF MaySave
<1>3. \A j \in Items : Handled(c, j) <=> j = i
    BY OneFirst DEF Handled, ControlRecords
<1>4. SetsFit(m, n)
    BY <1>1 DEF SetsFit, Moves, InWave, InWait
<1>5. ItemsFit(m, n) /\ PveFits(p, m, n)
    <2>1. \A j \in ItemsOf(m.op) :
            /\ Ahead(n, j) => Workable(m.items[j])
            /\ Behind(n, j) => m.items[j].status \in SettledStatuses
        BY <1>1, <1>3 DEF ItemsFit, Ahead, Behind, Handled, Moves, ItemsOf, InSubmit, InWait
    <2>2. \A j \in n.todo : Tracked(m.items[j])
        <3>1. c.todo \subseteq Items /\ n.todo = c.todo \ {i}
            BY DEF Moves, ControlRecords
        <3> QED BY <1>1, <1>3, <3>1 DEF ItemsFit, InWait
    <2> QED BY <2>1, <2>2 DEF ItemsFit, PveFits, Moves, InSubmit
<1> QED BY <1>1, <1>2, <1>4, <1>5, WaveFits DEF InStep, Moves, InWave, InWait

LEMMA EndWaveFits ==
    ASSUME NEW p, NEW s, NEW its, NEW m \in MemoryRecords, NEW c, NEW n,
           CopyFits(p, s, its, m, c), c.at = "wait", c.todo = {},
           n.at = "wave", n.rest = c.rest
    PROVE  CopyFits(p, s, its, m, n)
<1>1. /\ MaySave(p, s, its, m) /\ m.status = s /\ s \in {"RUNNING", "WAITING_PVE"}
      /\ SetsFit(m, c) /\ ItemsFit(m, c) /\ InStep(its, m, c)
    BY WaveFacts DEF InWave, InWait
<1>2. SetsFit(m, n)
    BY <1>1 DEF SetsFit, InWave, InSubmit, InWait
<1>3. ItemsFit(m, n) /\ PveFits(p, m, n)
    BY <1>1 DEF ItemsFit, PveFits, Ahead, Behind, InWave, InSubmit, InWait
<1>4. InStep(its, m, n)
    BY <1>1 DEF InStep, Unsaved, InSubmit
<1> QED BY <1>1, <1>2, <1>3, <1>4, WaveFits

LEMMA VerifyFits ==
    ASSUME NEW p, NEW s, NEW its,
           NEW m \in MemoryRecords, NEW c, NEW k \in MemoryRecords, NEW n,
           CopyFits(p, s, its, m, c), c.at = "wave", c.rest = {},
           Restates(m, k, "VERIFYING"), n.at = "finish"
    PROVE  MaySave(p, s, its, k) /\ CopyFits(p, k.status, k.items, k, n)
<1>1. /\ MaySave(p, s, its, m) /\ m.status = s /\ s \in {"RUNNING", "WAITING_PVE"}
      /\ ItemsFit(m, c)
    BY WaveFacts
<1>2. \A i \in ItemsOf(k.op) : k.items[i].status \in SettledStatuses
    BY <1>1 DEF ItemsFit, Behind, Restates, InSubmit, InWait
<1>3. Sound(p, k.op, k.status, k.items)
    BY <1>1, <1>2 DEF Sound, MaySave, Restates, CancelStatuses
<1>4. CanTransition(s, k.status) /\ ~Terminal(s)
    BY <1>1 DEF CanTransition, OperationTransitions, OperationStatuses, Terminal,
                TerminalStatuses, Restates
<1>5. MaySave(p, s, its, k) /\ MaySave(p, k.status, k.items, k)
    BY <1>1, <1>3, <1>4, SavedMaySave DEF MaySave, Restates
<1>6. StatusFits(k.status, k, n) /\ FreshFits(k, n) /\ LoopFits(p, k, n)
    BY DEF StatusFits, FreshFits, LoopFits, Restates, InWave, InSubmit, InWait
<1> QED BY <1>5, <1>6 DEF CopyFits, InStep

\* finalize derives the status from the results.
LEMMA FinishFits ==
    ASSUME NEW p, NEW s, NEW its,
           NEW m \in MemoryRecords, NEW c, NEW k \in MemoryRecords,
           CopyFits(p, s, its, m, c), c.at = "finish",
           \A i \in Items : m.items[i].status # "SKIPPED",
           Restates(m, k, FinalStatus({m.items[i].status : i \in ItemsOf(m.op)}))
    PROVE  MaySave(p, s, its, k)
<1> DEFINE results == {m.items[i].status : i \in ItemsOf(m.op)}
<1>1. MaySave(p, s, its, m) /\ m.status = s /\ s = "VERIFYING"
    BY DEF CopyFits, StatusFits
<1>2. \A i \in ItemsOf(m.op) : m.items[i].status \in {"SUCCEEDED", "FAILED", "UNKNOWN"}
    BY <1>1 DEF MaySave, Sound, DoneStatuses, SettledStatuses, ItemsOf
<1>3. k.status \in {"SUCCEEDED", "PARTIALLY_SUCCEEDED", "FAILED"}
    BY DEF Restates, FinalStatus
<1>4. k.status = "SUCCEEDED" => \A i \in ItemsOf(m.op) : m.items[i].status = "SUCCEEDED"
    <2>1. k.status = "SUCCEEDED" => results \cap {"FAILED", "UNKNOWN"} = {}
        BY DEF Restates, FinalStatus
    <2>2. \A i \in ItemsOf(m.op) : m.items[i].status \in results
        OBVIOUS
    <2> HIDE DEF results
    <2> QED BY <1>2, <2>1, <2>2
<1>5. k.status = "PARTIALLY_SUCCEEDED" =>
            /\ \E i \in ItemsOf(m.op) : m.items[i].status = "SUCCEEDED"
            /\ \E i \in ItemsOf(m.op) : m.items[i].status # "SUCCEEDED"
    <2> SUFFICES ASSUME k.status = "PARTIALLY_SUCCEEDED"
                 PROVE  /\ \E i \in ItemsOf(m.op) : m.items[i].status = "SUCCEEDED"
                        /\ \E i \in ItemsOf(m.op) : m.items[i].status # "SUCCEEDED"
        OBVIOUS
    <2>1. results \cap {"FAILED", "UNKNOWN"} # {} /\ results \cap {"SUCCEEDED", "SKIPPED"} # {}
        BY DEF Restates, FinalStatus
    <2> QED BY <1>2, <2>1
<1>6. Sound(p, k.op, k.status, k.items)
    BY <1>1, <1>2, <1>3, <1>4, <1>5 DEF Sound, MaySave, Restates, CancelStatuses, SettledStatuses
<1>7. CanTransition(s, k.status) /\ ~Terminal(s)
    BY <1>1, <1>3 DEF CanTransition, OperationTransitions, OperationStatuses, Terminal,
                TerminalStatuses
<1> QED BY <1>1, <1>6, <1>7 DEF MaySave, Restates

\* fail: what may be saved may be failed.
LEMMA FailedFits ==
    ASSUME NEW p, NEW s \in OperationStatuses, NEW its,
           NEW m \in MemoryRecords, MaySave(p, s, its, m)
    PROVE  MaySave(p, s, its, FailedMemory(m))
<1> DEFINE k == FailedMemory(m)
<1>1. /\ k.op = m.op
      /\ k.status = IF Terminal(m.status) THEN m.status ELSE "FAILED"
      /\ \A i \in Items : k.items[i] = IF m.items[i].status \in OpenStatuses
                                       THEN [m.items[i] EXCEPT !.status = "UNKNOWN"]
                                       ELSE m.items[i]
    BY DEF FailedMemory, MemoryRecords
<1> HIDE DEF k
<1>2. \A i \in Items : m.items[i] \in ItemRecords
    BY DEF MemoryRecords
<1>3. \A i \in Items : /\ k.items[i].upid = m.items[i].upid
                       /\ k.items[i].status \in SettledStatuses
                       /\ m.items[i].status \in SettledStatuses => k.items[i] = m.items[i]
                       /\ k.items[i].status \in {m.items[i].status, "UNKNOWN"}
    BY <1>1, <1>2 DEF ItemRecords, ItemStatuses, OpenStatuses, SettledStatuses
<1>4. Terminal(m.status) => \A i \in ItemsOf(m.op) : k.items[i] = m.items[i]
    BY <1>3 DEF MaySave, Sound, DoneStatuses, Terminal, ItemsOf
<1>5. \A i \in ItemsOf(m.op) : Truthful(p, i, k.items[i])
    BY <1>3 DEF MaySave, Sound, Truthful, ItemsOf
<1>6. Sound(p, k.op, k.status, k.items)
    <2>1. CASE Terminal(m.status)
        BY <1>1, <1>3, <1>4, <2>1 DEF MaySave, Sound
    <2>2. CASE ~Terminal(m.status)
        BY <1>1, <1>3, <1>5, <2>2 DEF Sound, CancelStatuses, ItemsOf
    <2> QED BY <2>1, <2>2
<1>7. Terminal(s) => m.status = s
    BY DEF MaySave, CanTransition, OperationTransitions, Terminal, TerminalStatuses
<1>8. CanTransition(s, k.status)
    <2>1. CASE Terminal(m.status)
        BY <1>1, <2>1 DEF MaySave
    <2>2. CASE ~Terminal(m.status)
        <3>1. ~Terminal(s) /\ k.status = "FAILED"
            BY <1>1, <1>7, <2>2
        <3> QED BY <3>1 DEF CanTransition, OperationTransitions, OperationStatuses, Terminal,
                            TerminalStatuses
    <2> QED BY <2>1, <2>2
<1>9. ASSUME NEW i \in ItemsOf(m.op) PROVE Promise!Forward(its[i], k.items[i])
    <2>1. i \in Items /\ Promise!Forward(its[i], m.items[i])
        BY <1>9 DEF MaySave, ItemsOf
    <2>2. Promise!Forward(m.items[i], k.items[i])
        BY <1>1, <1>2, <1>3, <2>1
        DEF Promise!Forward, Promise!ResultStatuses, SettledStatuses, OpenStatuses
    <2> QED BY <2>1, <2>2, ForwardTrans
<1>10. Terminal(s) => \A i \in ItemsOf(m.op) : k.items[i] = its[i]
    BY <1>4, <1>7 DEF MaySave
<1>11. MaySave(p, s, its, k)
    BY <1>1, <1>6, <1>8, <1>9, <1>10 DEF MaySave
<1> QED BY <1>11 DEF k

\* The version does not matter to what a copy says.
LEMMA SameFits ==
    ASSUME NEW p, NEW s, NEW its, NEW m, NEW k, NEW c,
           k.op = m.op, k.status = m.status, k.items = m.items,
           CopyFits(p, s, its, m, c)
    PROVE  CopyFits(p, s, its, k, c)
<1>1. MaySave(p, s, its, k)
    BY DEF CopyFits, MaySave
<1>2. StatusFits(s, k, c) /\ FreshFits(k, c)
    BY DEF CopyFits, StatusFits, FreshFits
<1>3. LoopFits(p, k, c)
    BY DEF CopyFits, LoopFits, SetsFit, ItemsFit, PveFits
<1> QED BY <1>1, <1>2, <1>3 DEF CopyFits, InStep
-----------------------------------------------------------------------------
(* The steps.  Types and UPIDs are dealt with by NextKeeps; what is left:    *)
Rest ==
    /\ StoredSound /\ NeverSkipped /\ CopiesFit
    /\ RowsFit /\ MarksStored /\ IntentIsRecorded

\* A step leaves the stored operations alone or moves one of them forward.
Statuses == [o \in Ops |-> row[o].status]

KeepsPromise ==
    \/ UNCHANGED <<Statuses, items>>
    \/ \E o \in Ops : Promise!Advance(o)

\* OperationPromise speaks of the same lifecycle.
LEMMA SameLifecycle ==
    /\ Promise!OperationStatuses = OperationStatuses
    /\ Promise!ItemStatuses = ItemStatuses
    /\ Promise!TerminalStatuses = TerminalStatuses
    /\ Promise!SettledStatuses = SettledStatuses
    /\ \A from, to : Promise!CanTransition(from, to) <=> CanTransition(from, to)
BY DEF Promise!OperationStatuses, OperationStatuses, Promise!ItemStatuses, ItemStatuses,
       Promise!TerminalStatuses, TerminalStatuses, Promise!SettledStatuses, SettledStatuses,
       Promise!CanTransition, CanTransition, Promise!OperationTransitions, OperationTransitions

\* A worker with copy m may be at place n when the store has the rows rw and the
\* items its, and p are the requests.
WorkerFits(p, rw, its, m, n) ==
    /\ \A i \in Items : m.items[i].status # "SKIPPED"
    /\ n.at \notin {"idle", "stopped", "load", "loadItems"} /\ rw[m.op].version = m.version =>
            CopyFits(p, rw[m.op].status, its, m, n)
    /\ n.at = "loadItems" /\ rw[m.op].version = m.version => m.status = rw[m.op].status
    /\ n.at \in InSubmit => \A i \in n.todo : its[i].status # "QUEUED"

LEMMA FactsOfRecordInv ==
    ASSUME RecordInv, NEW w \in Workers
    PROVE  /\ Rest /\ CopyInv /\ TypeOK
           /\ WorkerFits(pve, row, items, mem[w], ctl[w])
           /\ mem[w] \in MemoryRecords /\ ctl[w] \in ControlRecords
           /\ Working(w) => mem[w].op \in Ops /\ row[mem[w].op].status \in OperationStatuses
           /\ Loaded(w) /\ Current(mem[w]) =>
                    CopyFits(pve, row[mem[w].op].status, items, mem[w], ctl[w])
BY DEF RecordInv, Rest, WorkerFits, CopyInv, TypeOK, NeverSkipped, CopiesFit, RowsFit,
       MarksStored, Loaded, Working, Current

\* The environment only adds to what is known of a worker.
LEMMA WorkerStays ==
    ASSUME NEW p, NEW q, Grows(p, q), NEW m, NEW c \in ControlRecords, WorkerFits(p, row, items, m, c)
    PROVE  WorkerFits(q, row, items, m, c)
<1>1. ASSUME CopyFits(p, row[m.op].status, items, m, c)
      PROVE  CopyFits(q, row[m.op].status, items, m, c)
    BY <1>1, FitsStay
<1> QED BY <1>1 DEF WorkerFits

\* Steps that write no operation and no item.
LEMMA QuietStep ==
    ASSUME RecordInv, UNCHANGED <<row, items>>, Grows(pve, pve'),
           \A o \in Ops : Terminal(row[o].status) => lease'[o] = NoLease,
           \A r \in DOMAIN pve' : items[pve'[r].item].status # "QUEUED",
           \A v \in Workers : WorkerFits(pve', row', items', mem'[v], ctl'[v])
    PROVE  Rest' /\ KeepsPromise
<1>1. StoredSound'
    <2> SUFFICES ASSUME NEW o \in Ops
                 PROVE  /\ Sound(pve', o, row[o].status, items)
                        /\ row[o].status \in {"QUEUED", "VALIDATING"} =>
                                \A i \in ItemsOf(o) : items[i] = NewItem
                        /\ Terminal(row[o].status) => lease'[o] = NoLease
        BY DEF StoredSound
    <2>1. Sound(pve, o, row[o].status, items)
        BY DEF RecordInv, StoredSound
    <2>2. Sound(pve', o, row[o].status, items)
        BY <2>1, SoundStays
    <2> QED BY <2>2 DEF RecordInv, StoredSound
<1>2. NeverSkipped'
    BY DEF RecordInv, NeverSkipped, WorkerFits
<1>3. CopiesFit'
    BY DEF CopiesFit, WorkerFits, Loaded, Working, Current
<1>4. RowsFit' /\ MarksStored' /\ IntentIsRecorded'
    BY DEF RowsFit, MarksStored, IntentIsRecorded, WorkerFits, Current
<1> QED BY <1>1, <1>2, <1>3, <1>4 DEF Rest, KeepsPromise, Statuses

\* Of these the steps of one worker.
LEMMA PrivateStep ==
    ASSUME RecordInv, NEW w \in Workers, NEW m, NEW n,
           UNCHANGED <<row, items>>, Grows(pve, pve'),
           \A o \in Ops : Terminal(row[o].status) => lease'[o] = NoLease,
           \A r \in DOMAIN pve' : items[pve'[r].item].status # "QUEUED",
           mem' = [mem EXCEPT ![w] = m], ctl' = [ctl EXCEPT ![w] = n],
           WorkerFits(pve', row, items, m, n)
    PROVE  Rest' /\ KeepsPromise
<1>1. ASSUME NEW v \in Workers PROVE WorkerFits(pve', row', items', mem'[v], ctl'[v])
    <2>1. CASE v = w
        BY <2>1, FactsOfRecordInv DEF TypeOK
    <2>2. CASE v # w
        <3>1. mem'[v] = mem[v] /\ ctl'[v] = ctl[v]
            BY <2>2, FactsOfRecordInv DEF TypeOK
        <3> QED BY <3>1, WorkerStays, FactsOfRecordInv
    <2> QED BY <2>1, <2>2
<1> QED BY <1>1, QuietStep

\* When PVE is not involved either.
LEMMA NothingSent ==
    ASSUME RecordInv, UNCHANGED pve
    PROVE  /\ Grows(pve, pve')
           /\ UNCHANGED items => \A r \in DOMAIN pve' : items[pve'[r].item].status # "QUEUED"
BY DEF RecordInv, IntentIsRecorded, Grows

\* A copy that may be saved is saved.
LEMMA CommitStep ==
    ASSUME RecordInv, CopyInv', NEW w \in Workers, Loaded(w),
           NEW m, Saveable(w, m), Current(m), Commit(m),
           MaySave(pve, row[m.op].status, items, m),
           m.status \in {"QUEUED", "VALIDATING"} => \A i \in ItemsOf(m.op) : m.items[i] = NewItem,
           \A i \in Items : m.items[i].status # "SKIPPED",
           UNCHANGED pve,
           NEW k, NEW n,
           mem' = [mem EXCEPT ![w] = k], ctl' = [ctl EXCEPT ![w] = n],
           WorkerFits(pve, row', items', k, n)
    PROVE  Rest' /\ KeepsPromise
<1> DEFINE o == m.op
<1>1. /\ o \in Ops /\ m \in MemoryRecords /\ o = mem[w].op /\ m.version = row[o].version
      /\ TypeOK /\ row[o].status \in OperationStatuses
    BY FactsOfRecordInv DEF Saveable, Current, Loaded
<1>2. /\ row'[o].status = m.status /\ row'[o].version = row[o].version + 1
      /\ \A p \in Ops \ {o} : row'[p] = row[p]
      /\ \A i \in ItemsOf(o) : items'[i] = m.items[i]
      /\ \A i \in Items \ ItemsOf(o) : items'[i] = items[i]
    BY <1>1 DEF Commit, TypeOK, ItemsOf
<1>3. \A i \in ItemsOf(o) : i \in Items /\ Promise!Forward(items[i], items'[i])
    BY <1>2 DEF MaySave, ItemsOf
<1>4. \A i \in Items : items[i].status # "QUEUED" => items'[i].status # "QUEUED"
    BY <1>2, <1>3 DEF Promise!Forward
<1>5. \A p \in Ops : Terminal(row'[p].status) => lease'[p] = NoLease
    BY <1>1, <1>2 DEF Commit, TypeOK, RecordInv, StoredSound
<1>6. StoredSound'
    <2> SUFFICES ASSUME NEW p \in Ops
                 PROVE  /\ Sound(pve, p, row'[p].status, items')
                        /\ row'[p].status \in {"QUEUED", "VALIDATING"} =>
                                \A i \in ItemsOf(p) : items'[i] = NewItem
        BY <1>5 DEF StoredSound
    <2>1. Grows(pve, pve)
        BY DEF Grows
    <2>2. CASE p = o
        <3>1. Sound(pve, o, m.status, m.items)
            BY DEF MaySave
        <3>2. Sound(pve, o, m.status, items')
            BY <1>2, <2>1, <3>1, SoundStays
        <3> QED BY <1>2, <2>2, <3>2
    <2>3. CASE p # o
        <3>1. \A i \in ItemsOf(p) : items'[i] = items[i]
            BY <1>2, <2>3 DEF ItemsOf
        <3>2. row'[p] = row[p]
            BY <1>2, <2>3
        <3>3. Sound(pve, p, row[p].status, items)
            BY DEF RecordInv, StoredSound
        <3>4. Sound(pve, p, row[p].status, items')
            BY <2>1, <3>1, <3>3, SoundStays
        <3> QED BY <3>1, <3>2, <3>4 DEF RecordInv, StoredSound
    <2> QED BY <2>2, <2>3
<1>7. ASSUME NEW v \in Workers PROVE WorkerFits(pve', row', items', mem'[v], ctl'[v])
    <2>1. CASE v = w
        <3>1. mem'[v] = k /\ ctl'[v] = n
            BY <1>1, <2>1 DEF TypeOK
        <3> QED BY <3>1 DEF WorkerFits, Current
    <2>2. CASE v # w
        <3>1. mem'[v] = mem[v] /\ ctl'[v] = ctl[v]
            BY <1>1, <2>2 DEF TypeOK
        <3>2. WorkerFits(pve, row, items, mem[v], ctl[v]) /\ ctl[v] \in ControlRecords
            BY FactsOfRecordInv
        <3>3. \A i \in Items : mem'[v].items[i].status # "SKIPPED"
            BY <3>1, <3>2 DEF WorkerFits
        <3>4. ctl'[v].at \in InSubmit => \A i \in ctl'[v].todo : items'[i].status # "QUEUED"
            BY <1>4, <3>1, <3>2 DEF WorkerFits, ControlRecords
        <3>5. CASE ~Working(v)
            BY <3>1, <3>3, <3>4, <3>5 DEF WorkerFits, Working
        <3>6. CASE Working(v) /\ mem[v].op = o
            <4>1. mem[v].version <= row[o].version /\ row[o].version \in Nat /\ mem[v].version \in Nat
                BY <1>1, <3>6 DEF RecordInv, CopyInv, CopyIsNotAhead, TypeOK, MemoryRecords
            <4>2. ~Current(mem[v])'
                BY <1>2, <3>1, <3>6, <4>1 DEF Current
            <4> QED BY <3>3, <3>4, <4>2 DEF WorkerFits, Current
        <3>7. CASE Working(v) /\ mem[v].op # o
            <4>1. mem[v].op \in Ops /\ row'[mem[v].op] = row[mem[v].op]
                BY <1>2, <3>7, FactsOfRecordInv
            <4>2. \A i \in ItemsOf(mem[v].op) : items'[i] = items[i]
                BY <1>2, <3>7 DEF ItemsOf
            <4>3. Current(mem[v])' => Current(mem[v])
                BY <3>1, <4>1 DEF Current
            <4>4. Grows(pve, pve)
                BY DEF Grows
            <4>5. CopyFits(pve, row[mem[v].op].status, items, mem[v], ctl[v])
                    => CopyFits(pve, row[mem[v].op].status, items', mem[v], ctl[v])
                BY <3>2, <4>2, <4>4, FitsStay
            <4> QED BY <3>1, <3>2, <3>3, <3>4, <4>1, <4>3, <4>5 DEF WorkerFits
        <3> QED BY <3>5, <3>6, <3>7
    <2> QED BY <2>1, <2>2
<1>8. NeverSkipped'
    BY <1>2, <1>7 DEF RecordInv, NeverSkipped, WorkerFits
<1>9. CopiesFit' /\ RowsFit' /\ MarksStored'
    BY <1>7 DEF CopiesFit, RowsFit, MarksStored, WorkerFits, Loaded, Working, Current
<1>10. IntentIsRecorded'
    <2>1. \A r \in DOMAIN pve : pve[r] \in RequestRecords
        BY <1>1 DEF TypeOK
    <2> QED BY <1>4, <2>1 DEF RecordInv, IntentIsRecorded, RequestRecords
<1>11. KeepsPromise
    <2>1. Statuses' = [Statuses EXCEPT ![o] = m.status] /\ Statuses[o] = row[o].status
        BY <1>1, <1>2 DEF Statuses
    <2>2. items' \in [Items -> ItemRecords] /\ items \in [Items -> ItemRecords]
        BY <1>1 DEF CopyInv, TypeOK
    <2>3. CASE Terminal(row[o].status)
        <3>1. m.status = row[o].status
            BY <1>1, <2>3
            DEF MaySave, CanTransition, OperationTransitions, OperationStatuses, Terminal,
                TerminalStatuses
        <3>2. Statuses' = Statuses
            BY <2>1, <3>1 DEF Statuses
        <3>3. \A i \in Items : items'[i] = items[i]
            BY <1>2, <2>3 DEF MaySave
        <3> QED BY <2>2, <3>2, <3>3 DEF KeepsPromise
    <2>4. CASE ~Terminal(row[o].status)
        <3>1. m.status \in OperationStatuses /\ CanTransition(row[o].status, m.status)
            BY <1>1 DEF MemoryRecords, MaySave
        <3>2. Statuses'[o] = m.status
            BY <1>1, <1>2 DEF Statuses
        <3>3. Terminal(m.status) => \A i \in ItemsOf(o) : items'[i].status \in SettledStatuses
            BY <1>2 DEF MaySave, Sound, DoneStatuses, Terminal
        <3>4. \A i \in Items : IF OpOf[i] = o THEN Promise!Forward(items[i], items'[i])
                                              ELSE items'[i] = items[i]
            BY <1>2, <1>3 DEF ItemsOf
        <3>5. Promise!Advance(o)
            BY <1>1, <2>1, <2>2, <2>4, <3>1, <3>2, <3>3, <3>4, SameLifecycle
            DEF Promise!Advance, Promise!ItemRecord, ItemRecords, Statuses, Terminal, ItemsOf
        <3> QED BY <1>1, <3>5 DEF KeepsPromise
    <2> QED BY <2>3, <2>4
<1> QED BY <1>6, <1>7, <1>8, <1>9, <1>10, <1>11 DEF Rest
-----------------------------------------------------------------------------
(* The repository calls.                                                     *)
Inside == Labels \ {"idle", "stopped", "load", "loadItems"}

\* A worker that has nothing to do.
LEMMA IdleFits ==
    ASSUME NEW p, NEW rw, NEW its, NEW n, n.at \in {"idle", "stopped"}
    PROVE  WorkerFits(p, rw, its, NoMemory, n)
BY DEF WorkerFits, NoMemory, NewItem, InSubmit

\* A worker that goes to fail with a copy it may save, if it is current.
LEMMA FailingWorker ==
    ASSUME NEW p, NEW rw, NEW its, NEW m,
           \A i \in Items : m.items[i].status # "SKIPPED",
           rw[m.op].version = m.version => MaySave(p, rw[m.op].status, its, m)
    PROVE  WorkerFits(p, rw, its, m, Failing)
<1>1. rw[m.op].version = m.version => CopyFits(p, rw[m.op].status, its, m, Failing)
    BY FailingFits
<1> QED BY <1>1, ControlTypes DEF WorkerFits, InSubmit

LEMMA SaveRecords ==
    ASSUME RecordInv, CopyInv', NEW w \in Workers, Loaded(w),
           NEW m, Saveable(w, m), NEW next, Save(w, m, next),
           \A i \in Items : m.items[i].status # "SKIPPED",
           Current(m) =>
                /\ MaySave(pve, row[m.op].status, items, m)
                /\ m.status \in {"QUEUED", "VALIDATING"} =>
                        \A i \in ItemsOf(m.op) : m.items[i] = NewItem
                /\ \/ next = Idle
                   \/ /\ next \in ControlRecords /\ next.at \in Inside
                      /\ CopyFits(pve, m.status, m.items, m, next)
                      /\ next.at \in InSubmit =>
                            \A i \in next.todo :
                                \/ i \in ItemsOf(m.op) /\ m.items[i].status # "QUEUED"
                                \/ items[i].status # "QUEUED"
    PROVE  Rest' /\ KeepsPromise
<1> DEFINE o == m.op
           kept == [m EXCEPT !.version = m.version + 1]
           k == IF next = Idle THEN NoMemory ELSE kept
<1>1. /\ o \in Ops /\ m \in MemoryRecords /\ o = mem[w].op
      /\ TypeOK /\ row[o].version \in Nat
    BY FactsOfRecordInv DEF Saveable, Loaded, TypeOK
<1>2. UNCHANGED pve
    BY DEF Save
<1>3. ASSUME Commit(m), Current(m)
      PROVE  /\ row'[o].status = m.status /\ row'[o].version = m.version + 1
             /\ \A i \in ItemsOf(o) : items'[i] = m.items[i]
             /\ \A i \in Items \ ItemsOf(o) : items'[i] = items[i]
             /\ \A i \in Items : items[i].status # "QUEUED" => items'[i].status # "QUEUED"
    <2>1. /\ row'[o].status = m.status /\ row'[o].version = m.version + 1
          /\ \A i \in ItemsOf(o) : items'[i] = m.items[i]
          /\ \A i \in Items \ ItemsOf(o) : items'[i] = items[i]
        BY <1>1, <1>3 DEF Commit, TypeOK, ItemsOf
    <2>2. \A i \in ItemsOf(o) : Promise!Forward(items[i], m.items[i])
        BY <1>3 DEF MaySave
    <2> QED BY <2>1, <2>2 DEF Promise!Forward
<1>4. ASSUME Commit(m), Current(m), mem' = [mem EXCEPT ![w] = m],
             ctl' = [ctl EXCEPT ![w] = Failing]
      PROVE  Rest' /\ KeepsPromise
    <2>1. row'[o].version # m.version
        BY <1>1, <1>3, <1>4 DEF MemoryRecords
    <2>2. WorkerFits(pve, row', items', m, Failing)
        BY <2>1, FailingWorker
    <2> QED BY <1>2, <1>4, <2>2, CommitStep
<1>5. ASSUME UNCHANGED <<row, items, lease>>, mem' = [mem EXCEPT ![w] = m],
             ctl' = [ctl EXCEPT ![w] = Failing]
      PROVE  Rest' /\ KeepsPromise
    <2>1. WorkerFits(pve, row, items, m, Failing)
        BY FailingWorker DEF Current
    <2>2. \A p \in Ops : Terminal(row[p].status) => lease'[p] = NoLease
        BY <1>5 DEF RecordInv, StoredSound
    <2>3. Grows(pve, pve') /\ \A r \in DOMAIN pve' : items[pve'[r].item].status # "QUEUED"
        BY <1>2, <1>5, NothingSent
    <2>4. WorkerFits(pve', row, items, m, Failing)
        BY <1>2, <2>1
    <2> QED BY <1>5, <2>2, <2>3, <2>4, PrivateStep
<1>6. ASSUME Commit(m), Current(m), mem' = [mem EXCEPT ![w] = k],
             ctl' = [ctl EXCEPT ![w] = next]
      PROVE  Rest' /\ KeepsPromise
    <2>1. CASE next = Idle
        <3>1. k = NoMemory /\ WorkerFits(pve, row', items', NoMemory, next)
            BY <2>1, IdleFits, ControlTypes
        <3> QED BY <1>2, <1>6, <3>1, CommitStep
    <2>2. CASE next # Idle
        <3>1. /\ k = kept /\ kept.op = o /\ kept.status = m.status /\ kept.items = m.items
              /\ kept.version = m.version + 1
            BY <1>1, <2>2 DEF MemoryRecords
        <3> HIDE DEF kept, k
        <3>2. CopyFits(pve, m.status, m.items, m, next) /\ next \in ControlRecords
              /\ next.at \in Inside
            BY <1>6, <2>2
        <3>3. Grows(pve, pve)
            BY DEF Grows
        <3>4. CopyFits(pve, m.status, items', m, next)
            BY <1>3, <1>6, <3>2, <3>3, FitsStay
        <3>5. CopyFits(pve, m.status, items', kept, next)
            BY <3>1, <3>4, SameFits
        <3>6. next.at \in InSubmit => \A i \in next.todo : items'[i].status # "QUEUED"
            <4> SUFFICES ASSUME next.at \in InSubmit, NEW i \in next.todo
                         PROVE  items'[i].status # "QUEUED"
                OBVIOUS
            <4>1. i \in Items
                BY <3>2 DEF ControlRecords
            <4>2. \/ i \in ItemsOf(m.op) /\ m.items[i].status # "QUEUED"
                  \/ items[i].status # "QUEUED"
                BY <1>6, <2>2
            <4> QED BY <1>3, <1>6, <4>1, <4>2
        <3>7. WorkerFits(pve, row', items', kept, next)
            BY <1>3, <1>6, <3>1, <3>2, <3>5, <3>6 DEF WorkerFits, Inside
        <3>8. mem' = [mem EXCEPT ![w] = kept]
            BY <1>6, <3>1
        <3> QED BY <1>2, <1>6, <3>7, <3>8, CommitStep
    <2> QED BY <2>1, <2>2
<1>7. CASE /\ Current(m) /\ Commit(m)
           /\ mem' = [mem EXCEPT ![w] = IF next = Idle THEN NoMemory
                                       ELSE [m EXCEPT !.version = m.version + 1]]
           /\ ctl' = [ctl EXCEPT ![w] = next]
    BY <1>6, <1>7
<1> HIDE DEF o, k, kept
<1>8. CASE /\ \/ UNCHANGED <<row, items, lease>>
              \/ Current(m) /\ Commit(m)
           /\ mem' = [mem EXCEPT ![w] = m]
           /\ ctl' = [ctl EXCEPT ![w] = Failing]
    BY <1>4, <1>5, <1>8
<1> QED BY <1>7, <1>8 DEF Save

\* Transition and SaveOperation.
LEMMA Restated ==
    ASSUME NEW m \in MemoryRecords, NEW status \in OperationStatuses
    PROVE  LET k == [m EXCEPT !.status = status]
           IN  k \in MemoryRecords /\ Restates(m, k, status) /\ k.version = m.version
BY DEF MemoryRecords, Restates

LEMMA SaveAsRecords ==
    ASSUME RecordInv, CopyInv', NEW w \in Workers, Loaded(w),
           NEW status \in OperationStatuses, NEW next, SaveAs(w, status, mem[w], next),
           NEW k \in MemoryRecords, Restates(mem[w], k, status), k.version = mem[w].version,
           Current(mem[w]) /\ CanTransition(mem[w].status, status) =>
                /\ MaySave(pve, row[mem[w].op].status, items, k)
                /\ status \in {"QUEUED", "VALIDATING"} =>
                        \A i \in ItemsOf(k.op) : k.items[i] = NewItem
                /\ \/ next = Idle
                   \/ /\ next \in ControlRecords /\ next.at \in Inside
                      /\ CopyFits(pve, k.status, k.items, k, next)
                      /\ next.at \in InSubmit =>
                            \A i \in next.todo :
                                \/ i \in ItemsOf(k.op) /\ k.items[i].status # "QUEUED"
                                \/ items[i].status # "QUEUED"
    PROVE  Rest' /\ KeepsPromise
<1>1. /\ \A i \in Items : mem[w].items[i].status # "SKIPPED"
      /\ mem[w] \in MemoryRecords
    BY FactsOfRecordInv DEF RecordInv, NeverSkipped
<1>2. k = [mem[w] EXCEPT !.status = status]
    BY <1>1 DEF Restates, MemoryRecords
<1>3. CASE CanTransition(mem[w].status, status)
    <2>1. Save(w, k, next)
        BY <1>2, <1>3 DEF SaveAs
    <2>2. Saveable(w, k) /\ \A i \in Items : k.items[i].status # "SKIPPED"
        BY <1>1 DEF Saveable, Restates
    <2>3. Current(k) => Current(mem[w])
        BY DEF Current, Restates
    <2>4. k.op = mem[w].op /\ k.status = status
        BY DEF Restates
    <2> HIDE DEF Save
    <2> QED BY <1>3, <2>1, <2>2, <2>3, <2>4, SaveRecords
<1>4. CASE ~CanTransition(mem[w].status, status)
    <2>1. /\ ctl' = [ctl EXCEPT ![w] = Failing] /\ mem' = [mem EXCEPT ![w] = mem[w]]
          /\ UNCHANGED <<row, items, lease, pve>>
        BY <1>4 DEF SaveAs, stored
    <2>2. Current(mem[w]) => MaySave(pve, row[mem[w].op].status, items, mem[w])
        BY FactsOfRecordInv DEF CopyFits
    <2>3. WorkerFits(pve, row, items, mem[w], Failing)
        BY <1>1, <2>2, FailingWorker DEF Current
    <2>4. \A p \in Ops : Terminal(row[p].status) => lease'[p] = NoLease
        BY <2>1 DEF RecordInv, StoredSound
    <2>5. Grows(pve, pve') /\ \A r \in DOMAIN pve' : items[pve'[r].item].status # "QUEUED"
        BY <2>1, NothingSent
    <2>6. WorkerFits(pve', row, items, mem[w], Failing)
        BY <2>1, <2>3
    <2> QED BY <2>1, <2>4, <2>5, <2>6, PrivateStep
<1> QED BY <1>3, <1>4

LEMMA RenewRecords ==
    ASSUME RecordInv, CopyInv', NEW w \in Workers, Loaded(w),
           NEW next, Renew(w, next), next.at \in Inside,
           Current(mem[w]) /\ ~Terminal(row[mem[w].op].status) =>
                CopyFits(pve, row[mem[w].op].status, items, mem[w], next),
           next.at \in InSubmit => ctl[w].at \in InSubmit /\ next.todo \subseteq ctl[w].todo
    PROVE  Rest' /\ KeepsPromise
<1>1. /\ \A i \in Items : mem[w].items[i].status # "SKIPPED"
      /\ TypeOK /\ mem[w].op \in Ops
    BY FactsOfRecordInv DEF RecordInv, NeverSkipped, Loaded
<1>2. UNCHANGED <<row, items, pve>> /\ mem' = [mem EXCEPT ![w] = mem[w]]
    BY <1>1 DEF Renew, TypeOK
<1>3. \A p \in Ops : Terminal(row[p].status) => lease'[p] = NoLease
    <2>1. CASE UNCHANGED lease
        BY <2>1 DEF RecordInv, StoredSound
    <2>2. CASE /\ HoldsLease(w, mem[w].op)
               /\ lease' = [lease EXCEPT ![mem[w].op].until = "ahead"]
        BY <1>1, <2>2 DEF RecordInv, StoredSound, HoldsLease, TypeOK
    <2> QED BY <2>1, <2>2 DEF Renew
<1>4. Grows(pve, pve') /\ \A r \in DOMAIN pve' : items[pve'[r].item].status # "QUEUED"
    BY <1>2, NothingSent
<1>5. CASE ctl' = [ctl EXCEPT ![w] = Failing]
    <2>1. Current(mem[w]) => MaySave(pve, row[mem[w].op].status, items, mem[w])
        BY FactsOfRecordInv DEF CopyFits
    <2>2. WorkerFits(pve', row, items, mem[w], Failing)
        BY <1>1, <1>2, <2>1, FailingWorker DEF Current
    <2> QED BY <1>2, <1>3, <1>4, <1>5, <2>2, PrivateStep
<1>6. CASE HoldsLease(w, mem[w].op) /\ ctl' = [ctl EXCEPT ![w] = next]
    <2>1. Current(mem[w]) => CopyFits(pve, row[mem[w].op].status, items, mem[w], next)
        BY <1>6 DEF HoldsLease
    <2>2. next.at \in InSubmit => \A i \in next.todo : items[i].status # "QUEUED"
        BY DEF RecordInv, MarksStored
    <2>3. WorkerFits(pve', row, items, mem[w], next)
        BY <1>1, <1>2, <2>1, <2>2 DEF WorkerFits, Current, Inside
    <2> QED BY <1>2, <1>3, <1>4, <1>6, <2>3, PrivateStep
<1> QED BY <1>5, <1>6 DEF Renew

LEMMA ApplyRecords ==
    ASSUME RecordInv, CopyInv', NEW w \in Workers, Loaded(w),
           NEW i \in Items, NEW status, NEW next, Apply(w, i, status, next),
           status \in ItemStatuses \ {"SKIPPED"}, next.at \in Inside,
           NEW k, k = WithItem(mem[w], i, status),
           Current(mem[w]) => CopyFits(pve, row[mem[w].op].status, items, k, next),
           next.at \in InSubmit => ctl[w].at \in InSubmit /\ next.todo \subseteq ctl[w].todo
    PROVE  Rest' /\ KeepsPromise
<1>1. /\ \A j \in Items : mem[w].items[j].status # "SKIPPED"
      /\ TypeOK /\ mem[w].op \in Ops /\ mem[w] \in MemoryRecords
    BY FactsOfRecordInv DEF RecordInv, NeverSkipped, Loaded
<1>2. /\ k.op = mem[w].op /\ k.version = mem[w].version
      /\ \A j \in Items : k.items[j].status # "SKIPPED"
    <2>1. /\ k.op = mem[w].op /\ k.version = mem[w].version
          /\ k.items[i] = [status |-> status, upid |-> mem[w].items[i].upid]
          /\ \A j \in Items : j # i => k.items[j] = mem[w].items[j]
        BY <1>1, OneItem
    <2>2. k.items[i].status = status
        BY <2>1
    <2> QED BY <1>1, <2>1, <2>2
<1>3. UNCHANGED <<row, items, lease, pve>> /\ mem' = [mem EXCEPT ![w] = k]
    BY <1>1 DEF Apply, TypeOK
<1>4. \A p \in Ops : Terminal(row[p].status) => lease'[p] = NoLease
    BY <1>3 DEF RecordInv, StoredSound
<1>5. Grows(pve, pve') /\ \A r \in DOMAIN pve' : items[pve'[r].item].status # "QUEUED"
    BY <1>3, NothingSent
<1>6. CASE ctl' = [ctl EXCEPT ![w] = Failing]
    <2>1. row[k.op].version = k.version => MaySave(pve, row[k.op].status, items, k)
        BY <1>2 DEF CopyFits, Current
    <2>2. WorkerFits(pve', row, items, k, Failing)
        BY <1>2, <1>3, <2>1, FailingWorker
    <2> QED BY <1>3, <1>4, <1>5, <1>6, <2>2, PrivateStep
<1>7. CASE ctl' = [ctl EXCEPT ![w] = next]
    <2>1. next.at \in InSubmit => \A j \in next.todo : items[j].status # "QUEUED"
        BY DEF RecordInv, MarksStored
    <2>2. WorkerFits(pve', row, items, k, next)
        BY <1>2, <1>3, <2>1 DEF WorkerFits, Current, Inside
    <2> QED BY <1>3, <1>4, <1>5, <1>7, <2>2, PrivateStep
<1> QED BY <1>6, <1>7 DEF Apply
-----------------------------------------------------------------------------
(* Every action of execute is one of these calls, or moves on by itself.     *)
LEMMA Replaced ==
    ASSUME NEW m \in MemoryRecords, NEW i \in Items, NEW status \in ItemStatuses
    PROVE  LET k == WithItem(m, i, status)
           IN  /\ k \in MemoryRecords
               /\ Replaces(m, k, i, [status |-> status, upid |-> m.items[i].upid])
BY OneItem DEF Replaces

\* Steps that change nothing but the copy and the place of a worker.
LEMMA MoveRecords ==
    ASSUME RecordInv, NEW w \in Workers, Loaded(w),
           NEW m, NEW next, next.at \in Inside,
           m.op = mem[w].op, m.version = mem[w].version,
           \A i \in Items : m.items[i].status # "SKIPPED",
           UNCHANGED <<row, items, lease, pve>>,
           mem' = [mem EXCEPT ![w] = m], ctl' = [ctl EXCEPT ![w] = next],
           Current(mem[w]) => CopyFits(pve, row[mem[w].op].status, items, m, next),
           next.at \in InSubmit => ctl[w].at \in InSubmit /\ next.todo \subseteq ctl[w].todo
    PROVE  Rest' /\ KeepsPromise
<1>1. \A p \in Ops : Terminal(row[p].status) => lease'[p] = NoLease
    BY DEF RecordInv, StoredSound
<1>2. Grows(pve, pve') /\ \A r \in DOMAIN pve' : items[pve'[r].item].status # "QUEUED"
    BY NothingSent
<1>3. next.at \in InSubmit => \A j \in next.todo : items[j].status # "QUEUED"
    BY DEF RecordInv, MarksStored
<1>4. WorkerFits(pve', row, items, m, next)
    BY <1>3 DEF WorkerFits, Current, Inside
<1> QED BY <1>1, <1>2, <1>4, PrivateStep

LEMMA ExecuteRecords ==
    ASSUME RecordInv, CopyInv', NEW w \in Workers, Execute(w)
    PROVE  Rest' /\ KeepsPromise
<1> DEFINE Goal == Rest' /\ KeepsPromise
           s == row[mem[w].op].status
<1>0. /\ ctl[w] \in ControlRecords /\ mem[w] \in MemoryRecords
      /\ ctl[w].todo \subseteq Items /\ ctl[w].rest \subseteq Items
      /\ ctl[w].wave \subseteq Items /\ ctl[w].call \in Nat /\ ctl[w].at \in Labels
      /\ TypeOK /\ \A i \in Items : mem[w].items[i].status # "SKIPPED"
    BY FactsOfRecordInv DEF ControlRecords, RecordInv, NeverSkipped
<1>1. ASSUME ctl[w].at \in Inside
      PROVE  /\ Loaded(w) /\ s \in OperationStatuses
             /\ Current(mem[w]) => CopyFits(pve, s, items, mem[w], ctl[w])
    BY <1>1, FactsOfRecordInv DEF Loaded, Working, Inside
<1>2. /\ {"begin", "validate", "check", "wave", "mark", "submit", "send", "reply", "saveSubmit",
          "wait", "unresolved", "result", "saveResult", "finish", "fail"} \subseteq Inside
      /\ Inside \subseteq Labels
      /\ {"VALIDATING", "RUNNING", "WAITING_PVE", "VERIFYING"} \subseteq OperationStatuses
      /\ {"FAILED", "RUNNING", "UNKNOWN", "SUCCEEDED", "VERIFYING", "WAITING_PVE"}
            \subseteq ItemStatuses \ {"SKIPPED"}
      /\ {"begin", "validate", "check", "wave", "mark", "finish"} \cap InSubmit = {}
      /\ InWait \cap InSubmit = {}
    BY DEF Inside, Labels, OperationStatuses, ItemStatuses, InSubmit, InWait
<1>3. CASE Begin(w)
    <2>1. ctl[w].at = "begin" /\ Renew(w, Resume(mem[w]))
        BY <1>3 DEF Begin
    <2>2. Resume(mem[w]) \in ControlRecords
        BY ResumeProper, FactsOfRecordInv DEF Proper
    <2>3. Resume(mem[w]).at \in {"validate", "check", "wave", "finish"}
        BY DEF Resume, At
    <2>4. Current(mem[w]) /\ ~Terminal(s) => CopyFits(pve, s, items, mem[w], Resume(mem[w]))
        BY <1>0, <1>1, <1>2, <2>1, <2>2, BeginFits
    <2>5. Loaded(w) /\ Resume(mem[w]).at \in Inside /\ Resume(mem[w]).at \notin InSubmit
        BY <1>1, <1>2, <2>1, <2>3
    <2> QED BY <2>1, <2>4, <2>5, RenewRecords
<1>4. CASE Validate(w)
    <2> DEFINE next == [At("check") EXCEPT !.todo = Unready(mem[w])]
               k == [mem[w] EXCEPT !.status = "VALIDATING"]
    <2>1. ctl[w].at = "validate" /\ SaveAs(w, "VALIDATING", mem[w], next)
        BY <1>4 DEF Validate
    <2>2. next \in ControlRecords /\ next.at = "check" /\ next.todo = Unready(mem[w])
        BY <1>0, PlaceTypes, FactsOfRecordInv DEF At, ControlRecords, Labels
    <2>3. /\ k \in MemoryRecords /\ Restates(mem[w], k, "VALIDATING")
          /\ k.version = mem[w].version
        BY <1>0, <1>2, Restated
    <2> HIDE DEF next, k
    <2>4. Loaded(w)
        BY <1>1, <1>2, <2>1
    <2>5. ASSUME Current(mem[w])
          PROVE  /\ MaySave(pve, s, items, k)
                 /\ CopyFits(pve, k.status, k.items, k, next)
                 /\ \A i \in ItemsOf(k.op) : k.items[i] = NewItem
        <3>1. CopyFits(pve, s, items, mem[w], ctl[w])
            BY <1>1, <1>2, <2>1, <2>5
        <3>2. \A i \in ItemsOf(k.op) : k.items[i] = NewItem
            BY <2>1, <2>3, <3>1 DEF CopyFits, StatusFits, FreshFits, Restates
        <3> QED BY <1>0, <2>1, <2>2, <2>3, <3>1, <3>2, ValidateFits
    <2> QED BY <1>2, <2>1, <2>2, <2>3, <2>4, <2>5, SaveAsRecords
<1>5. CASE Check(w)
    <2>1. PICK i \in ctl[w].todo :
            Apply(w, i, "FAILED", [ctl[w] EXCEPT !.todo = @ \ {i}])
        BY <1>5 DEF Check
    <2> DEFINE next == [ctl[w] EXCEPT !.todo = @ \ {i}]
               k == WithItem(mem[w], i, "FAILED")
    <2>2. /\ ctl[w].at = "check" /\ Apply(w, i, "FAILED", next)
          /\ next.at = "check" /\ next.todo \subseteq ctl[w].todo
        BY <1>0, <1>5, <2>1 DEF Check, ControlRecords
    <2>3. /\ k \in MemoryRecords
          /\ Replaces(mem[w], k, i, [status |-> "FAILED", upid |-> mem[w].items[i].upid])
          /\ [status |-> "FAILED", upid |-> mem[w].items[i].upid] \in ItemRecords
        BY <1>0, <1>2, Replaced DEF MemoryRecords, ItemRecords
    <2> HIDE DEF next, k
    <2>4. Current(mem[w]) => CopyFits(pve, s, items, k, next)
        BY <1>0, <1>1, <1>2, <2>2, <2>3, CheckFits
    <2>5. Loaded(w) /\ i \in Items /\ next.at \in Inside /\ next.at \notin InSubmit
        BY <1>0, <1>1, <1>2, <2>2
    <2> QED BY <1>2, <2>2, <2>4, <2>5, ApplyRecords DEF k
<1>6. CASE StartRunning(w)
    <2> DEFINE next == [At("wave") EXCEPT !.rest = Pending(mem[w])]
               k == [mem[w] EXCEPT !.status = "RUNNING"]
    <2>1. ctl[w].at = "check" /\ SaveAs(w, "RUNNING", mem[w], next)
        BY <1>6 DEF StartRunning
    <2>2. next \in ControlRecords /\ next.at = "wave" /\ next.rest = Pending(mem[w])
        BY <1>0, PlaceTypes, FactsOfRecordInv DEF At, ControlRecords, Labels
    <2>3. /\ k \in MemoryRecords /\ Restates(mem[w], k, "RUNNING")
          /\ k.version = mem[w].version
        BY <1>0, <1>2, Restated
    <2> HIDE DEF next, k
    <2>4. Loaded(w)
        BY <1>1, <1>2, <2>1
    <2>5. ASSUME Current(mem[w])
          PROVE  /\ MaySave(pve, s, items, k)
                 /\ CopyFits(pve, k.status, k.items, k, next)
        BY <1>0, <1>1, <1>2, <2>1, <2>2, <2>3, <2>5, StartRunningFits
    <2> QED BY <1>2, <2>1, <2>2, <2>3, <2>4, <2>5, SaveAsRecords
<1>7. CASE StartWave(w)
    <2> DEFINE wave == NextWave(ctl[w].rest)
               next == [ctl[w] EXCEPT
                !.at = "mark", !.wave = wave, !.rest = @ \ wave,
                !.todo = {i \in wave :
                            mem[w].items[i].status \in {"QUEUED", "RUNNING"}}]
    <2>1. ctl[w].at = "wave" /\ Renew(w, next)
        BY <1>7 DEF StartWave
    <2>2. wave \subseteq ctl[w].rest
        BY DEF NextWave
    <2>3. /\ next.at = "mark" /\ next.wave = wave /\ next.rest = ctl[w].rest \ wave
          /\ next.todo = {i \in wave : mem[w].items[i].status \in {"QUEUED", "RUNNING"}}
        BY <1>0 DEF ControlRecords
    <2> HIDE DEF next, wave
    <2>4. Current(mem[w]) => CopyFits(pve, s, items, mem[w], next)
        BY <1>0, <1>1, <1>2, <2>1, <2>2, <2>3, StartWaveFits
    <2>5. Loaded(w) /\ next.at \in Inside /\ next.at \notin InSubmit
        BY <1>1, <1>2, <2>1, <2>3
    <2> QED BY <2>1, <2>4, <2>5, RenewRecords
<1>8. CASE Mark(w)
    <2>1. PICK i \in ctl[w].todo :
            Apply(w, i, "RUNNING", [ctl[w] EXCEPT !.todo = @ \ {i}])
        BY <1>8 DEF Mark
    <2> DEFINE next == [ctl[w] EXCEPT !.todo = @ \ {i}]
               k == WithItem(mem[w], i, "RUNNING")
    <2>2. /\ ctl[w].at = "mark" /\ Apply(w, i, "RUNNING", next)
          /\ Moves(ctl[w], next, "mark", ctl[w].todo \ {i})
        BY <1>0, <1>8, <2>1 DEF Mark, ControlRecords, Moves
    <2>3. /\ k \in MemoryRecords
          /\ Replaces(mem[w], k, i, [status |-> "RUNNING", upid |-> mem[w].items[i].upid])
        BY <1>0, <1>2, Replaced
    <2> HIDE DEF next, k
    <2>4. Current(mem[w]) => CopyFits(pve, s, items, k, next)
        BY <1>0, <1>1, <1>2, <2>2, <2>3, MarkFits
    <2>5. Loaded(w) /\ i \in Items /\ next.at \in Inside /\ next.at \notin InSubmit
        BY <1>0, <1>1, <1>2, <2>2 DEF Moves
    <2> QED BY <1>2, <2>2, <2>4, <2>5, ApplyRecords DEF k
<1>9. CASE SaveWave(w)
    <2> DEFINE next == [ctl[w] EXCEPT !.at = "submit", !.todo = ctl[w].wave]
               k == [mem[w] EXCEPT !.status = "RUNNING"]
    <2>1. ctl[w].at = "mark" /\ ctl[w].todo = {} /\ SaveAs(w, "RUNNING", mem[w], next)
        BY <1>9 DEF SaveWave
    <2>2. next \in ControlRecords /\ Moves(ctl[w], next, "submit", ctl[w].wave)
        BY <1>0 DEF ControlRecords, Labels, Moves
    <2>3. /\ k \in MemoryRecords /\ Restates(mem[w], k, "RUNNING")
          /\ k.version = mem[w].version
        BY <1>0, <1>2, Restated
    <2> HIDE DEF next, k
    <2>4. Loaded(w) /\ next.at \in Inside
        BY <1>1, <1>2, <2>1, <2>2 DEF Moves
    <2>5. ASSUME Current(mem[w]), CanTransition(mem[w].status, "RUNNING")
          PROVE  /\ MaySave(pve, s, items, k)
                 /\ CopyFits(pve, k.status, k.items, k, next)
                 /\ \A i \in next.todo : i \in ItemsOf(k.op) /\ k.items[i].status # "QUEUED"
        <3>1. CopyFits(pve, s, items, mem[w], ctl[w])
            BY <1>1, <1>2, <2>1, <2>5
        <3>2. mem[w].status = s
            BY <2>1, <3>1 DEF CopyFits, StatusFits
        <3>3. mem[w] \in MemoryRecords /\ CanTransition(s, "RUNNING")
            BY <1>0, <2>5, <3>2
        <3> HIDE DEF s
        <3> QED BY <2>1, <2>2, <2>3, <3>1, <3>3, SaveWaveFits
    <2> QED BY <1>2, <2>1, <2>2, <2>3, <2>4, <2>5, SaveAsRecords
<1>10. CASE Track(w)
    <2>1. PICK i \in ctl[w].todo :
            /\ mem[w].items[i].upid # NoUPID
            /\ mem' = [mem EXCEPT ![w] = WithItem(@, i, "WAITING_PVE")]
            /\ ctl' = [ctl EXCEPT ![w].todo = @ \ {i}]
        BY <1>10 DEF Track
    <2> DEFINE k == WithItem(mem[w], i, "WAITING_PVE")
               next == [ctl[w] EXCEPT !.todo = @ \ {i}]
    <2>2. /\ mem' = [mem EXCEPT ![w] = k] /\ ctl' = [ctl EXCEPT ![w] = next]
          /\ ctl[w].at = "submit" /\ UNCHANGED <<row, items, lease, pve>>
          /\ Moves(ctl[w], next, "submit", ctl[w].todo \ {i})
        BY <1>0, <1>10, <2>1 DEF TypeOK, Track, stored, Moves, ControlRecords
    <2>3. /\ k \in MemoryRecords /\ k.op = mem[w].op /\ k.version = mem[w].version
          /\ Replaces(mem[w], k, i, [status |-> "WAITING_PVE", upid |-> mem[w].items[i].upid])
        BY <1>0, <1>2, Replaced, OneItem
    <2> HIDE DEF next, k
    <2>4. Current(mem[w]) => CopyFits(pve, s, items, k, next)
        BY <1>0, <1>1, <1>2, <2>1, <2>2, <2>3, TrackFits
    <2>5. /\ Loaded(w) /\ next.at \in Inside /\ ctl[w].at \in InSubmit
          /\ next.todo \subseteq ctl[w].todo
        BY <1>1, <1>2, <2>2 DEF Moves, InSubmit
    <2>6. \A j \in Items : k.items[j].status # "SKIPPED"
        BY <1>0, <2>3 DEF Replaces
    <2> QED BY <2>2, <2>3, <2>4, <2>5, <2>6, MoveRecords
<1>11. CASE RenewForSubmit(w)
    <2> DEFINE next == [ctl[w] EXCEPT !.at = "send"]
    <2>1. /\ ctl[w].at = "submit" /\ Renew(w, next)
          /\ Moves(ctl[w], next, "send", ctl[w].todo)
        BY <1>0, <1>11 DEF RenewForSubmit, Moves, ControlRecords
    <2> HIDE DEF next
    <2>2. Current(mem[w]) => CopyFits(pve, s, items, mem[w], next)
        BY <1>0, <1>1, <1>2, <2>1, NextPlaceFits
    <2>3. /\ Loaded(w) /\ next.at \in Inside /\ ctl[w].at \in InSubmit
          /\ next.todo \subseteq ctl[w].todo
        BY <1>1, <1>2, <2>1 DEF Moves, InSubmit
    <2> QED BY <2>1, <2>2, <2>3, RenewRecords
<1>12. CASE Send(w)
    <2>1. PICK i \in ctl[w].todo :
            IsFirst(i, ctl[w].todo) /\ pve' = Append(pve, [item |-> i, state |-> "sent"])
        BY <1>12 DEF Send
    <2> DEFINE next == [ctl[w] EXCEPT !.at = "reply", !.call = Len(pve) + 1]
               request == [item |-> i, state |-> "sent"]
    <2>2. /\ ctl[w].at = "send" /\ ctl' = [ctl EXCEPT ![w] = next]
          /\ Moves(ctl[w], next, "reply", ctl[w].todo) /\ next.call = Len(pve) + 1
          /\ UNCHANGED <<row, items, lease>> /\ mem' = [mem EXCEPT ![w] = mem[w]]
        BY <1>0, <1>12 DEF Send, TypeOK, Moves, ControlRecords, stored
    <2>3. /\ Grows(pve, pve') /\ DOMAIN pve' = DOMAIN pve \cup {next.call}
          /\ pve'[next.call] = request /\ \A r \in DOMAIN pve : pve'[r] = pve[r]
        <3>1. pve \in Seq(RequestRecords) /\ request \in RequestRecords
            BY <1>0 DEF TypeOK, RequestRecords
        <3>2. pve' = Append(pve, request)
            BY <2>1
        <3> HIDE DEF request, next
        <3> QED BY <2>2, <3>1, <3>2 DEF Grows
    <2>4. pve'[next.call].item = i /\ next.call \in DOMAIN pve'
        BY <2>3
    <2> HIDE DEF next, request
    <2>5. Current(mem[w]) => CopyFits(pve', s, items, mem[w], next)
        BY <1>0, <1>1, <1>2, <2>1, <2>2, <2>3, <2>4, SendFits
    <2>6. Loaded(w) /\ next.at \in Inside /\ ctl[w].at \in InSubmit /\ next.todo = ctl[w].todo
        BY <1>1, <1>2, <2>2 DEF Moves, InSubmit
    <2>7. \A j \in ctl[w].todo : items[j].status # "QUEUED"
        BY <2>6 DEF RecordInv, MarksStored
    <2>8. WorkerFits(pve', row, items, mem[w], next)
        BY <1>0, <2>5, <2>6, <2>7 DEF WorkerFits, Current, Inside
    <2>9. \A r \in DOMAIN pve' : items[pve'[r].item].status # "QUEUED"
        BY <2>3, <2>4, <2>7 DEF RecordInv, IntentIsRecorded
    <2>10. \A p \in Ops : Terminal(row[p].status) => lease'[p] = NoLease
        BY <2>2 DEF RecordInv, StoredSound
    <2> QED BY <2>2, <2>3, <2>8, <2>9, <2>10, PrivateStep
<1>13. CASE Accepted(w)
    <2>1. PICK i \in ctl[w].todo :
            /\ IsFirst(i, ctl[w].todo)
            /\ Save(w, [mem[w] EXCEPT !.items[i] =
                            [status |-> "WAITING_PVE", upid |-> ctl[w].call]],
                    [ctl[w] EXCEPT !.at = "submit", !.todo = @ \ {i}, !.call = 0])
        BY <1>13 DEF Accepted
    <2> DEFINE next == [ctl[w] EXCEPT !.at = "submit", !.todo = @ \ {i}, !.call = 0]
               r == [status |-> "WAITING_PVE", upid |-> ctl[w].call]
               k == [mem[w] EXCEPT !.items[i] = r]
    <2>2. /\ ctl[w].at = "reply" /\ next \in ControlRecords
          /\ Moves(ctl[w], next, "submit", ctl[w].todo \ {i})
        BY <1>0, <1>13 DEF Accepted, ControlRecords, Labels, Moves
    <2>3. mem[w].items[i].upid = NoUPID
        BY <1>0, <2>1, <2>2 DEF RecordInv, CopyInv, SubmitsWithoutUpid
    <2>4. r \in ItemRecords /\ r = [status |-> "WAITING_PVE", upid |-> ctl[w].call]
          /\ r.status # "SKIPPED"
        BY <1>0, <1>2 DEF ItemRecords
    <2>5. Save(w, k, next)
        BY <2>1
    <2>6. k.status = mem[w].status
        BY <1>0 DEF MemoryRecords
    <2> HIDE DEF next, r
    <2>7. /\ k \in MemoryRecords /\ Replaces(mem[w], k, i, r) /\ Saveable(w, k)
          /\ k.op = mem[w].op /\ k.version = mem[w].version
        BY <1>0, <2>3, <2>4, <2>6, ItemReplaced DEF Saveable, Replaces
    <2> HIDE DEF k
    <2>8. \A j \in Items : k.items[j].status # "SKIPPED"
        BY <1>0, <2>4, <2>7 DEF Replaces
    <2>9. Loaded(w) /\ next.at \in Inside /\ ctl[w].at \in InSubmit
          /\ next.todo \subseteq ctl[w].todo
        BY <1>1, <1>2, <2>2 DEF Moves, InSubmit
    <2>10. \A j \in next.todo : items[j].status # "QUEUED"
        BY <2>9 DEF RecordInv, MarksStored
    <2>11. ASSUME Current(k)
           PROVE  /\ MaySave(pve, s, items, k) /\ CopyFits(pve, k.status, k.items, k, next)
                  /\ k.status \notin {"QUEUED", "VALIDATING"}
        <3>1. CopyFits(pve, s, items, mem[w], ctl[w])
            BY <1>1, <1>2, <2>2, <2>7, <2>11 DEF Current
        <3>2. ctl[w].call \in Nat \ {0}
            BY <1>0, <2>1, <2>2, <3>1
            DEF CopyFits, LoopFits, PveFits, InWave, InSubmit, TypeOK
        <3>3. k.status \notin {"QUEUED", "VALIDATING"}
            BY <2>2, <2>6, <3>1 DEF CopyFits, StatusFits, InWave, InSubmit
        <3> QED BY <1>0, <2>1, <2>2, <2>3, <2>4, <2>7, <3>1, <3>2, <3>3, AcceptedFits
    <2> QED BY <2>2, <2>5, <2>7, <2>8, <2>9, <2>10, <2>11, SaveRecords
<1>14. CASE NotAccepted(w)
    <2>1. PICK i \in ctl[w].todo, status \in {"FAILED", "UNKNOWN"} :
            /\ IsFirst(i, ctl[w].todo)
            /\ Apply(w, i, status, [ctl[w] EXCEPT !.at = "saveSubmit", !.call = 0])
        BY <1>14 DEF NotAccepted
    <2> DEFINE next == [ctl[w] EXCEPT !.at = "saveSubmit", !.call = 0]
               k == WithItem(mem[w], i, status)
    <2>2. /\ ctl[w].at = "reply" /\ Apply(w, i, status, next)
          /\ Moves(ctl[w], next, "saveSubmit", ctl[w].todo)
        BY <1>0, <1>14, <2>1 DEF NotAccepted, ControlRecords, Moves
    <2>3. mem[w].items[i].upid = NoUPID
        BY <1>0, <2>1, <2>2 DEF RecordInv, CopyInv, SubmitsWithoutUpid
    <2>4. status \in ItemStatuses \ {"SKIPPED"} /\ k \in MemoryRecords
          /\ Replaces(mem[w], k, i, [status |-> status, upid |-> mem[w].items[i].upid])
        BY <1>0, <1>2, Replaced
    <2> HIDE DEF next, k
    <2>5. Current(mem[w]) => CopyFits(pve, s, items, k, next)
        BY <1>0, <1>1, <1>2, <2>1, <2>2, <2>3, <2>4, NotAcceptedFits
    <2>6. /\ Loaded(w) /\ i \in Items /\ next.at \in Inside /\ ctl[w].at \in InSubmit
          /\ next.todo \subseteq ctl[w].todo
        BY <1>0, <1>1, <1>2, <2>2 DEF Moves, InSubmit
    <2> QED BY <2>2, <2>4, <2>5, <2>6, ApplyRecords DEF k
<1>15. CASE SaveSubmit(w)
    <2>1. PICK i \in ctl[w].todo :
            /\ IsFirst(i, ctl[w].todo)
            /\ Save(w, mem[w], [ctl[w] EXCEPT !.at = "submit", !.todo = @ \ {i}])
        BY <1>15 DEF SaveSubmit
    <2> DEFINE next == [ctl[w] EXCEPT !.at = "submit", !.todo = @ \ {i}]
    <2>2. /\ ctl[w].at = "saveSubmit" /\ next \in ControlRecords /\ Save(w, mem[w], next)
          /\ Moves(ctl[w], next, "submit", ctl[w].todo \ {i})
        BY <1>0, <1>15, <2>1 DEF SaveSubmit, ControlRecords, Labels, Moves
    <2> HIDE DEF next
    <2>3. Loaded(w) /\ next.at \in Inside /\ Saveable(w, mem[w])
        BY <1>1, <1>2, <2>2, PlaceTypes, FactsOfRecordInv DEF Moves
    <2>4. next.at \in InSubmit => \A j \in next.todo : items[j].status # "QUEUED"
        BY <1>2, <2>2 DEF RecordInv, MarksStored, Moves, InSubmit, InWait
    <2>5. ASSUME Current(mem[w])
          PROVE  /\ MaySave(pve, s, items, mem[w])
                 /\ CopyFits(pve, mem[w].status, mem[w].items, mem[w], next)
                 /\ mem[w].status \notin {"QUEUED", "VALIDATING"}
        <3>1. CopyFits(pve, s, items, mem[w], ctl[w])
            BY <1>1, <1>2, <2>2, <2>5
        <3>2. mem[w].status \notin {"QUEUED", "VALIDATING"}
            BY <2>2, <3>1 DEF CopyFits, StatusFits, InWave, InSubmit, InWait
        <3> QED BY <1>0, <2>1, <2>2, <3>1, <3>2, SaveSubmitFits
    <2> QED BY <1>0, <2>2, <2>3, <2>4, <2>5, SaveRecords
<1>16. CASE StartWaiting(w)
    <2> DEFINE todo == {i \in ctl[w].wave : mem[w].items[i].status \notin SettledStatuses}
               next == [ctl[w] EXCEPT !.at = "wait", !.todo = todo]
               k == [mem[w] EXCEPT !.status = "WAITING_PVE"]
    <2>1. ctl[w].at = "submit" /\ ctl[w].todo = {} /\ SaveAs(w, "WAITING_PVE", mem[w], next)
        BY <1>16 DEF StartWaiting
    <2>2. next \in ControlRecords /\ Moves(ctl[w], next, "wait", todo)
        BY <1>0 DEF ControlRecords, Labels, Moves
    <2>3. /\ k \in MemoryRecords /\ Restates(mem[w], k, "WAITING_PVE")
          /\ k.version = mem[w].version
        BY <1>0, <1>2, Restated
    <2> HIDE DEF next, k
    <2>4. Loaded(w) /\ next.at \in Inside /\ next.at \notin InSubmit
        BY <1>1, <1>2, <2>1, <2>2 DEF Moves, InSubmit
    <2>5. ASSUME Current(mem[w]), CanTransition(mem[w].status, "WAITING_PVE")
          PROVE  /\ MaySave(pve, s, items, k)
                 /\ CopyFits(pve, k.status, k.items, k, next)
        <3>1. CopyFits(pve, s, items, mem[w], ctl[w])
            BY <1>1, <1>2, <2>1, <2>5
        <3>2. mem[w].status = s
            BY <2>1, <3>1 DEF CopyFits, StatusFits
        <3> QED BY <1>0, <2>1, <2>2, <2>3, <2>5, <3>1, <3>2, StartWaitingFits
    <2> QED BY <1>2, <2>1, <2>2, <2>3, <2>4, <2>5, SaveAsRecords
<1>17. CASE TaskEnded(w)
    <2>1. PICK i \in ctl[w].todo :
            /\ IsFirst(i, ctl[w].todo)
            /\ pve[mem[w].items[i].upid].state \in {"ok", "failed"}
            /\ Save(w, WithItem(mem[w], i, "VERIFYING"), [ctl[w] EXCEPT !.at = "result"])
        BY <1>17 DEF TaskEnded
    <2> DEFINE next == [ctl[w] EXCEPT !.at = "result"]
               k == WithItem(mem[w], i, "VERIFYING")
    <2>2. /\ ctl[w].at = "wait" /\ next \in ControlRecords /\ Save(w, k, next)
          /\ Moves(ctl[w], next, "result", ctl[w].todo)
        BY <1>0, <1>17, <2>1 DEF TaskEnded, ControlRecords, Labels, Moves
    <2>3. /\ k \in MemoryRecords /\ k.op = mem[w].op /\ k.version = mem[w].version
          /\ Replaces(mem[w], k, i, [status |-> "VERIFYING", upid |-> mem[w].items[i].upid])
        <3>1. "VERIFYING" \in ItemStatuses /\ mem[w] \in MemoryRecords /\ i \in Items
            BY <1>0, <1>2
        <3>2. k.op = mem[w].op /\ k.version = mem[w].version
            BY <3>1, OneItem
        <3> QED BY <3>1, <3>2, Replaced
    <2>4. Saveable(w, k)
        <3>1. "VERIFYING" \in ItemStatuses /\ mem[w] \in MemoryRecords /\ i \in Items
            BY <1>0, <1>2
        <3>2. \A j \in Items : k.items[j].upid = mem[w].items[j].upid
            BY <3>1, ItemMarked
        <3> QED BY <2>3, <3>2 DEF Saveable
    <2> HIDE DEF next, k
    <2>5. Loaded(w) /\ next.at \in Inside /\ next.at \notin InSubmit
        BY <1>1, <1>2, <2>2 DEF Moves, InSubmit
    <2>6. \A j \in Items : k.items[j].status # "SKIPPED"
        BY <1>0, <2>3 DEF Replaces
    <2>7. ASSUME Current(k)
          PROVE  /\ MaySave(pve, s, items, k) /\ CopyFits(pve, k.status, k.items, k, next)
                 /\ k.status \notin {"QUEUED", "VALIDATING"}
        <3>1. CopyFits(pve, s, items, mem[w], ctl[w])
            BY <1>1, <1>2, <2>2, <2>3, <2>7 DEF Current
        <3>2. k.status \notin {"QUEUED", "VALIDATING"}
            BY <2>2, <2>3, <3>1 DEF CopyFits, StatusFits, Replaces, InWave, InWait
        <3>3. mem[w] \in MemoryRecords /\ ctl[w] \in ControlRecords /\ i \in Items
            BY <1>0
        <3> DEFINE r == [status |-> "VERIFYING", upid |-> mem[w].items[i].upid]
        <3>4. /\ Replaces(mem[w], k, i, r) /\ k \in MemoryRecords
              /\ r = [status |-> "VERIFYING", upid |-> mem[w].items[i].upid]
            BY <2>3
        <3>5. /\ ctl[w].at = "wait" /\ IsFirst(i, ctl[w].todo)
              /\ Ended(pve, mem[w].items[i].upid)
              /\ Moves(ctl[w], next, "result", ctl[w].todo)
            BY <2>1, <2>2 DEF Ended
        <3> HIDE DEF s, r
        <3>6. MaySave(pve, s, items, k) /\ SavedFits(pve, k, next)
            BY <3>1, <3>3, <3>4, <3>5, TaskEndedFits
        <3> QED BY <3>2, <3>6 DEF SavedFits
    <2> QED BY <2>2, <2>3, <2>4, <2>5, <2>6, <2>7, SaveRecords
<1>18. CASE Result(w)
    <2>1. PICK i \in ctl[w].todo :
            /\ IsFirst(i, ctl[w].todo)
            /\ Apply(w, i, IF pve[mem[w].items[i].upid].state = "ok" THEN "SUCCEEDED" ELSE "FAILED", [ctl[w] EXCEPT !.at = "saveResult"])
        BY <1>18 DEF Result
    <2> DEFINE next == [ctl[w] EXCEPT !.at = "saveResult"]
               status == IF pve[mem[w].items[i].upid].state = "ok" THEN "SUCCEEDED" ELSE "FAILED"
               k == WithItem(mem[w], i, status)
    <2>2. /\ ctl[w].at = "result" /\ Apply(w, i, status, next)
          /\ Moves(ctl[w], next, "saveResult", ctl[w].todo)
        BY <1>0, <1>18, <2>1 DEF Result, ControlRecords, Moves
    <2>3. /\ status \in {"SUCCEEDED", "FAILED", "UNKNOWN"}
          /\ status \in ItemStatuses \ {"SKIPPED"} /\ status \in ItemStatuses
        BY <1>2
    <2>4. /\ ctl[w].at = "result" => status = IF pve[mem[w].items[i].upid].state = "ok"
                                               THEN "SUCCEEDED" ELSE "FAILED"
          /\ ctl[w].at = "unresolved" => status = "UNKNOWN"
        BY <2>2
    <2> HIDE DEF next, status
    <2>5. k \in MemoryRecords
          /\ Replaces(mem[w], k, i, [status |-> status, upid |-> mem[w].items[i].upid])
        BY <1>0, <2>3, Replaced
    <2> HIDE DEF k
    <2>6. Current(mem[w]) => CopyFits(pve, s, items, k, next)
        BY <1>0, <1>1, <1>2, <2>1, <2>2, <2>3, <2>4, <2>5, NotedFits
    <2>7. Loaded(w) /\ i \in Items /\ next.at \in Inside /\ next.at \notin InSubmit
        BY <1>0, <1>1, <1>2, <2>2 DEF Moves, InSubmit
    <2> QED BY <2>2, <2>3, <2>6, <2>7, ApplyRecords DEF k
<1>19. CASE Heartbeat(w)
    <2>1. /\ ctl[w].at = "wait" /\ UNCHANGED <<row, items, pve, mem, ctl>>
          /\ HoldsLease(w, mem[w].op)
          /\ lease' = [lease EXCEPT ![mem[w].op].until = "ahead"]
        BY <1>19 DEF Heartbeat
    <2>2. \A p \in Ops : Terminal(row[p].status) => lease'[p] = NoLease
        BY <1>0, <2>1 DEF RecordInv, StoredSound, HoldsLease, TypeOK
    <2>3. Grows(pve, pve') /\ \A r \in DOMAIN pve' : items[pve'[r].item].status # "QUEUED"
        BY <2>1, NothingSent
    <2>4. \A v \in Workers : WorkerFits(pve', row', items', mem'[v], ctl'[v])
        BY <2>1, FactsOfRecordInv
    <2> QED BY <2>1, <2>2, <2>3, <2>4, QuietStep
<1>20. CASE WaitFails(w)
    <2> DEFINE next == [ctl[w] EXCEPT !.at = "unresolved"]
    <2>1. /\ ctl[w].at = "wait" /\ UNCHANGED <<row, items, lease, pve>>
          /\ mem' = [mem EXCEPT ![w] = mem[w]] /\ ctl' = [ctl EXCEPT ![w] = next]
          /\ Moves(ctl[w], next, "unresolved", ctl[w].todo)
        BY <1>0, <1>20 DEF WaitFails, Moves, ControlRecords, TypeOK, stored
    <2> HIDE DEF next
    <2>2. Current(mem[w]) => CopyFits(pve, s, items, mem[w], next)
        BY <1>0, <1>1, <1>2, <2>1, NextPlaceFits
    <2>3. Loaded(w) /\ next.at \in Inside /\ next.at \notin InSubmit
        BY <1>1, <1>2, <2>1 DEF Moves, InSubmit
    <2> QED BY <1>0, <2>1, <2>2, <2>3, MoveRecords
<1>21. CASE Unresolved(w)
    <2>1. PICK i \in ctl[w].todo :
            /\ IsFirst(i, ctl[w].todo)
            /\ Apply(w, i, "UNKNOWN", [ctl[w] EXCEPT !.at = "saveResult"])
        BY <1>21 DEF Unresolved
    <2> DEFINE next == [ctl[w] EXCEPT !.at = "saveResult"]
               status == "UNKNOWN"
               k == WithItem(mem[w], i, status)
    <2>2. /\ ctl[w].at = "unresolved" /\ Apply(w, i, status, next)
          /\ Moves(ctl[w], next, "saveResult", ctl[w].todo)
        BY <1>0, <1>21, <2>1 DEF Unresolved, ControlRecords, Moves
    <2>3. /\ status \in {"SUCCEEDED", "FAILED", "UNKNOWN"}
          /\ status \in ItemStatuses \ {"SKIPPED"} /\ status \in ItemStatuses
        BY <1>2
    <2>4. /\ ctl[w].at = "result" => status = IF pve[mem[w].items[i].upid].state = "ok"
                                               THEN "SUCCEEDED" ELSE "FAILED"
          /\ ctl[w].at = "unresolved" => status = "UNKNOWN"
        BY <2>2
    <2> HIDE DEF next, status
    <2>5. k \in MemoryRecords
          /\ Replaces(mem[w], k, i, [status |-> status, upid |-> mem[w].items[i].upid])
        BY <1>0, <2>3, Replaced
    <2> HIDE DEF k
    <2>6. Current(mem[w]) => CopyFits(pve, s, items, k, next)
        BY <1>0, <1>1, <1>2, <2>1, <2>2, <2>3, <2>4, <2>5, NotedFits
    <2>7. Loaded(w) /\ i \in Items /\ next.at \in Inside /\ next.at \notin InSubmit
        BY <1>0, <1>1, <1>2, <2>2 DEF Moves, InSubmit
    <2> QED BY <2>2, <2>3, <2>6, <2>7, ApplyRecords DEF k
<1>22. CASE SaveResult(w)
    <2>1. PICK i \in ctl[w].todo :
            /\ IsFirst(i, ctl[w].todo)
            /\ Save(w, mem[w], [ctl[w] EXCEPT !.at = "wait", !.todo = @ \ {i}])
        BY <1>22 DEF SaveResult
    <2> DEFINE next == [ctl[w] EXCEPT !.at = "wait", !.todo = @ \ {i}]
    <2>2. /\ ctl[w].at = "saveResult" /\ next \in ControlRecords /\ Save(w, mem[w], next)
          /\ Moves(ctl[w], next, "wait", ctl[w].todo \ {i})
        BY <1>0, <1>22, <2>1 DEF SaveResult, ControlRecords, Labels, Moves
    <2> HIDE DEF next
    <2>3. Loaded(w) /\ next.at \in Inside /\ Saveable(w, mem[w])
        BY <1>1, <1>2, <2>2, PlaceTypes, FactsOfRecordInv DEF Moves
    <2>4. next.at \in InSubmit => \A j \in next.todo : items[j].status # "QUEUED"
        BY <1>2, <2>2 DEF RecordInv, MarksStored, Moves, InSubmit, InWait
    <2>5. ASSUME Current(mem[w])
          PROVE  /\ MaySave(pve, s, items, mem[w])
                 /\ CopyFits(pve, mem[w].status, mem[w].items, mem[w], next)
                 /\ mem[w].status \notin {"QUEUED", "VALIDATING"}
        <3>1. CopyFits(pve, s, items, mem[w], ctl[w])
            BY <1>1, <1>2, <2>2, <2>5
        <3>2. mem[w].status \notin {"QUEUED", "VALIDATING"}
            BY <2>2, <3>1 DEF CopyFits, StatusFits, InWave, InSubmit, InWait
        <3> QED BY <1>0, <2>1, <2>2, <3>1, <3>2, SaveResultFits
    <2> QED BY <1>0, <2>2, <2>3, <2>4, <2>5, SaveRecords
<1>23. CASE EndWave(w)
    <2> DEFINE next == [At("wave") EXCEPT !.rest = ctl[w].rest]
    <2>1. /\ ctl[w].at = "wait" /\ ctl[w].todo = {} /\ UNCHANGED <<row, items, lease, pve>>
          /\ mem' = [mem EXCEPT ![w] = mem[w]] /\ ctl' = [ctl EXCEPT ![w] = next]
          /\ next.at = "wave" /\ next.rest = ctl[w].rest
        BY <1>0, <1>23 DEF EndWave, At, TypeOK, stored
    <2> HIDE DEF next
    <2>2. Current(mem[w]) => CopyFits(pve, s, items, mem[w], next)
        BY <1>0, <1>1, <1>2, <2>1, EndWaveFits
    <2>3. Loaded(w) /\ next.at \in Inside /\ next.at \notin InSubmit
        BY <1>1, <1>2, <2>1
    <2> QED BY <1>0, <2>1, <2>2, <2>3, MoveRecords
<1>24. CASE Verify(w)
    <2> DEFINE next == At("finish")
               k == [mem[w] EXCEPT !.status = "VERIFYING"]
    <2>1. ctl[w].at = "wave" /\ ctl[w].rest = {} /\ SaveAs(w, "VERIFYING", mem[w], next)
        BY <1>24 DEF Verify
    <2>2. next \in ControlRecords /\ next.at = "finish"
        BY ControlTypes DEF Labels
    <2>3. /\ k \in MemoryRecords /\ Restates(mem[w], k, "VERIFYING")
          /\ k.version = mem[w].version
        BY <1>0, <1>2, Restated
    <2> HIDE DEF next, k
    <2>4. Loaded(w)
        BY <1>1, <1>2, <2>1
    <2>5. ASSUME Current(mem[w])
          PROVE  /\ MaySave(pve, s, items, k)
                 /\ CopyFits(pve, k.status, k.items, k, next)
        BY <1>0, <1>1, <1>2, <2>1, <2>2, <2>3, <2>5, VerifyFits
    <2> QED BY <1>2, <2>1, <2>2, <2>3, <2>4, <2>5, SaveAsRecords
<1>25. CASE Finish(w)
    <2> DEFINE status == FinalStatus({mem[w].items[i].status : i \in ItemsOf(mem[w].op)})
               k == [mem[w] EXCEPT !.status = status]
    <2>1. ctl[w].at = "finish" /\ SaveAs(w, status, mem[w], Idle)
        BY <1>25 DEF Finish
    <2>2. status \in OperationStatuses \ {"QUEUED", "VALIDATING"}
        BY DEF FinalStatus, OperationStatuses
    <2>3. /\ k \in MemoryRecords /\ Restates(mem[w], k, status)
          /\ k.version = mem[w].version
        BY <1>0, <2>2, Restated
    <2> HIDE DEF k
    <2>4. Loaded(w)
        BY <1>1, <1>2, <2>1
    <2>5. Current(mem[w]) => MaySave(pve, s, items, k)
        BY <1>0, <1>1, <1>2, <2>1, <2>3, FinishFits
    <2> HIDE DEF status
    <2> QED BY <2>1, <2>2, <2>3, <2>4, <2>5, SaveAsRecords
<1> QED
    BY <1>3, <1>4, <1>5, <1>6, <1>7, <1>8, <1>9, <1>10, <1>11, <1>12, <1>13,
       <1>14, <1>15, <1>16, <1>17, <1>18, <1>19, <1>20, <1>21, <1>22, <1>23, <1>24, <1>25
    DEF Execute

LEMMA FailRecords ==
    ASSUME RecordInv, CopyInv', NEW w \in Workers, Fail(w)
    PROVE  Rest' /\ KeepsPromise
<1> DEFINE m == FailedMemory(mem[w])
           s == row[mem[w].op].status
<1>1. /\ Loaded(w) /\ mem[w] \in MemoryRecords /\ s \in OperationStatuses
      /\ \A i \in Items : mem[w].items[i].status # "SKIPPED"
      /\ Current(mem[w]) => MaySave(pve, s, items, mem[w])
    BY FactsOfRecordInv DEF Fail, Loaded, Working, CopyFits, RecordInv, NeverSkipped
<1>2. /\ m.op = mem[w].op /\ m.version = mem[w].version
      /\ m.status = IF Terminal(mem[w].status) THEN mem[w].status ELSE "FAILED"
      /\ m.items = [i \in Items |-> IF mem[w].items[i].status \in OpenStatuses
                                    THEN [mem[w].items[i] EXCEPT !.status = "UNKNOWN"]
                                    ELSE mem[w].items[i]]
    <2> DEFINE its == [i \in Items |-> IF mem[w].items[i].status \in OpenStatuses
                                       THEN [mem[w].items[i] EXCEPT !.status = "UNKNOWN"]
                                       ELSE mem[w].items[i]]
               st == IF Terminal(mem[w].status) THEN mem[w].status ELSE "FAILED"
    <2>1. m = [mem[w] EXCEPT !.status = st, !.items = its]
        BY DEF FailedMemory
    <2> HIDE DEF its, st, m
    <2>2. m.op = mem[w].op /\ m.version = mem[w].version /\ m.status = st /\ m.items = its
        BY <1>1, <2>1 DEF MemoryRecords
    <2> QED BY <2>2 DEF its, st
<1>2a. m \in MemoryRecords
    <2> DEFINE its == [i \in Items |-> IF mem[w].items[i].status \in OpenStatuses
                                       THEN [mem[w].items[i] EXCEPT !.status = "UNKNOWN"]
                                       ELSE mem[w].items[i]]
               st == IF Terminal(mem[w].status) THEN mem[w].status ELSE "FAILED"
    <2>1. its \in [Items -> ItemRecords]
        BY <1>1 DEF MemoryRecords, ItemRecords, ItemStatuses
    <2>2. st \in OperationStatuses
        BY <1>1 DEF MemoryRecords, OperationStatuses
    <2>3. m = [mem[w] EXCEPT !.status = st, !.items = its]
        BY DEF FailedMemory
    <2> HIDE DEF its, st, m
    <2> QED BY <1>1, <2>1, <2>2, <2>3 DEF MemoryRecords
<1>3. Current(m) => MaySave(pve, row[m.op].status, items, m)
    BY <1>1, <1>2, FailedFits DEF Current
<1>4. /\ ctl' = [ctl EXCEPT ![w] = Idle] /\ mem' = [mem EXCEPT ![w] = NoMemory]
      /\ UNCHANGED pve
      /\ \/ Current(m) /\ Commit(m)
         \/ UNCHANGED <<row, items, lease>>
    BY DEF Fail
<1> HIDE DEF m
<1>5. /\ Saveable(w, m)
      /\ \A i \in Items : m.items[i].status # "SKIPPED"
      /\ m.status \notin {"QUEUED", "VALIDATING"}
    <2>1. \A i \in Items : mem[w].items[i] \in ItemRecords
        BY <1>1 DEF MemoryRecords
    <2>2. \A i \in Items : /\ m.items[i] \in ItemRecords
                           /\ m.items[i].upid = mem[w].items[i].upid
                           /\ m.items[i].status \in {mem[w].items[i].status, "UNKNOWN"}
        BY <1>2, <2>1 DEF ItemRecords, ItemStatuses
    <2>3. m.status \in OperationStatuses /\ m.status \notin {"QUEUED", "VALIDATING"}
        BY <1>1, <1>2 DEF MemoryRecords, OperationStatuses, Terminal, TerminalStatuses
    <2> QED BY <1>1, <1>2, <1>2a, <2>2, <2>3 DEF Saveable
<1>6. Idle.at = "idle"
    BY ControlTypes
<1>7. CASE Current(m) /\ Commit(m)
    <2>1. WorkerFits(pve, row', items', NoMemory, Idle)
        BY <1>6, IdleFits
    <2> QED BY <1>1, <1>3, <1>4, <1>5, <1>7, <2>1, CommitStep
<1>8. CASE UNCHANGED <<row, items, lease>>
    <2>1. WorkerFits(pve', row, items, NoMemory, Idle)
        BY <1>6, IdleFits
    <2>2. \A p \in Ops : Terminal(row[p].status) => lease'[p] = NoLease
        BY <1>8 DEF RecordInv, StoredSound
    <2>3. Grows(pve, pve') /\ \A r \in DOMAIN pve' : items[pve'[r].item].status # "QUEUED"
        BY <1>4, <1>8, NothingSent
    <2> QED BY <1>4, <1>8, <2>1, <2>2, <2>3, PrivateStep
<1> QED BY <1>4, <1>7, <1>8

\* A copy just read, when its version is still the stored one.
LEMMA ReadFits ==
    ASSUME StoredSound, NEW m, m.op \in Ops, m.status = row[m.op].status,
           \A i \in ItemsOf(m.op) : m.items[i] = items[i],
           NEW n, n.at = "begin"
    PROVE  CopyFits(pve, row[m.op].status, items, m, n)
<1> DEFINE o == m.op
           s == row[o].status
<1>1. /\ Sound(pve, o, s, items)
      /\ s \in {"QUEUED", "VALIDATING"} => \A i \in ItemsOf(o) : items[i] = NewItem
    BY DEF StoredSound
<1>2. Sound(pve, o, m.status, m.items)
    <2>1. Grows(pve, pve)
        BY DEF Grows
    <2> QED BY <1>1, <2>1, SoundStays
<1>3. MaySave(pve, s, items, m)
    BY <1>2 DEF MaySave, CanTransition, Promise!Forward
<1>4. StatusFits(s, m, n) /\ FreshFits(m, n) /\ LoopFits(pve, m, n)
    BY <1>1 DEF StatusFits, FreshFits, LoopFits, InWave, InSubmit, InWait
<1> QED BY <1>3, <1>4 DEF CopyFits, InStep

LEMMA OutsideRecords ==
    ASSUME RecordInv, NEW w \in Workers,
           \/ \E o \in Ops : Claim(w, o)
           \/ LoadRow(w) \/ LoadItems(w) \/ LoadFails(w) \/ Stop(w)
    PROVE  Rest' /\ KeepsPromise
<1>0. /\ TypeOK /\ mem[w] \in MemoryRecords
      /\ \A i \in Items : mem[w].items[i].status # "SKIPPED"
      /\ \A i \in Items : items[i].status # "SKIPPED"
    BY FactsOfRecordInv DEF RecordInv, NeverSkipped
<1>1. UNCHANGED <<row, items, pve>>
    BY DEF Claim, LoadRow, LoadItems, LoadFails, Stop, stored
<1>2. Grows(pve, pve') /\ \A r \in DOMAIN pve' : items[pve'[r].item].status # "QUEUED"
    BY <1>1, NothingSent
<1>3. ASSUME NEW m, NEW n, UNCHANGED lease,
             mem' = [mem EXCEPT ![w] = m], ctl' = [ctl EXCEPT ![w] = n],
             WorkerFits(pve, row, items, m, n)
      PROVE  Rest' /\ KeepsPromise
    <2>1. \A p \in Ops : Terminal(row[p].status) => lease'[p] = NoLease
        BY <1>3 DEF RecordInv, StoredSound
    <2>2. WorkerFits(pve', row, items, m, n)
        BY <1>1, <1>3
    <2> QED BY <1>1, <1>2, <1>3, <2>1, <2>2, PrivateStep
<1>4. /\ At("load").at = "load" /\ At("loadItems").at = "loadItems" /\ At("begin").at = "begin"
      /\ At("stopped").at = "stopped" /\ Idle.at = "idle"
    BY DEF At, Idle
<1>5. ASSUME NEW o \in Ops, Claim(w, o) PROVE Rest' /\ KeepsPromise
    <2> DEFINE m == [NoMemory EXCEPT !.op = o]
    <2>1. /\ mem' = [mem EXCEPT ![w] = m] /\ ctl' = [ctl EXCEPT ![w] = At("load")]
          /\ lease' = [lease EXCEPT ![o] = [owner |-> w, until |-> "ahead"]]
          /\ ~Terminal(row[o].status)
        BY <1>5 DEF Claim, Claimable, Terminal
    <2>2. \A p \in Ops : Terminal(row[p].status) => lease'[p] = NoLease
        BY <1>0, <2>1 DEF RecordInv, StoredSound, TypeOK
    <2>3. \A i \in Items : m.items[i].status # "SKIPPED"
        BY DEF NoMemory, NewItem
    <2> HIDE DEF m
    <2>4. WorkerFits(pve', row, items, m, At("load"))
        BY <1>4, <2>3 DEF WorkerFits, InSubmit
    <2> QED BY <1>1, <1>2, <2>1, <2>2, <2>4, PrivateStep
<1>6. CASE LoadRow(w)
    <2> DEFINE m == [mem[w] EXCEPT !.status = row[mem[w].op].status,
                                   !.version = row[mem[w].op].version]
    <2>1. /\ mem' = [mem EXCEPT ![w] = m] /\ ctl' = [ctl EXCEPT ![w] = At("loadItems")]
          /\ UNCHANGED lease
        BY <1>0, <1>6 DEF LoadRow, TypeOK, MemoryRecords, stored
    <2>2. m.op = mem[w].op /\ m.status = row[m.op].status /\ m.items = mem[w].items
        BY <1>0 DEF MemoryRecords
    <2> HIDE DEF m
    <2>3. WorkerFits(pve, row, items, m, At("loadItems"))
        BY <1>0, <1>4, <2>2 DEF WorkerFits, InSubmit
    <2> QED BY <1>3, <2>1, <2>3
<1>7. CASE LoadItems(w)
    <2> DEFINE read == [i \in Items |-> IF OpOf[i] = mem[w].op THEN items[i] ELSE NewItem]
               m == [mem[w] EXCEPT !.items = read]
    <2>1. /\ mem' = [mem EXCEPT ![w] = m] /\ ctl' = [ctl EXCEPT ![w] = At("begin")]
          /\ UNCHANGED lease /\ ctl[w].at = "loadItems"
        BY <1>7 DEF LoadItems, stored
    <2>2. m.op = mem[w].op /\ m.status = mem[w].status /\ m.version = mem[w].version
          /\ m.items = read
        BY <1>0 DEF MemoryRecords
    <2>3. /\ \A i \in ItemsOf(m.op) : m.items[i] = items[i]
          /\ \A i \in Items : m.items[i].status # "SKIPPED"
        BY <1>0, <2>2 DEF ItemsOf, NewItem
    <2> HIDE DEF m, read
    <2>4. m.op \in Ops
        BY <2>1, <2>2, FactsOfRecordInv DEF Working
    <2>5. row[m.op].version = m.version => m.status = row[m.op].status
        BY <2>1, <2>2 DEF RecordInv, RowsFit, Current
    <2>6. row[m.op].version = m.version =>
                CopyFits(pve, row[m.op].status, items, m, At("begin"))
        BY <1>4, <2>3, <2>4, <2>5, ReadFits DEF RecordInv
    <2>7. WorkerFits(pve, row, items, m, At("begin"))
        BY <1>4, <2>3, <2>6 DEF WorkerFits, InSubmit
    <2> QED BY <1>3, <2>1, <2>7
<1>8. CASE LoadFails(w)
    <2>1. WorkerFits(pve, row, items, NoMemory, Idle)
        BY <1>4, IdleFits
    <2> QED BY <1>3, <1>8, <2>1 DEF LoadFails, stored
<1>9. CASE Stop(w)
    <2>1. WorkerFits(pve, row, items, NoMemory, At("stopped"))
        BY <1>4, IdleFits
    <2> QED BY <1>3, <1>9, <2>1 DEF Stop, stored
<1> QED BY <1>5, <1>6, <1>7, <1>8, <1>9

LEMMA EnvironmentRecords ==
    ASSUME RecordInv,
           \/ \E w \in Workers : Poll(w)
           \/ \E o \in Ops : LeaseLapses(o) \/ LeaseExpires(o)
           \/ \E r \in DOMAIN pve : PveAnswers(r)
           \/ UNCHANGED vars
    PROVE  Rest' /\ KeepsPromise
<1>0. RecordInv /\ TypeOK
    BY DEF RecordInv, CopyInv
<1>1. UNCHANGED <<row, items, mem, ctl>>
    BY DEF Poll, LeaseLapses, LeaseExpires, PveAnswers, vars, stored, budgets
<1>2. ASSUME Grows(pve, pve'),
             \A p \in Ops : Terminal(row[p].status) => lease'[p] = NoLease,
             \A r \in DOMAIN pve' : items[pve'[r].item].status # "QUEUED"
      PROVE  Rest' /\ KeepsPromise
    <2>1. ASSUME NEW v \in Workers
          PROVE  WorkerFits(pve', row', items', mem'[v], ctl'[v])
        <3>1. WorkerFits(pve, row, items, mem[v], ctl[v]) /\ ctl[v] \in ControlRecords
            BY FactsOfRecordInv
        <3>2. WorkerFits(pve', row, items, mem[v], ctl[v])
            BY <1>2, <3>1, WorkerStays
        <3> QED BY <1>1, <3>2
    <2> QED BY <1>1, <1>2, <2>1, QuietStep
<1>3. ASSUME UNCHANGED <<lease, pve>> PROVE Rest' /\ KeepsPromise
    <2>1. \A p \in Ops : Terminal(row[p].status) => lease'[p] = NoLease
        BY <1>3 DEF RecordInv, StoredSound
    <2> QED BY <1>1, <1>2, <1>3, <2>1, NothingSent
<1>4. ASSUME NEW o \in Ops, LeaseLapses(o) \/ LeaseExpires(o) PROVE Rest' /\ KeepsPromise
    <2>1. UNCHANGED pve /\ lease' = [lease EXCEPT ![o].until = "passed"]
        BY <1>4 DEF LeaseLapses, LeaseExpires
    <2>2. lease[o].owner # NoWorker
        BY <1>4, WorkersAssumption DEF LeaseLapses, LeaseExpires, OwnerWorksOn
    <2>3. ~Terminal(row[o].status)
        BY <2>2 DEF RecordInv, StoredSound, NoLease
    <2>4. \A p \in Ops : Terminal(row[p].status) => lease'[p] = NoLease
        BY <1>0, <2>1, <2>3 DEF RecordInv, StoredSound, TypeOK
    <2> QED BY <1>1, <1>2, <2>1, <2>4, NothingSent
<1>5. ASSUME NEW r \in DOMAIN pve, PveAnswers(r) PROVE Rest' /\ KeepsPromise
    <2>1. PICK from \in {"sent", "running"}, to \in {"running", "refused", "ok", "failed"} :
            pve[r].state = from /\ pve' = [pve EXCEPT ![r].state = to]
        BY <1>5 DEF PveAnswers
    <2>2. \A q \in DOMAIN pve : pve[q] \in RequestRecords
        BY <1>0 DEF TypeOK
    <2>3. /\ DOMAIN pve' = DOMAIN pve
          /\ \A q \in DOMAIN pve : pve'[q].item = pve[q].item
          /\ \A q \in DOMAIN pve : q # r => pve'[q] = pve[q]
        BY <1>0, <2>1, <2>2 DEF TypeOK, RequestRecords
    <2>4. Grows(pve, pve')
        BY <2>1, <2>3 DEF Grows
    <2>5. \A q \in DOMAIN pve' : items[pve'[q].item].status # "QUEUED"
        BY <2>3 DEF RecordInv, IntentIsRecorded
    <2>6. \A p \in Ops : Terminal(row[p].status) => lease'[p] = NoLease
        BY <1>5 DEF PveAnswers, stored, RecordInv, StoredSound
    <2> QED BY <1>2, <2>4, <2>5, <2>6
<1>6. CASE (\E w \in Workers : Poll(w)) \/ UNCHANGED vars
    BY <1>3, <1>6 DEF Poll, vars
<1> QED BY <1>4, <1>5, <1>6

LEMMA NextRecords == RecordInv /\ [Next]_vars => RecordInv' /\ KeepsPromise
<1> SUFFICES ASSUME RecordInv, [Next]_vars PROVE RecordInv' /\ KeepsPromise
    OBVIOUS
<1>0. CopyInv
    BY DEF RecordInv
<1>1. CopyInv'
    BY <1>0, NextKeeps
<1>2. ASSUME NEW w \in Workers, Execute(w) PROVE Rest' /\ KeepsPromise
    BY <1>1, <1>2, ExecuteRecords
<1>3. ASSUME NEW w \in Workers, Fail(w) PROVE Rest' /\ KeepsPromise
    BY <1>1, <1>3, FailRecords
<1>4. ASSUME NEW w \in Workers,
             \/ \E o \in Ops : Claim(w, o)
             \/ LoadRow(w) \/ LoadItems(w) \/ LoadFails(w) \/ Stop(w)
      PROVE  Rest' /\ KeepsPromise
    BY <1>4, OutsideRecords
<1>5. ASSUME \/ \E w \in Workers : Poll(w)
             \/ \E o \in Ops : LeaseLapses(o) \/ LeaseExpires(o)
             \/ \E r \in DOMAIN pve : PveAnswers(r)
             \/ UNCHANGED vars
      PROVE  Rest' /\ KeepsPromise
    BY <1>5, EnvironmentRecords
<1>6. ASSUME NEW w \in Workers, Step(w) PROVE Rest' /\ KeepsPromise
    BY <1>2, <1>3, <1>4, <1>6 DEF Step
<1>7. ASSUME NEW w \in Workers, Stop(w) PROVE Rest' /\ KeepsPromise
    BY <1>4, <1>7
<1>8. Rest' /\ KeepsPromise
    BY <1>5, <1>6, <1>7 DEF Next
<1> QED BY <1>1, <1>8 DEF RecordInv, Rest

LEMMA InitRecords == Init => RecordInv
<1> SUFFICES ASSUME Init PROVE RecordInv
    OBVIOUS
<1>1. CopyInv
    BY InitCopyInv
<1>2. StoredSound
    BY ItemsAssumption
    DEF Init, StoredSound, Sound, Truthful, ItemsOf, NewItem, NoUPID, CancelStatuses,
        DoneStatuses, Terminal, TerminalStatuses
<1>3. NeverSkipped
    BY DEF Init, NeverSkipped, NoMemory, NewItem
<1>4. CopiesFit /\ RowsFit /\ MarksStored /\ IntentIsRecorded
    BY DEF Init, CopiesFit, RowsFit, MarksStored, IntentIsRecorded, Loaded, Working, Idle,
           At, InSubmit
<1> QED BY <1>1, <1>2, <1>3, <1>4 DEF RecordInv
-----------------------------------------------------------------------------
\* What the store says, what a worker knows and what PVE was asked fit together
\* after every step, for any number of workers, operations, items, crashes, stalled
\* workers and store errors.
THEOREM RecordInvariance == Spec => []RecordInv
<1>1. RecordInv /\ [Next]_vars => RecordInv'
    BY NextRecords
<1> QED BY <1>1, InitRecords, PTL DEF Spec

\* OperationRunner implements OperationPromise: stored operations only move along the
\* table of transitions, their results and UPIDs stay, and a finished operation is
\* never written to again, not even by a worker that still holds a copy of it.
THEOREM PromiseRefinement == Spec => IsOperationPromise
<1>1. Init => Promise!PromiseInit
    BY DEF Init, Promise!PromiseInit, NewItem, NoUPID
<1>2. RecordInv /\ [Next]_vars => [Promise!PromiseNext]_Promise!promised
    <2> SUFFICES ASSUME RecordInv, [Next]_vars
                 PROVE  [Promise!PromiseNext]_Promise!promised
        OBVIOUS
    <2>1. KeepsPromise
        BY NextRecords
    <2>2. CASE UNCHANGED <<Statuses, items>>
        BY <2>2 DEF Statuses, Promise!promised
    <2>3. CASE \E o \in Ops : Promise!Advance(o)
        BY <2>3 DEF Promise!PromiseNext
    <2> QED BY <2>1, <2>2, <2>3 DEF KeepsPromise
<1> QED BY <1>1, <1>2, RecordInvariance, PTL
    DEF Spec, IsOperationPromise, Promise!PromiseSpec

\* A finished operation has no open item and no lease, and its status claims no success
\* and no mixture of results that its items do not have (runner.go, finalize and fail).
THEOREM TerminalConsistency == Spec => []TerminalIsConsistent
<1>1. RecordInv => TerminalIsConsistent
    <2> SUFFICES ASSUME RecordInv, NEW o \in Ops, Terminal(row[o].status)
                 PROVE  LET results == {items[i].status : i \in ItemsOf(o)}
                        IN  /\ results \subseteq SettledStatuses
                            /\ row[o].status = "SUCCEEDED" => results \subseteq {"SUCCEEDED"}
                            /\ row[o].status = "PARTIALLY_SUCCEEDED" =>
                                    "SUCCEEDED" \in results /\ results # {"SUCCEEDED"}
                            /\ lease[o] = NoLease
        BY DEF TerminalIsConsistent
    <2> DEFINE results == {items[i].status : i \in ItemsOf(o)}
    <2>1. Sound(pve, o, row[o].status, items) /\ lease[o] = NoLease
        BY DEF RecordInv, StoredSound
    <2>2. results \subseteq SettledStatuses
        BY <2>1 DEF Sound, DoneStatuses, Terminal
    <2>3. row[o].status = "SUCCEEDED" => results \subseteq {"SUCCEEDED"}
        BY <2>1 DEF Sound
    <2>4. row[o].status = "PARTIALLY_SUCCEEDED" =>
                "SUCCEEDED" \in results /\ results # {"SUCCEEDED"}
        BY <2>1 DEF Sound
    <2> QED BY <2>1, <2>2, <2>3, <2>4
<1> QED BY <1>1, RecordInvariance, PTL

\* A stored result is the result of the PVE task of that very item, whichever workers
\* took part in it.
THEOREM TruthfulOutcome == Spec => []OutcomeIsTrue
<1>1. RecordInv => OutcomeIsTrue
    <2> SUFFICES ASSUME RecordInv, NEW i \in Items
                 PROVE  /\ items[i].upid # NoUPID =>
                                items[i].upid \in DOMAIN pve /\ pve[items[i].upid].item = i
                        /\ items[i].status = "SUCCEEDED" =>
                                items[i].upid # NoUPID /\ pve[items[i].upid].state = "ok"
                        /\ items[i].status = "FAILED" /\ items[i].upid # NoUPID =>
                                pve[items[i].upid].state = "failed"
        BY DEF OutcomeIsTrue
    <2>1. OpOf[i] \in Ops /\ i \in ItemsOf(OpOf[i])
        BY ItemsAssumption DEF ItemsOf
    <2>2. Sound(pve, OpOf[i], row[OpOf[i]].status, items)
        BY <2>1 DEF RecordInv, StoredSound
    <2> QED BY <2>1, <2>2 DEF Sound, Truthful
<1> QED BY <1>1, RecordInvariance, PTL

\* Nothing is sent to PVE for an item that the store does not show as taken up.
THEOREM IntentRecorded == Spec => []IntentIsRecorded
<1>1. RecordInv => IntentIsRecorded
    BY DEF RecordInv
<1> QED BY <1>1, RecordInvariance, PTL

-----------------------------------------------------------------------------
(* What every copy knows, also one of another version.                       *)

\* What a step of w must establish.
KnowsNext(w) == Owned(pve', mem'[w]) /\ PlaceKnows(pve', mem'[w], ctl'[w])

\* Only Send and PVE itself change the requests.
LEMMA PveSteps ==
    ASSUME TypeOK, [Next]_vars
    PROVE  \/ pve' = pve
           \/ \E w \in Workers : Send(w)
           \/ \E r \in DOMAIN pve : PveAnswers(r)
<1>2. CASE \E w \in Workers :
            \/ Begin(w) \/ Validate(w) \/ Check(w) \/ StartRunning(w)
            \/ StartWave(w) \/ Mark(w) \/ SaveWave(w)
            \/ Track(w) \/ RenewForSubmit(w)
    BY <1>2 DEF Begin, Validate, Check, StartRunning, StartWave, Mark, SaveWave, Track,
                RenewForSubmit, Renew, Apply, SaveAs, Save, stored, budgets
<1>3. CASE \E w \in Workers :
            \/ Accepted(w) \/ SaveSubmit(w) \/ StartWaiting(w)
            \/ TaskEnded(w) \/ SaveResult(w) \/ Verify(w) \/ Finish(w)
    BY <1>3 DEF Accepted, SaveSubmit, StartWaiting, TaskEnded, SaveResult, Verify, Finish,
                SaveAs, Save, stored, budgets
<1>5. CASE \E w \in Workers :
            \/ NotAccepted(w) \/ Result(w) \/ Unresolved(w)
            \/ Heartbeat(w) \/ WaitFails(w) \/ EndWave(w)
    <2>1. PICK w \in Workers :
            \/ NotAccepted(w) \/ Result(w) \/ Unresolved(w)
            \/ Heartbeat(w) \/ WaitFails(w) \/ EndWave(w)
        BY <1>5
    <2>2. CASE NotAccepted(w) \/ Result(w) \/ Unresolved(w)
        <3>1. \E i, status, next : Apply(w, i, status, next)
            BY <2>2 DEF NotAccepted, Result, Unresolved
        <3> QED BY <3>1 DEF Apply
    <2>3. CASE Heartbeat(w) \/ WaitFails(w) \/ EndWave(w)
        BY <2>3 DEF Heartbeat, WaitFails, EndWave
    <2> QED BY <2>1, <2>2, <2>3
<1>4. CASE \/ \E w \in Workers :
                \/ \E o \in Ops : Claim(w, o)
                \/ LoadRow(w) \/ LoadItems(w) \/ LoadFails(w) \/ Fail(w) \/ Poll(w) \/ Stop(w)
           \/ \E o \in Ops : LeaseLapses(o) \/ LeaseExpires(o)
           \/ UNCHANGED vars
    BY <1>4 DEF Claim, LoadRow, LoadItems, LoadFails, Fail, Poll, Stop, LeaseLapses,
                LeaseExpires, vars, stored, budgets
<1> QED BY <1>2, <1>3, <1>4, <1>5 DEF Next, Step, Execute

LEMMA PveGrows ==
    ASSUME TypeOK, [Next]_vars
    PROVE  Grows(pve, pve')
<1>1. CASE pve' = pve
    BY <1>1 DEF Grows
<1>2. ASSUME NEW w \in Workers, Send(w) PROVE Grows(pve, pve')
    <2>1. PICK i \in ctl[w].todo : pve' = Append(pve, [item |-> i, state |-> "sent"])
        BY <1>2 DEF Send
    <2> DEFINE request == [item |-> i, state |-> "sent"]
    <2>2. i \in Items /\ pve \in Seq(RequestRecords)
        BY DEF TypeOK, ControlRecords
    <2>3. request \in RequestRecords /\ pve' = Append(pve, request)
        BY <2>1, <2>2 DEF RequestRecords
    <2> HIDE DEF request
    <2> QED BY <2>2, <2>3 DEF Grows
<1>3. ASSUME NEW r \in DOMAIN pve, PveAnswers(r) PROVE Grows(pve, pve')
    <2>1. PICK from \in {"sent", "running"}, to \in {"running", "refused", "ok", "failed"} :
            pve[r].state = from /\ pve' = [pve EXCEPT ![r].state = to]
        BY <1>3 DEF PveAnswers
    <2>2. \A q \in DOMAIN pve : pve[q] \in RequestRecords
        BY DEF TypeOK
    <2>3. /\ DOMAIN pve' = DOMAIN pve
          /\ \A q \in DOMAIN pve : pve'[q].item = pve[q].item
          /\ \A q \in DOMAIN pve : q # r => pve'[q] = pve[q]
        BY <2>1, <2>2 DEF TypeOK, RequestRecords
    <2> QED BY <2>1, <2>3 DEF Grows
<1> QED BY <1>1, <1>2, <1>3, PveSteps

LEMMA KnowsStays ==
    ASSUME NEW p, NEW q, Grows(p, q), NEW m, NEW c, NEW k, k.op = m.op, k.items = m.items,
           Owned(p, m), PlaceKnows(p, m, c), c.at \in {"reply"} => c.todo \subseteq Items
    PROVE  Owned(q, k) /\ PlaceKnows(q, k, c)
BY DEF Owned, PlaceKnows, SetsFit, Grows

LEMMA PlainKnows ==
    ASSUME NEW p, NEW m, NEW n, n.at \notin {"wave"} \cup InWave
    PROVE  PlaceKnows(p, m, n)
BY DEF PlaceKnows, InWave, InSubmit

LEMMA WaveKnows ==
    ASSUME NEW p, NEW m, NEW n, n.at = "wave", n.rest \subseteq ItemsOf(m.op)
    PROVE  PlaceKnows(p, m, n)
BY DEF PlaceKnows, SetsFit, InWave, InSubmit, InWait

\* The repository calls.
LEMMA SaveKnows ==
    ASSUME TypeOK, NEW w \in Workers, NEW k \in MemoryRecords, NEW n,
           Owned(pve, k), PlaceKnows(pve, k, n), n.todo \subseteq Items,
           Save(w, k, n)
    PROVE  KnowsNext(w)
<1>1. pve' = pve /\ Grows(pve, pve)
    BY DEF Save, Grows
<1>2. CASE mem' = [mem EXCEPT ![w] = k] /\ ctl' = [ctl EXCEPT ![w] = Failing]
    <2>1. mem'[w] = k /\ ctl'[w] = Failing
        BY <1>2 DEF TypeOK
    <2>2. PlaceKnows(pve, k, Failing)
        BY PlainKnows, ControlTypes DEF InWave, InSubmit, InWait
    <2> QED BY <1>1, <2>1, <2>2 DEF KnowsNext
<1>3. CASE /\ mem' = [mem EXCEPT ![w] = IF n = Idle THEN NoMemory
                                       ELSE [k EXCEPT !.version = k.version + 1]]
           /\ ctl' = [ctl EXCEPT ![w] = n]
    <2>1. ctl'[w] = n
        BY <1>3 DEF TypeOK
    <2>2. CASE n = Idle
        <3>1. mem'[w] = NoMemory
            BY <1>3, <2>2 DEF TypeOK
        <3>2. Owned(pve, NoMemory)
            BY DEF Owned, NoMemory, NewItem, ItemsOf
        <3>3. PlaceKnows(pve, NoMemory, Idle)
            BY PlainKnows, ControlTypes DEF InWave, InSubmit, InWait
        <3> QED BY <1>1, <2>1, <2>2, <3>1, <3>2, <3>3 DEF KnowsNext
    <2>3. CASE n # Idle
        <3>1. mem'[w] = [k EXCEPT !.version = k.version + 1]
            BY <1>3, <2>3 DEF TypeOK
        <3>2. mem'[w].op = k.op /\ mem'[w].items = k.items
            BY <3>1 DEF MemoryRecords
        <3> QED BY <1>1, <2>1, <3>2, KnowsStays DEF KnowsNext
    <2> QED BY <2>2, <2>3
<1> QED BY <1>2, <1>3 DEF Save

LEMMA SaveAsKnows ==
    ASSUME TypeOK, NEW w \in Workers, NEW status \in OperationStatuses, NEW n,
           Owned(pve, mem[w]), PlaceKnows(pve, mem[w], n), n.todo \subseteq Items,
           SaveAs(w, status, mem[w], n)
    PROVE  KnowsNext(w)
<1> DEFINE k == [mem[w] EXCEPT !.status = status]
<1>0. mem[w] \in MemoryRecords
    BY DEF TypeOK
<1>1. k \in MemoryRecords /\ k.op = mem[w].op /\ k.items = mem[w].items
    BY <1>0 DEF MemoryRecords
<1>2. CASE Save(w, k, n)
    <2> HIDE DEF k
    <2>1. Owned(pve, k) /\ PlaceKnows(pve, k, n)
        BY <1>1, KnowsStays DEF Grows
    <2> QED BY <1>1, <1>2, <2>1, SaveKnows
<1>3. CASE /\ ctl' = [ctl EXCEPT ![w] = Failing]
           /\ mem' = [mem EXCEPT ![w] = mem[w]]
           /\ UNCHANGED pve
    <2>1. mem'[w] = mem[w] /\ ctl'[w] = Failing
        BY <1>3 DEF TypeOK
    <2>2. PlaceKnows(pve, mem[w], Failing)
        BY PlainKnows, ControlTypes DEF InWave, InSubmit, InWait
    <2> QED BY <1>3, <2>1, <2>2 DEF KnowsNext
<1>4. CASE CanTransition(mem[w].status, status)
    BY <1>2, <1>4 DEF SaveAs
<1>5. CASE ~CanTransition(mem[w].status, status)
    BY <1>3, <1>5 DEF SaveAs, stored, budgets
<1> QED BY <1>4, <1>5

LEMMA PrivateKnows ==
    ASSUME TypeOK, NEW w \in Workers, NEW k, NEW n, Owned(pve, k), PlaceKnows(pve, k, n),
           mem' = [mem EXCEPT ![w] = k], pve' = pve,
           ctl' = [ctl EXCEPT ![w] = n] \/ ctl' = [ctl EXCEPT ![w] = Failing]
    PROVE  KnowsNext(w)
<1>1. mem'[w] = k /\ ctl'[w] \in {n, Failing}
    BY DEF TypeOK
<1>2. PlaceKnows(pve, k, Failing)
    BY PlainKnows, ControlTypes DEF InWave, InSubmit, InWait
<1> QED BY <1>1, <1>2 DEF KnowsNext

LEMMA RenewKnows ==
    ASSUME TypeOK, NEW w \in Workers, NEW n, Owned(pve, mem[w]), PlaceKnows(pve, mem[w], n),
           Renew(w, n)
    PROVE  KnowsNext(w)
<1>1. mem' = [mem EXCEPT ![w] = mem[w]] /\ pve' = pve
    BY DEF Renew, TypeOK
<1>2. ctl' = [ctl EXCEPT ![w] = n] \/ ctl' = [ctl EXCEPT ![w] = Failing]
    BY DEF Renew
<1> QED BY <1>1, <1>2, PrivateKnows

LEMMA ApplyKnows ==
    ASSUME TypeOK, NEW w \in Workers, NEW i \in Items, NEW status \in ItemStatuses, NEW n,
           Owned(pve, mem[w]), PlaceKnows(pve, WithItem(mem[w], i, status), n),
           Apply(w, i, status, n)
    PROVE  KnowsNext(w)
<1> DEFINE k == WithItem(mem[w], i, status)
<1>0. mem[w] \in MemoryRecords
    BY DEF TypeOK
<1>1. /\ k.op = mem[w].op /\ k.items[i].upid = mem[w].items[i].upid
      /\ \A j \in Items : j # i => k.items[j] = mem[w].items[j]
    <2>1. /\ k.op = mem[w].op /\ k.items[i] = [status |-> status, upid |-> mem[w].items[i].upid]
          /\ \A j \in Items : j # i => k.items[j] = mem[w].items[j]
        BY <1>0, OneItem
    <2> HIDE DEF k
    <2> QED BY <2>1
<1>2. mem' = [mem EXCEPT ![w] = k] /\ pve' = pve
    BY DEF Apply, TypeOK
<1>3. ctl' = [ctl EXCEPT ![w] = n] \/ ctl' = [ctl EXCEPT ![w] = Failing]
    BY DEF Apply
<1>4. PlaceKnows(pve, k, n)
    OBVIOUS
<1> HIDE DEF k
<1>5. Owned(pve, k)
    BY <1>1 DEF Owned, ItemsOf
<1> QED BY <1>2, <1>3, <1>4, <1>5, PrivateKnows

\* A loop moves on within its wave, with one item handled.
LEMMA LoopKnows ==
    ASSUME NEW p, NEW m \in MemoryRecords, NEW k \in MemoryRecords, k.op = m.op,
           NEW c \in ControlRecords, NEW n, PlaceKnows(p, m, c), c.at \in InWave,
           NEW i \in c.todo, IsFirst(i, c.todo),
           \A j \in Items : j # i => k.items[j] = m.items[j],
           n.rest = c.rest, n.wave = c.wave, n.todo \in {c.todo, c.todo \ {i}},
           \/ n.at \in {"submit", "saveSubmit"} /\ c.at \in InSubmit
           \/ n.at \in {"result", "saveResult", "wait"} /\ c.at \in InWait,
           n.at = "submit" =>
                n.todo = c.todo \ {i} /\
                (k.items[i].status \in SettledStatuses \/ k.items[i].upid # NoUPID),
           n.at = "saveSubmit" => n.todo = c.todo /\ k.items[i].status \in SettledStatuses,
           n.at = "result" => c.at = "wait" /\ k.items[i].upid = m.items[i].upid,
           n.at = "wait" => n.todo = c.todo \ {i}
    PROVE  PlaceKnows(p, k, n)
<1>1. c.todo \subseteq Items /\ c.wave \subseteq Items /\ i \in Items
    BY DEF ControlRecords
<1>2. \A j \in Items : IsFirst(j, c.todo) => j = i
    BY <1>1, OneFirst
<1>3. n.at \in InWave /\ SetsFit(k, n)
    BY DEF PlaceKnows, SetsFit, InWave, InSubmit, InWait, ItemsOf
<1>4. CASE n.at \in {"submit", "saveSubmit"} /\ c.at \in InSubmit
    <2>1. \A j \in c.wave : j \notin c.todo =>
                k.items[j].status \in SettledStatuses \/ k.items[j].upid # NoUPID
        BY <1>1, <1>4 DEF PlaceKnows
    <2>2. n.at \notin InWait /\ n.at # "reply"
        BY <1>4 DEF InWait
    <2>3. ASSUME NEW j \in n.wave, j \notin n.todo \/ Handled(n, j)
          PROVE  k.items[j].status \in SettledStatuses \/ k.items[j].upid # NoUPID
        <3>1. j \in Items /\ j \in c.wave
            BY <1>1, <2>3
        <3>2. CASE j \notin c.todo
            BY <2>1, <3>1, <3>2
        <3>3. CASE j = i
            BY <1>4, <2>3, <3>3 DEF Handled
        <3>4. CASE j \in c.todo /\ j # i
            <4>1. n.at = "saveSubmit" /\ n.todo = c.todo
                BY <1>4, <2>3, <3>4 DEF Handled
            <4> QED BY <1>1, <1>2, <2>3, <3>1, <3>4, <4>1 DEF Handled
        <3> QED BY <3>2, <3>3, <3>4
    <2> QED BY <1>3, <2>2, <2>3 DEF PlaceKnows
<1>5. CASE n.at \in {"result", "saveResult", "wait"} /\ c.at \in InWait
    <2>1. n.at \notin InSubmit /\ n.at # "reply"
        BY <1>5 DEF InSubmit
    <2>2. \A j \in c.todo : j # i => k.items[j].upid # NoUPID
        BY <1>1, <1>2, <1>5 DEF PlaceKnows, Handled
    <2>3. ASSUME NEW j \in n.todo PROVE Handled(n, j) \/ k.items[j].upid # NoUPID
        <3>1. CASE j # i
            BY <2>2, <2>3, <3>1
        <3>2. CASE j = i
            BY <1>1, <1>5, <2>3, <3>2 DEF PlaceKnows, Handled
        <3> QED BY <3>1, <3>2
    <2> QED BY <1>3, <2>1, <2>3 DEF PlaceKnows
<1> QED BY <1>4, <1>5

\* What execute knows, it goes on knowing.
LEMMA ExecuteKnows ==
    ASSUME TypeOK, NEW w \in Workers, Execute(w),
           Owned(pve, mem[w]), PlaceKnows(pve, mem[w], ctl[w])
    PROVE  KnowsNext(w)
<1>0. /\ ctl[w] \in ControlRecords /\ mem[w] \in MemoryRecords
      /\ ctl[w].todo \subseteq Items /\ ctl[w].rest \subseteq Items /\ ctl[w].wave \subseteq Items
      /\ pve \in Seq(RequestRecords) /\ mem[w].items \in [Items -> ItemRecords]
    BY DEF TypeOK, ControlRecords, MemoryRecords
<1>1. /\ {"VALIDATING", "RUNNING", "WAITING_PVE", "VERIFYING"} \subseteq OperationStatuses
      /\ {"FAILED", "RUNNING", "UNKNOWN", "SUCCEEDED", "VERIFYING", "WAITING_PVE"} \subseteq ItemStatuses
      /\ {"FAILED", "UNKNOWN"} \subseteq SettledStatuses
      /\ {"idle", "validate", "check", "finish"} \cap ({"wave"} \cup InWave) = {}
    BY DEF OperationStatuses, ItemStatuses, SettledStatuses, InWave, InSubmit, InWait
<1>2. Pending(mem[w]) \subseteq ItemsOf(mem[w].op) /\ Pending(mem[w]) \subseteq Items
    BY DEF Pending, ItemsOf
<1>3. CASE Begin(w)
    <2>1. Renew(w, Resume(mem[w]))
        BY <1>3 DEF Begin
    <2>2. Resume(mem[w]).at \in {"validate", "check", "wave", "finish"}
        BY DEF Resume, At
    <2>3. Resume(mem[w]).at = "wave" => Resume(mem[w]).rest = Pending(mem[w])
        BY DEF Resume, At
    <2>4. PlaceKnows(pve, mem[w], Resume(mem[w]))
        BY <1>1, <1>2, <2>2, <2>3, PlainKnows, WaveKnows
    <2> QED BY <2>1, <2>4, RenewKnows
<1>4. CASE Validate(w)
    <2> DEFINE next == [At("check") EXCEPT !.todo = Unready(mem[w])]
    <2>1. SaveAs(w, "VALIDATING", mem[w], next)
        BY <1>4 DEF Validate
    <2>2. next.at = "check" /\ next.todo \subseteq Items
        BY DEF At, Unready, ItemsOf
    <2> HIDE DEF next
    <2> QED BY <1>1, <2>1, <2>2, PlainKnows, SaveAsKnows
<1>5. CASE Check(w)
    <2>1. PICK i \in ctl[w].todo :
            Apply(w, i, "FAILED", [ctl[w] EXCEPT !.todo = @ \ {i}])
        BY <1>5 DEF Check
    <2> DEFINE next == [ctl[w] EXCEPT !.todo = @ \ {i}]
    <2>2. next.at = "check" /\ Apply(w, i, "FAILED", next) /\ i \in Items
        BY <1>0, <1>5, <2>1 DEF Check, ControlRecords
    <2> HIDE DEF next
    <2> QED BY <1>1, <2>2, PlainKnows, ApplyKnows
<1>6. CASE StartRunning(w)
    <2> DEFINE next == [At("wave") EXCEPT !.rest = Pending(mem[w])]
    <2>1. SaveAs(w, "RUNNING", mem[w], next)
        BY <1>6 DEF StartRunning
    <2>2. next.at = "wave" /\ next.rest = Pending(mem[w]) /\ next.todo = {}
        BY DEF At
    <2> HIDE DEF next
    <2> QED BY <1>1, <1>2, <2>1, <2>2, WaveKnows, SaveAsKnows
<1>7. CASE StartWave(w)
    <2> DEFINE wave == NextWave(ctl[w].rest)
               next == [ctl[w] EXCEPT
                !.at = "mark", !.wave = wave, !.rest = @ \ wave,
                !.todo = {i \in wave :
                            mem[w].items[i].status \in {"QUEUED", "RUNNING"}}]
    <2>1. ctl[w].at = "wave" /\ Renew(w, next)
        BY <1>7 DEF StartWave
    <2>2. wave \subseteq ctl[w].rest
        BY DEF NextWave
    <2>3. /\ next.at = "mark" /\ next.wave = wave /\ next.rest = ctl[w].rest \ wave
          /\ next.todo \subseteq wave
        BY <1>0 DEF ControlRecords
    <2> HIDE DEF next, wave
    <2>4. PlaceKnows(pve, mem[w], next)
        BY <2>1, <2>2, <2>3 DEF PlaceKnows, SetsFit, InWave, InSubmit, InWait
    <2> QED BY <2>1, <2>4, RenewKnows
<1>8. CASE Mark(w)
    <2>1. PICK i \in ctl[w].todo :
            Apply(w, i, "RUNNING", [ctl[w] EXCEPT !.todo = @ \ {i}])
        BY <1>8 DEF Mark
    <2> DEFINE next == [ctl[w] EXCEPT !.todo = @ \ {i}]
               k == WithItem(mem[w], i, "RUNNING")
    <2>2. /\ ctl[w].at = "mark" /\ Apply(w, i, "RUNNING", next) /\ i \in Items
          /\ Moves(ctl[w], next, "mark", ctl[w].todo \ {i})
        BY <1>0, <1>8, <2>1 DEF Mark, ControlRecords, Moves
    <2>3. Replaces(mem[w], k, i, [status |-> "RUNNING", upid |-> mem[w].items[i].upid])
        BY <1>0, <1>1, <2>2, Replaced
    <2> HIDE DEF next, k
    <2>4. PlaceKnows(pve, k, next)
        BY <2>2, <2>3 DEF PlaceKnows, SetsFit, InWave, InSubmit, InWait, Moves, Replaces
    <2> QED BY <1>1, <2>2, <2>4, ApplyKnows DEF k
<1>9. CASE SaveWave(w)
    <2> DEFINE next == [ctl[w] EXCEPT !.at = "submit", !.todo = ctl[w].wave]
    <2>1. /\ ctl[w].at = "mark" /\ SaveAs(w, "RUNNING", mem[w], next)
          /\ Moves(ctl[w], next, "submit", ctl[w].wave)
        BY <1>0, <1>9 DEF SaveWave, ControlRecords, Moves
    <2> HIDE DEF next
    <2>2. PlaceKnows(pve, mem[w], next) /\ next.todo \subseteq Items
        BY <1>0, <2>1 DEF PlaceKnows, SetsFit, InWave, InSubmit, InWait, Moves, Handled
    <2> QED BY <1>1, <2>1, <2>2, SaveAsKnows
<1>10. CASE Track(w)
    <2>1. PICK i \in ctl[w].todo :
            /\ IsFirst(i, ctl[w].todo)
            /\ mem[w].items[i].upid # NoUPID
            /\ mem' = [mem EXCEPT ![w] = WithItem(@, i, "WAITING_PVE")]
            /\ ctl' = [ctl EXCEPT ![w].todo = @ \ {i}]
        BY <1>10 DEF Track
    <2> DEFINE k == WithItem(mem[w], i, "WAITING_PVE")
               next == [ctl[w] EXCEPT !.todo = @ \ {i}]
    <2>2. /\ mem' = [mem EXCEPT ![w] = k] /\ ctl' = [ctl EXCEPT ![w] = next] /\ pve' = pve
          /\ ctl[w].at = "submit" /\ Moves(ctl[w], next, "submit", ctl[w].todo \ {i})
        BY <1>0, <1>10, <2>1 DEF TypeOK, Track, Moves, ControlRecords
    <2>3. /\ i \in Items /\ k \in MemoryRecords /\ k.op = mem[w].op
          /\ k.items[i] = [status |-> "WAITING_PVE", upid |-> mem[w].items[i].upid]
          /\ \A j \in Items : j # i => k.items[j] = mem[w].items[j]
        BY <1>0, <1>1, OneItem
    <2> HIDE DEF next, k
    <2>4. k.items[i].upid = mem[w].items[i].upid
        BY <2>3
    <2>5. Owned(pve, k)
        BY <2>3, <2>4 DEF Owned, ItemsOf
    <2>6. PlaceKnows(pve, k, next)
        BY <1>0, <2>1, <2>2, <2>3, <2>4, LoopKnows DEF Moves, InWave, InSubmit
    <2> QED BY <2>2, <2>5, <2>6, PrivateKnows
<1>11. CASE RenewForSubmit(w)
    <2> DEFINE next == [ctl[w] EXCEPT !.at = "send"]
    <2>1. /\ ctl[w].at = "submit" /\ Renew(w, next)
          /\ Moves(ctl[w], next, "send", ctl[w].todo)
        BY <1>0, <1>11 DEF RenewForSubmit, Moves, ControlRecords
    <2> HIDE DEF next
    <2>2. PlaceKnows(pve, mem[w], next)
        BY <2>1 DEF PlaceKnows, SetsFit, InWave, InSubmit, InWait, Moves, Handled
    <2> QED BY <2>1, <2>2, RenewKnows
<1>12. CASE Send(w)
    <2>1. PICK i \in ctl[w].todo :
            IsFirst(i, ctl[w].todo) /\ pve' = Append(pve, [item |-> i, state |-> "sent"])
        BY <1>12 DEF Send
    <2> DEFINE next == [ctl[w] EXCEPT !.at = "reply", !.call = Len(pve) + 1]
               request == [item |-> i, state |-> "sent"]
    <2>2. /\ ctl[w].at = "send" /\ ctl'[w] = next /\ mem'[w] = mem[w]
          /\ Moves(ctl[w], next, "reply", ctl[w].todo) /\ next.call = Len(pve) + 1
        BY <1>0, <1>12 DEF Send, TypeOK, Moves, ControlRecords
    <2>3. /\ Grows(pve, pve') /\ DOMAIN pve' = DOMAIN pve \cup {next.call}
          /\ pve'[next.call] = request
        <3>1. request \in RequestRecords /\ pve' = Append(pve, request)
            BY <1>0, <2>1 DEF RequestRecords
        <3> HIDE DEF request, next
        <3> QED BY <1>0, <2>2, <3>1 DEF Grows
    <2>4. pve'[next.call].item = i /\ next.call \in DOMAIN pve' /\ i \in Items
        BY <1>0, <2>3
    <2> HIDE DEF next, request
    <2>5. \A j \in ctl[w].todo : IsFirst(j, ctl[w].todo) => j = i
        BY <1>0, <2>1, <2>4, OneFirst
    <2>6. Owned(pve', mem[w])
        BY <2>3 DEF Owned, Grows
    <2>7. PlaceKnows(pve', mem[w], next)
        BY <2>2, <2>4, <2>5 DEF PlaceKnows, SetsFit, InWave, InSubmit, InWait, Moves, Handled
    <2> QED BY <2>2, <2>6, <2>7 DEF KnowsNext
<1>13. CASE Accepted(w)
    <2>1. PICK i \in ctl[w].todo :
            /\ IsFirst(i, ctl[w].todo)
            /\ Save(w, [mem[w] EXCEPT !.items[i] =
                            [status |-> "WAITING_PVE", upid |-> ctl[w].call]],
                    [ctl[w] EXCEPT !.at = "submit", !.todo = @ \ {i}, !.call = 0])
        BY <1>13 DEF Accepted
    <2> DEFINE next == [ctl[w] EXCEPT !.at = "submit", !.todo = @ \ {i}, !.call = 0]
               r == [status |-> "WAITING_PVE", upid |-> ctl[w].call]
               k == [mem[w] EXCEPT !.items[i] = r]
    <2>2. /\ ctl[w].at = "reply" /\ Save(w, k, next)
          /\ Moves(ctl[w], next, "submit", ctl[w].todo \ {i})
        BY <1>0, <1>13, <2>1 DEF Accepted, ControlRecords, Moves
    <2>3. ctl[w].call \in DOMAIN pve /\ pve[ctl[w].call].item = i
        BY <2>1, <2>2 DEF PlaceKnows
    <2>4. r \in ItemRecords /\ r.upid = ctl[w].call /\ r.upid # NoUPID /\ i \in Items
        BY <1>0, <1>1, <2>3 DEF ItemRecords, NoUPID
    <2> HIDE DEF next, r
    <2>5. /\ k \in MemoryRecords /\ k.op = mem[w].op /\ k.items[i] = r
          /\ \A j \in Items : j # i => k.items[j] = mem[w].items[j]
        BY <1>0, <2>4, ItemReplaced
    <2> HIDE DEF k
    <2>6. Owned(pve, k)
        BY <2>3, <2>4, <2>5 DEF Owned, ItemsOf
    <2>7. PlaceKnows(pve, k, next)
        BY <1>0, <2>1, <2>2, <2>4, <2>5, LoopKnows DEF Moves, InWave, InSubmit
    <2>8. next.todo \subseteq Items
        BY <1>0, <2>2 DEF Moves
    <2> QED BY <2>2, <2>5, <2>6, <2>7, <2>8, SaveKnows
<1>14. CASE NotAccepted(w)
    <2>1. PICK i \in ctl[w].todo, status \in {"FAILED", "UNKNOWN"} :
            /\ IsFirst(i, ctl[w].todo)
            /\ Apply(w, i, status, [ctl[w] EXCEPT !.at = "saveSubmit", !.call = 0])
        BY <1>14 DEF NotAccepted
    <2> DEFINE next == [ctl[w] EXCEPT !.at = "saveSubmit", !.call = 0]
               k == WithItem(mem[w], i, status)
    <2>2. /\ ctl[w].at = "reply" /\ Apply(w, i, status, next)
          /\ Moves(ctl[w], next, "saveSubmit", ctl[w].todo)
        BY <1>0, <1>14, <2>1 DEF NotAccepted, ControlRecords, Moves
    <2>3. /\ i \in Items /\ status \in ItemStatuses /\ k \in MemoryRecords /\ k.op = mem[w].op
          /\ k.items[i] = [status |-> status, upid |-> mem[w].items[i].upid]
          /\ \A j \in Items : j # i => k.items[j] = mem[w].items[j]
        BY <1>0, <1>1, OneItem
    <2> HIDE DEF next, k
    <2>4. k.items[i].status \in SettledStatuses
        BY <1>1, <2>3
    <2>5. PlaceKnows(pve, k, next)
        BY <1>0, <2>1, <2>2, <2>3, <2>4, LoopKnows DEF Moves, InWave, InSubmit
    <2> QED BY <2>2, <2>3, <2>5, ApplyKnows DEF k
<1>15. CASE SaveSubmit(w)
    <2>1. PICK i \in ctl[w].todo :
            /\ IsFirst(i, ctl[w].todo)
            /\ Save(w, mem[w], [ctl[w] EXCEPT !.at = "submit", !.todo = @ \ {i}])
        BY <1>15 DEF SaveSubmit
    <2> DEFINE next == [ctl[w] EXCEPT !.at = "submit", !.todo = @ \ {i}]
    <2>2. /\ ctl[w].at = "saveSubmit" /\ Save(w, mem[w], next)
          /\ Moves(ctl[w], next, "submit", ctl[w].todo \ {i})
        BY <1>0, <1>15, <2>1 DEF SaveSubmit, ControlRecords, Moves
    <2> HIDE DEF next
    <2>3. /\ i \in ctl[w].wave
          /\ mem[w].items[i].status \in SettledStatuses \/ mem[w].items[i].upid # NoUPID
        BY <2>1, <2>2 DEF PlaceKnows, SetsFit, InWave, InSubmit, Handled
    <2>4. PlaceKnows(pve, mem[w], next) /\ next.todo \subseteq Items
        BY <1>0, <2>1, <2>2, <2>3, LoopKnows DEF Moves, InWave, InSubmit
    <2> QED BY <1>0, <2>2, <2>4, SaveKnows
<1>16. CASE StartWaiting(w)
    <2> DEFINE todo == {i \in ctl[w].wave : mem[w].items[i].status \notin SettledStatuses}
               next == [ctl[w] EXCEPT !.at = "wait", !.todo = todo]
    <2>1. /\ ctl[w].at = "submit" /\ ctl[w].todo = {} /\ SaveAs(w, "WAITING_PVE", mem[w], next)
          /\ Moves(ctl[w], next, "wait", todo)
        BY <1>0, <1>16 DEF StartWaiting, ControlRecords, Moves
    <2> HIDE DEF next
    <2>2. \A i \in todo : mem[w].items[i].upid # NoUPID
        BY <2>1 DEF PlaceKnows, InSubmit
    <2>3. PlaceKnows(pve, mem[w], next) /\ next.todo \subseteq Items
        BY <1>0, <2>1, <2>2 DEF PlaceKnows, SetsFit, InWave, InSubmit, InWait, Moves
    <2> QED BY <1>1, <2>1, <2>3, SaveAsKnows
<1>17. CASE TaskEnded(w)
    <2>1. PICK i \in ctl[w].todo :
            /\ IsFirst(i, ctl[w].todo)
            /\ Save(w, WithItem(mem[w], i, "VERIFYING"), [ctl[w] EXCEPT !.at = "result"])
        BY <1>17 DEF TaskEnded
    <2> DEFINE next == [ctl[w] EXCEPT !.at = "result"]
               k == WithItem(mem[w], i, "VERIFYING")
    <2>2. /\ ctl[w].at = "wait" /\ Save(w, k, next)
          /\ Moves(ctl[w], next, "result", ctl[w].todo)
        BY <1>0, <1>17, <2>1 DEF TaskEnded, ControlRecords, Moves
    <2>3. /\ i \in Items /\ k \in MemoryRecords /\ k.op = mem[w].op
          /\ k.items[i] = [status |-> "VERIFYING", upid |-> mem[w].items[i].upid]
          /\ \A j \in Items : j # i => k.items[j] = mem[w].items[j]
        BY <1>0, <1>1, OneItem
    <2> HIDE DEF next, k
    <2>4. k.items[i].upid = mem[w].items[i].upid
        BY <2>3
    <2>5. Owned(pve, k)
        BY <2>3, <2>4 DEF Owned, ItemsOf
    <2>6. PlaceKnows(pve, k, next) /\ next.todo \subseteq Items
        BY <1>0, <2>1, <2>2, <2>3, <2>4, LoopKnows DEF Moves, InWave, InWait
    <2> QED BY <2>2, <2>3, <2>5, <2>6, SaveKnows
<1>18. CASE Result(w) \/ Unresolved(w)
    <2>1. PICK i \in ctl[w].todo, status \in {"SUCCEEDED", "FAILED", "UNKNOWN"} :
            /\ IsFirst(i, ctl[w].todo)
            /\ Apply(w, i, status, [ctl[w] EXCEPT !.at = "saveResult"])
        BY <1>18 DEF Result, Unresolved
    <2> DEFINE next == [ctl[w] EXCEPT !.at = "saveResult"]
               k == WithItem(mem[w], i, status)
    <2>2. /\ ctl[w].at \in {"result", "unresolved"} /\ Apply(w, i, status, next)
          /\ Moves(ctl[w], next, "saveResult", ctl[w].todo)
        BY <1>0, <1>18, <2>1 DEF Result, Unresolved, ControlRecords, Moves
    <2>3. /\ i \in Items /\ status \in ItemStatuses /\ k \in MemoryRecords /\ k.op = mem[w].op
          /\ k.items[i] = [status |-> status, upid |-> mem[w].items[i].upid]
          /\ \A j \in Items : j # i => k.items[j] = mem[w].items[j]
        BY <1>0, <1>1, OneItem
    <2> HIDE DEF next, k
    <2>4. PlaceKnows(pve, k, next)
        BY <1>0, <2>1, <2>2, <2>3, LoopKnows DEF Moves, InWave, InWait
    <2> QED BY <2>2, <2>3, <2>4, ApplyKnows DEF k
<1>19. CASE Heartbeat(w)
    <2>1. UNCHANGED <<pve, mem, ctl>>
        BY <1>19 DEF Heartbeat
    <2> QED BY <2>1 DEF KnowsNext
<1>20. CASE WaitFails(w)
    <2> DEFINE next == [ctl[w] EXCEPT !.at = "unresolved"]
    <2>1. /\ ctl[w].at = "wait" /\ pve' = pve
          /\ mem' = [mem EXCEPT ![w] = mem[w]] /\ ctl' = [ctl EXCEPT ![w] = next]
          /\ Moves(ctl[w], next, "unresolved", ctl[w].todo)
        BY <1>0, <1>20 DEF WaitFails, Moves, ControlRecords, TypeOK
    <2> HIDE DEF next
    <2>2. PlaceKnows(pve, mem[w], next)
        BY <2>1 DEF PlaceKnows, SetsFit, InWave, InSubmit, InWait, Moves, Handled
    <2> QED BY <2>1, <2>2, PrivateKnows
<1>21. CASE SaveResult(w)
    <2>1. PICK i \in ctl[w].todo :
            /\ IsFirst(i, ctl[w].todo)
            /\ Save(w, mem[w], [ctl[w] EXCEPT !.at = "wait", !.todo = @ \ {i}])
        BY <1>21 DEF SaveResult
    <2> DEFINE next == [ctl[w] EXCEPT !.at = "wait", !.todo = @ \ {i}]
    <2>2. /\ ctl[w].at = "saveResult" /\ Save(w, mem[w], next)
          /\ Moves(ctl[w], next, "wait", ctl[w].todo \ {i})
        BY <1>0, <1>21, <2>1 DEF SaveResult, ControlRecords, Moves
    <2> HIDE DEF next
    <2>3. PlaceKnows(pve, mem[w], next) /\ next.todo \subseteq Items
        BY <1>0, <2>1, <2>2, LoopKnows DEF Moves, InWave, InWait
    <2> QED BY <1>0, <2>2, <2>3, SaveKnows
<1>22. CASE EndWave(w)
    <2> DEFINE next == [At("wave") EXCEPT !.rest = ctl[w].rest]
    <2>1. /\ ctl[w].at = "wait" /\ pve' = pve
          /\ mem' = [mem EXCEPT ![w] = mem[w]] /\ ctl' = [ctl EXCEPT ![w] = next]
          /\ next.at = "wave" /\ next.rest = ctl[w].rest
        BY <1>0, <1>22 DEF EndWave, At, TypeOK
    <2> HIDE DEF next
    <2>2. PlaceKnows(pve, mem[w], next)
        BY <2>1, WaveKnows DEF PlaceKnows, SetsFit, InWave, InWait
    <2> QED BY <2>1, <2>2, PrivateKnows
<1>23. CASE Verify(w)
    <2> DEFINE next == At("finish")
    <2>1. SaveAs(w, "VERIFYING", mem[w], next)
        BY <1>23 DEF Verify
    <2>2. next.at = "finish" /\ next.todo = {}
        BY DEF At
    <2> HIDE DEF next
    <2> QED BY <1>1, <2>1, <2>2, PlainKnows, SaveAsKnows
<1>24. CASE Finish(w)
    <2> DEFINE status == FinalStatus({mem[w].items[i].status : i \in ItemsOf(mem[w].op)})
    <2>1. SaveAs(w, status, mem[w], Idle) /\ status \in OperationStatuses
        BY <1>24 DEF Finish, FinalStatus, OperationStatuses
    <2>2. Idle.at = "idle" /\ Idle.todo = {}
        BY DEF Idle, At
    <2> HIDE DEF status
    <2> QED BY <1>1, <2>1, <2>2, PlainKnows, SaveAsKnows
<1> QED
    BY <1>3, <1>4, <1>5, <1>6, <1>7, <1>8, <1>9, <1>10, <1>11, <1>12, <1>13,
       <1>14, <1>15, <1>16, <1>17, <1>18, <1>19, <1>20, <1>21, <1>22, <1>23, <1>24
    DEF Execute

\* A worker changes no other worker's copy or place.
LEMMA OthersStay ==
    ASSUME TypeOK, NEW w \in Workers, NEW v \in Workers, v # w,
           Step(w) \/ Poll(w) \/ Stop(w)
    PROVE  mem'[v] = mem[v] /\ ctl'[v] = ctl[v]
<1> DEFINE Goal == mem'[v] = mem[v] /\ ctl'[v] = ctl[v]
<1>1. mem \in [Workers -> MemoryRecords] /\ ctl \in [Workers -> ControlRecords]
    BY DEF TypeOK
<1>2. ASSUME NEW k, NEW n, Save(w, k, n) PROVE Goal
    <2>1. PICK m, l : mem' = [mem EXCEPT ![w] = m] /\ ctl' = [ctl EXCEPT ![w] = l]
        BY <1>2 DEF Save
    <2> QED BY <1>1, <2>1
<1>3. ASSUME NEW status, NEW k, NEW n, SaveAs(w, status, k, n) PROVE Goal
    <2>1. CASE CanTransition(k.status, status)
        BY <1>2, <1>3, <2>1 DEF SaveAs
    <2>2. CASE ~CanTransition(k.status, status)
        BY <1>1, <1>3, <2>2 DEF SaveAs
    <2> QED BY <2>1, <2>2
<1>4. ASSUME NEW n, Renew(w, n) PROVE Goal
    BY <1>1, <1>4 DEF Renew
<1>5. ASSUME NEW i, NEW status, NEW n, Apply(w, i, status, n) PROVE Goal
    <2>1. PICK m, l : mem' = [mem EXCEPT ![w] = m] /\ ctl' = [ctl EXCEPT ![w] = l]
        BY <1>5 DEF Apply
    <2> QED BY <1>1, <2>1
<1>6. CASE \/ Validate(w) \/ StartRunning(w) \/ SaveWave(w) \/ StartWaiting(w)
           \/ Verify(w) \/ Finish(w)
    BY <1>3, <1>6 DEF Validate, StartRunning, SaveWave, StartWaiting, Verify, Finish
<1>7. CASE Begin(w) \/ StartWave(w) \/ RenewForSubmit(w)
    BY <1>4, <1>7 DEF Begin, StartWave, RenewForSubmit
<1>8. CASE Check(w) \/ Mark(w) \/ NotAccepted(w) \/ Result(w) \/ Unresolved(w)
    BY <1>5, <1>8 DEF Check, Mark, NotAccepted, Result, Unresolved
<1>9. CASE Accepted(w) \/ SaveSubmit(w) \/ TaskEnded(w) \/ SaveResult(w)
    BY <1>2, <1>9 DEF Accepted, SaveSubmit, TaskEnded, SaveResult
<1>10. CASE Track(w) \/ Send(w) \/ Heartbeat(w) \/ WaitFails(w) \/ EndWave(w)
    BY <1>1, <1>10 DEF Track, Send, Heartbeat, WaitFails, EndWave, stored
<1>11. CASE \/ \E o \in Ops : Claim(w, o)
            \/ LoadRow(w) \/ LoadItems(w) \/ LoadFails(w) \/ Fail(w) \/ Poll(w) \/ Stop(w)
    BY <1>1, <1>11 DEF Claim, LoadRow, LoadItems, LoadFails, Fail, Poll, Stop, vars
<1> QED BY <1>6, <1>7, <1>8, <1>9, <1>10, <1>11 DEF Step, Execute

\* A worker that executes is loaded; one that reads starts anew.
LEMMA OwnNext == RecordInv /\ OwnTasks /\ [Next]_vars => OwnTasks'
<1> SUFFICES ASSUME RecordInv, OwnTasks, [Next]_vars, NEW v \in Workers, Loaded(v)'
             PROVE  Owned(pve', mem'[v]) /\ PlaceKnows(pve', mem'[v], ctl'[v])
    BY DEF OwnTasks
<1>0. TypeOK /\ Grows(pve, pve')
    BY PveGrows DEF RecordInv, CopyInv
<1>1. CASE mem'[v] = mem[v] /\ ctl'[v] = ctl[v]
    <2>1. Loaded(v)
        BY <1>1 DEF Loaded, Working
    <2>2. Owned(pve, mem[v]) /\ PlaceKnows(pve, mem[v], ctl[v]) /\ ctl[v].todo \subseteq Items
        BY <1>0, <2>1 DEF OwnTasks, TypeOK, ControlRecords
    <2> QED BY <1>0, <1>1, <2>2, KnowsStays
<1>2. CASE Execute(v)
    <2>1. Loaded(v)
        BY <1>2 DEF Execute, Loaded, Working, Begin, Validate, Check, StartRunning,
             StartWave, Mark, SaveWave, Track, RenewForSubmit, Send, Accepted, NotAccepted,
             SaveSubmit, StartWaiting, TaskEnded, Result, Heartbeat, WaitFails, Unresolved,
             SaveResult, EndWave, Verify, Finish
    <2> QED BY <1>0, <1>2, <2>1, ExecuteKnows DEF OwnTasks, KnowsNext
<1>3. CASE LoadItems(v)
    <2>1. /\ mem'[v].op = mem[v].op /\ ctl'[v] = At("begin") /\ pve' = pve
          /\ \A i \in ItemsOf(mem[v].op) : mem'[v].items[i] = items[i]
        BY <1>0, <1>3 DEF LoadItems, TypeOK, MemoryRecords, ItemsOf
    <2>2. mem[v].op \in Ops
        BY <1>0, <1>3 DEF TypeOK, LoadItems, Working
    <2>3. \A i \in ItemsOf(mem[v].op) : Truthful(pve, i, items[i])
        BY <2>2 DEF RecordInv, StoredSound, Sound
    <2>4. Owned(pve, mem'[v])
        BY <2>1, <2>3 DEF Owned, Truthful
    <2>5. PlaceKnows(pve, mem'[v], At("begin"))
        BY PlainKnows DEF At, InWave, InSubmit, InWait
    <2> QED BY <2>1, <2>4, <2>5
<1>4. CASE \/ \E o \in Ops : Claim(v, o)
           \/ LoadRow(v) \/ LoadFails(v) \/ Fail(v) \/ Stop(v)
    <2>1. ctl'[v].at \in {"load", "loadItems", "idle", "stopped"}
        BY <1>0, <1>4 DEF Claim, LoadRow, LoadFails, Fail, Stop, At, Idle, TypeOK
    <2> QED BY <2>1 DEF Loaded, Working
<1>5. CASE Poll(v) \/ UNCHANGED vars
    BY <1>1, <1>5 DEF Poll, vars
<1>6. CASE \/ \E o \in Ops : LeaseLapses(o) \/ LeaseExpires(o)
           \/ \E r \in DOMAIN pve : PveAnswers(r)
    BY <1>1, <1>6 DEF LeaseLapses, LeaseExpires, PveAnswers
<1>7. ASSUME NEW w \in Workers, w # v, Step(w) \/ Poll(w) \/ Stop(w)
      PROVE  mem'[v] = mem[v] /\ ctl'[v] = ctl[v]
    BY <1>0, <1>7, OthersStay
<1> QED BY <1>1, <1>2, <1>3, <1>4, <1>5, <1>6, <1>7 DEF Next, Step
\* Only a result of a task that ended well sets a power state.
Earned(p, s, power) ==
    power # "UNKNOWN" =>
        \E r \in DOMAIN p :
            /\ SeatOf[p[r].item] = s
            /\ p[r].state = "ok"
            /\ power = IF OpType[OpOf[p[r].item]] = "SHUTDOWN" THEN "STOPPED" ELSE "RUNNING"

LEMMA SeatSteps ==
    ASSUME TypeOK, [Next]_vars
    PROVE  \/ seats' = seats
           \/ \E w \in Workers : Check(w) \/ Mark(w) \/ NotAccepted(w) \/ Result(w) \/ Unresolved(w)
<1>1. CASE \E w \in Workers :
            \/ Begin(w) \/ Validate(w) \/ StartRunning(w)
            \/ StartWave(w) \/ SaveWave(w) \/ Track(w) \/ RenewForSubmit(w) \/ Send(w)
    BY <1>1 DEF Begin, Validate, StartRunning, StartWave, SaveWave, Track,
                RenewForSubmit, Send, Renew, SaveAs, Save, stored, budgets
<1>2. CASE \E w \in Workers :
            \/ Accepted(w) \/ SaveSubmit(w) \/ StartWaiting(w)
            \/ TaskEnded(w) \/ SaveResult(w) \/ Verify(w) \/ Finish(w)
    BY <1>2 DEF Accepted, SaveSubmit, StartWaiting, TaskEnded, SaveResult, Verify, Finish,
                SaveAs, Save, stored, budgets
<1>3. CASE \E w \in Workers :
            \/ Heartbeat(w) \/ WaitFails(w) \/ EndWave(w)
            \/ \E o \in Ops : Claim(w, o)
            \/ LoadRow(w) \/ LoadItems(w) \/ LoadFails(w) \/ Fail(w) \/ Poll(w) \/ Stop(w)
    BY <1>3 DEF Heartbeat, WaitFails, EndWave, Claim, LoadRow, LoadItems, LoadFails, Fail,
                Poll, Stop, vars, stored, budgets
<1>4. CASE \/ \E o \in Ops : LeaseLapses(o) \/ LeaseExpires(o)
           \/ \E r \in DOMAIN pve : PveAnswers(r)
           \/ UNCHANGED vars
    BY <1>4 DEF LeaseLapses, LeaseExpires, PveAnswers, vars, stored, budgets
<1> QED BY <1>1, <1>2, <1>3, <1>4 DEF Next, Step, Execute

LEMMA EarnedStays ==
    ASSUME NEW p, NEW q, Grows(p, q), NEW s, NEW power, Earned(p, s, power)
    PROVE  Earned(q, s, power)
BY DEF Earned, Grows

LEMMA PowerNext == RecordInv /\ OwnTasks /\ PowerIsEarned /\ [Next]_vars => PowerIsEarned'
<1> SUFFICES ASSUME RecordInv, OwnTasks, PowerIsEarned, [Next]_vars, NEW s \in Seats
             PROVE  Earned(pve', s, seats'[s].power)
    BY DEF PowerIsEarned, Earned
<1>0. TypeOK /\ Grows(pve, pve') /\ Earned(pve, s, seats[s].power)
    BY PveGrows DEF RecordInv, CopyInv, PowerIsEarned, Earned
<1>1. ASSUME seats'[s].power \in {seats[s].power, "UNKNOWN"}
      PROVE  Earned(pve', s, seats'[s].power)
    <2>1. CASE seats'[s].power = "UNKNOWN"
        BY <2>1 DEF Earned
    <2>2. CASE seats'[s].power = seats[s].power
        <3> DEFINE power == seats'[s].power
        <3>1. Earned(pve, s, power)
            BY <1>0, <2>2
        <3> HIDE DEF power
        <3>2. Earned(pve', s, power)
            BY <1>0, <3>1, EarnedStays
        <3> QED BY <3>2 DEF power
    <2> QED BY <1>1, <2>1, <2>2
<1>2. ASSUME NEW w \in Workers, NEW i \in Items, NEW status \in ItemStatuses, NEW n,
             mem[w].op \in Ops, Apply(w, i, status, n),
             status = "SUCCEEDED" =>
                /\ OpOf[i] = mem[w].op
                /\ \E r \in DOMAIN pve : pve[r].item = i /\ pve[r].state = "ok"
      PROVE  Earned(pve', s, seats'[s].power)
    <2> DEFINE after == SeatAfter(seats[SeatOf[i]], OpType[mem[w].op], status)
    <2>1. pve' = pve /\ seats' \in {seats, [seats EXCEPT ![SeatOf[i]] = after]}
        BY <1>2 DEF Apply
    <2>2. CASE seats'[s] = seats[s]
        BY <1>1, <2>2
    <2>3. CASE s = SeatOf[i] /\ seats'[s] = after
        <3>1. CASE status # "SUCCEEDED"
            BY <1>1, <2>3, <3>1 DEF SeatAfter
        <3>2. CASE status = "SUCCEEDED"
            <4>1. OpType[mem[w].op] = "PRECHECK" => after.power = seats[s].power
                BY <2>3 DEF SeatAfter
            <4>2. CASE OpType[mem[w].op] \in {"START", "RESTORE", "SHUTDOWN"}
                BY <1>2, <2>1, <2>3, <3>2, <4>2 DEF SeatAfter, Earned
            <4>3. CASE OpType[mem[w].op] \notin {"START", "RESTORE", "SHUTDOWN"}
                BY <1>1, <2>3, <4>3 DEF SeatAfter
            <4> QED BY <4>2, <4>3
        <3> QED BY <3>1, <3>2
    <2>4. seats'[s] = seats[s] \/ (s = SeatOf[i] /\ seats'[s] = after)
        BY <1>0, <2>1 DEF TypeOK
    <2> QED BY <2>2, <2>3, <2>4
<1>3. CASE \E w \in Workers : Result(w)
    <2>1. PICK w \in Workers : Result(w)
        BY <1>3
    <2>2. PICK i \in ctl[w].todo :
            /\ IsFirst(i, ctl[w].todo)
            /\ Apply(w, i, IF pve[mem[w].items[i].upid].state = "ok" THEN "SUCCEEDED" ELSE "FAILED",
                     [ctl[w] EXCEPT !.at = "saveResult"])
        BY <2>1 DEF Result
    <2> DEFINE status == IF pve[mem[w].items[i].upid].state = "ok" THEN "SUCCEEDED" ELSE "FAILED"
    <2>3. /\ Loaded(w) /\ ctl[w].at = "result" /\ mem[w].op \in Ops /\ i \in Items
        BY <1>0, <2>1 DEF Result, Loaded, Working, TypeOK, ControlRecords
    <2>4. Owned(pve, mem[w]) /\ PlaceKnows(pve, mem[w], ctl[w])
        BY <2>3 DEF OwnTasks
    <2>5. i \in ItemsOf(mem[w].op) /\ mem[w].items[i].upid # NoUPID
        BY <2>3, <2>4 DEF PlaceKnows, SetsFit, InWave, InWait, Handled
    <2>6. mem[w].items[i].upid \in DOMAIN pve /\ pve[mem[w].items[i].upid].item = i
        BY <2>4, <2>5 DEF Owned
    <2>7. /\ status \in ItemStatuses
          /\ status = "SUCCEEDED" => pve[mem[w].items[i].upid].state = "ok"
        BY DEF ItemStatuses
    <2>8. OpOf[i] = mem[w].op
        BY <2>5 DEF ItemsOf
    <2> HIDE DEF status
    <2> QED BY <1>2, <2>2, <2>3, <2>6, <2>7, <2>8 DEF status
<1>4. CASE \E w \in Workers : Check(w) \/ Mark(w) \/ NotAccepted(w) \/ Unresolved(w)
    <2>1. PICK w \in Workers : Check(w) \/ Mark(w) \/ NotAccepted(w) \/ Unresolved(w)
        BY <1>4
    <2>2. PICK i \in ctl[w].todo, status \in {"FAILED", "RUNNING", "UNKNOWN"} :
            \E n : Apply(w, i, status, n)
        BY <2>1 DEF Check, Mark, NotAccepted, Unresolved
    <2>3. i \in Items /\ status \in ItemStatuses /\ status # "SUCCEEDED" /\ mem[w].op \in Ops
        BY <1>0, <2>1 DEF Check, Mark, NotAccepted, Unresolved, Working, TypeOK,
                          ControlRecords, ItemStatuses
    <2> QED BY <1>2, <2>2, <2>3
<1>5. CASE seats' = seats
    BY <1>1, <1>5
<1> QED BY <1>0, <1>3, <1>4, <1>5, SeatSteps

\* In every environment the UPIDs in a worker's copy are those of tasks of its own items,
\* whatever version of the operation it has, and its loops know their requests.
LEMMA TaskOwnership == Spec => []OwnTasks
<1>1. Init => OwnTasks
    BY DEF Init, OwnTasks, Loaded, Working, Idle, At
<1> QED BY <1>1, RecordInvariance, OwnNext, PTL DEF Spec

\* In every environment a power state on a seat comes from a task that really succeeded
\* (runner.go, ApplyOperationItemResult).
THEOREM EarnedPower == Spec => []PowerIsEarned
<1>1. Init => PowerIsEarned
    BY DEF Init, PowerIsEarned
<1> QED BY <1>1, RecordInvariance, TaskOwnership, PowerNext, PTL DEF Spec
=============================================================================
