---------------------------- MODULE RepositoryPair ----------------------------
(***************************************************************************)
(* The two repositories side by side.  Every call is made on both, and the *)
(* question is whether a caller could tell them apart: repository.go 22-24 *)
(* requires the same idempotency and optimistic concurrency of both, and   *)
(* the tests of the runner and of the event streams only use the one in    *)
(* memory.  Each call is complete before the next one begins (for the      *)
(* calls of several clients at once see OperationCreation and              *)
(* OperationRunner), no database error occurs and no context is done,      *)
(* identifiers are well-formed and both read one clock.  The order of      *)
(* seats and items, and the fields that no call changes, are left out.     *)
(***************************************************************************)
EXTENDS Naturals, FiniteSets, OperationLifecycle

CONSTANTS
    Ids,        \* operations, in the order of created_at
    Items, OpOf,        \* items and the operation each belongs to
    Rooms, Seats, RoomOf,  \* classrooms, seats and the classroom of a seat
    WithDesktop,        \* seats that have a virtual desktop
    Online,             \* seats whose thin client is online
    Owners, Nobody,     \* workers, and the owner of a lease nobody has
    Keys, Hashes        \* idempotency keys with their classroom, request hashes

VARIABLES
    now,             \* the clock
    operations,      \* MemoryRepository: every known operation with its items
    idempotency,     \*   hash and operation of every used key
    operationLease,  \*   the leases that exist
    classrooms,      \*   version and seats of every classroom
    operationRows,   \* PostgreSQL: the row of every known operation, lease included
    itemRows,        \*   the rows of the items
    keyRows,         \*   the rows of the keys
    seatRows,        \*   operation_state of every seat
    desktopRows,     \*   observed_state, guest_agent_ready and last_reconciled_at
    classroomRows,   \*   resource_version of every classroom
    call,            \* the last call: its name and its operation
    fromMemory, fromTables,  \* the two answers to it
    prechecked,      \* history: desktops whose last successful task was a PRECHECK
    tied             \* history: the memory gave away a lease that ended right then

memory == <<operations, idempotency, operationLease, classrooms>>
tables == <<operationRows, itemRows, keyRows, seatRows, desktopRows, classroomRows>>
said == <<call, fromMemory, fromTables>>
past == <<prechecked, tied>>
vars == <<now, memory, tables, said, past>>
-----------------------------------------------------------------------------
Put(f, k, v) == [x \in DOMAIN f \cup {k} |-> IF x = k THEN v ELSE f[x]]
Drop(f, k) == [x \in DOMAIN f \ {k} |-> f[x]]

ItemsOf(o) == {i \in Items : OpOf[i] = o}
SeatsOf(c) == {s \in Seats : RoomOf[s] = c}
Terminal(status) == status \in TerminalStatuses
NewItem == [status |-> "QUEUED", upid |-> 0]
NoDesktop == [power |-> "none", agent |-> FALSE, reconciled |-> 0]
Desktops ==
    [power : {"RUNNING", "STOPPED", "UNKNOWN"}, agent : BOOLEAN, reconciled : Nat]

\* What a call answers: an error or none, and what it returns, if anything.
Says(error) == [error |-> error, id |-> <<>>, content |-> <<>>]
Gives(o, operation) == [error |-> "", id |-> <<o>>, content |-> <<operation>>]
Shows(content) == [error |-> "", id |-> <<>>, content |-> content]

\* getOperation: the row joined with its item rows.
ReadRows(o) ==
    [status |-> operationRows[o].status, version |-> operationRows[o].version,
     items |-> [i \in ItemsOf(o) |-> itemRows[i]]]

\* The two statements of GetClassroom: the seats are joined with their desktops.
ReadRoom(c) ==
    [version |-> classroomRows[c],
     seats |-> [s \in SeatsOf(c) |->
        [state |-> seatRows[s],
         desktop |-> IF s \in WithDesktop THEN desktopRows[s] ELSE NoDesktop]]]
-----------------------------------------------------------------------------
(* GetOperation and ListOperations.                                         *)

MemoryGet(o) ==
    IF o \in DOMAIN operations THEN Gives(o, operations[o]) ELSE Says("not found")
TablesGet(o) ==
    IF o \in DOMAIN operationRows THEN Gives(o, ReadRows(o)) ELSE Says("not found")

Get(o) ==
    /\ fromMemory' = MemoryGet(o)
    /\ fromTables' = TablesGet(o)
    /\ call' = [name |-> "get", id |-> o]
    /\ UNCHANGED <<now, memory, tables, past>>

Page(limit) == IF limit = 0 \/ limit > 200 THEN 50 ELSE limit

Newest(S, n) == {o \in S : Cardinality({p \in S : p > o}) < n}

MemoryListOperations(limit) ==
    Shows([total |-> Cardinality(DOMAIN operations),
           page |-> [o \in Newest(DOMAIN operations, Page(limit)) |-> operations[o]]])
TablesListOperations(limit) ==
    Shows([total |-> Cardinality(DOMAIN operationRows),
           page |-> [o \in Newest(DOMAIN operationRows, Page(limit)) |-> ReadRows(o)]])

ListOperations(limit) ==
    /\ fromMemory' = MemoryListOperations(limit)
    /\ fromTables' = TablesListOperations(limit)
    /\ call' = [name |-> "list", id |-> 0]
    /\ UNCHANGED <<now, memory, tables, past>>
-----------------------------------------------------------------------------
(* GetClassroom and ListClassrooms.                                         *)

MemoryGetClassroom(c) ==
    IF c \in DOMAIN classrooms THEN Shows(classrooms[c]) ELSE Says("not found")
TablesGetClassroom(c) ==
    IF c \in DOMAIN classroomRows THEN Shows(ReadRoom(c)) ELSE Says("not found")

GetClassroom(c) ==
    /\ fromMemory' = MemoryGetClassroom(c)
    /\ fromTables' = TablesGetClassroom(c)
    /\ call' = [name |-> "classroom", id |-> c]
    /\ UNCHANGED <<now, memory, tables, past>>

Blocking == {"FAILED", "UNKNOWN"}

\* SummarizeClassroom counts a seat as ready only if its desktop runs, ...
MemoryReady(c) ==
    {s \in SeatsOf(c) :
        LET seat == classrooms[c].seats[s]
        IN  /\ s \in Online
            /\ seat.desktop.power = "RUNNING" /\ seat.desktop.agent
            /\ seat.state \notin Blocking}

\* ... the SELECT does not look whether it does.
TablesReady(c) ==
    {s \in SeatsOf(c) :
        /\ s \in Online
        /\ s \in WithDesktop /\ desktopRows[s].agent
        /\ seatRows[s] \notin Blocking}

Summary(c, ready, running) ==
    [total |-> Cardinality(SeatsOf(c)), online |-> Cardinality(SeatsOf(c) \cap Online),
     ready |-> Cardinality(ready), running |-> Cardinality(running)]

MemoryListClassrooms ==
    Shows([c \in DOMAIN classrooms |->
            Summary(c, MemoryReady(c),
                    {s \in SeatsOf(c) : classrooms[c].seats[s].desktop.power = "RUNNING"})])
TablesListClassrooms ==
    Shows([c \in DOMAIN classroomRows |->
            Summary(c, TablesReady(c),
                    {s \in SeatsOf(c) \cap WithDesktop : desktopRows[s].power = "RUNNING"})])

ListClassrooms ==
    /\ fromMemory' = MemoryListClassrooms
    /\ fromTables' = TablesListClassrooms
    /\ call' = [name |-> "classrooms", id |-> 0]
    /\ UNCHANGED <<now, memory, tables, past>>
-----------------------------------------------------------------------------
(* CreateOperation with a fresh identifier o.                               *)

MemoryCreate(key, hash, o) ==
    \/ /\ key \in DOMAIN idempotency
       /\ fromMemory' = IF idempotency[key].hash # hash
                        THEN Says("used with a different request")
                        ELSE Gives(idempotency[key].op, operations[idempotency[key].op])
       /\ UNCHANGED memory
    \/ /\ key \notin DOMAIN idempotency
       /\ operations' = Put(operations, o, [status |-> "QUEUED", version |-> 1,
                                            items |-> [i \in ItemsOf(o) |-> NewItem]])
       /\ idempotency' = Put(idempotency, key, [hash |-> hash, op |-> o])
       /\ fromMemory' = Gives(o, operations'[o])
       /\ UNCHANGED <<operationLease, classrooms>>

TablesCreate(key, hash, o) ==
    \/ /\ key \in DOMAIN keyRows
       /\ fromTables' = IF keyRows[key].hash # hash
                        THEN Says("used with a different request")
                        ELSE TablesGet(keyRows[key].op)
       /\ UNCHANGED tables
    \/ /\ key \notin DOMAIN keyRows
       /\ operationRows' = Put(operationRows, o, [status |-> "QUEUED", version |-> 1,
                                                  owner |-> Nobody, until |-> 0])
       /\ itemRows' = [i \in DOMAIN itemRows \cup ItemsOf(o) |->
                            IF i \in ItemsOf(o) THEN NewItem ELSE itemRows[i]]
       /\ keyRows' = Put(keyRows, key, [hash |-> hash, op |-> o])
       /\ fromTables' = Gives(o, [status |-> "QUEUED", version |-> 1,
                                  items |-> [i \in ItemsOf(o) |-> NewItem]])
       /\ UNCHANGED <<seatRows, desktopRows, classroomRows>>

Create(key, hash, o) ==
    /\ o \notin DOMAIN operations
    /\ MemoryCreate(key, hash, o)
    /\ TablesCreate(key, hash, o)
    /\ call' = [name |-> "create", id |-> o]
    /\ UNCHANGED <<now, past>>
-----------------------------------------------------------------------------
(* SaveOperation of a copy: of operation o, with this version, to be stored *)
(* with this status and these items.                                        *)

MemorySave(o, version, status, items) ==
    \/ /\ o \notin DOMAIN operations
       /\ fromMemory' = Says("not found")
       /\ UNCHANGED memory
    \/ /\ o \in DOMAIN operations
       /\ operations[o].version # version
       /\ fromMemory' = Says("version conflict")
       /\ UNCHANGED memory
    \/ /\ o \in DOMAIN operations
       /\ operations[o].version = version
       /\ fromMemory' = Says("")
       /\ operations' = Put(operations, o, [status |-> status, version |-> version + 1,
                                            items |-> items])
       /\ operationLease' = IF Terminal(status) THEN Drop(operationLease, o)
                                                ELSE operationLease
       /\ UNCHANGED <<idempotency, classrooms>>

Updates(o, version) == o \in DOMAIN operationRows /\ operationRows[o].version = version

TablesSave(o, version, status, items) ==
    \/ /\ ~Updates(o, version)
       /\ fromTables' = Says("version conflict")
       /\ UNCHANGED tables
    \/ /\ Updates(o, version)
       /\ fromTables' = Says("")
       /\ operationRows' =
            [operationRows EXCEPT ![o] =
                [status |-> status, version |-> operationRows[o].version + 1,
                 owner |-> IF Terminal(status) THEN Nobody ELSE operationRows[o].owner,
                 until |-> IF Terminal(status) THEN 0 ELSE operationRows[o].until]]
       /\ itemRows' = [i \in DOMAIN itemRows |->
                            IF i \in ItemsOf(o) THEN items[i] ELSE itemRows[i]]
       /\ UNCHANGED <<keyRows, seatRows, desktopRows, classroomRows>>

Save(o, version, status, items) ==
    /\ MemorySave(o, version, status, items)
    /\ TablesSave(o, version, status, items)
    /\ call' = [name |-> "save", id |-> o]
    /\ UNCHANGED <<now, past>>
-----------------------------------------------------------------------------
(* ClaimNextOperation.  At the very instant a lease ends the memory takes   *)
(* it for ended (After) and PostgreSQL does not yet (<).                    *)

NotClaimed == TerminalStatuses \cup {"CANCEL_REQUESTED"}

MemoryClaimable(me) ==
    {o \in DOMAIN operations :
        /\ operations[o].status \notin NotClaimed
        /\ ~(/\ o \in DOMAIN operationLease
             /\ operationLease[o].until > now
             /\ operationLease[o].owner # me)}

TablesClaimable(me) ==
    {o \in DOMAIN operationRows :
        /\ operationRows[o].status \notin NotClaimed
        /\ \/ operationRows[o].owner = Nobody
           \/ operationRows[o].until < now
           \/ operationRows[o].owner = me}

IsOldest(o, candidates) == o \in candidates /\ \A p \in candidates : o <= p

MemoryClaim(me, duration) ==
    \/ /\ MemoryClaimable(me) = {}
       /\ fromMemory' = Says("")
       /\ UNCHANGED memory
    \/ \E o \in Ids :
        /\ IsOldest(o, MemoryClaimable(me))
        /\ fromMemory' = Gives(o, operations[o])
        /\ operationLease' = Put(operationLease, o, [owner |-> me, until |-> now + duration])
        /\ UNCHANGED <<operations, idempotency, classrooms>>

TablesClaim(me, duration) ==
    \/ /\ TablesClaimable(me) = {}
       /\ fromTables' = Says("")
       /\ UNCHANGED tables
    \/ \E o \in Ids :
        /\ IsOldest(o, TablesClaimable(me))
        /\ fromTables' = Gives(o, ReadRows(o))
        /\ operationRows' = [operationRows EXCEPT ![o] =
                [status |-> operationRows[o].status, version |-> operationRows[o].version,
                 owner |-> me, until |-> now + duration]]
        /\ UNCHANGED <<itemRows, keyRows, seatRows, desktopRows, classroomRows>>

\* The operation that the memory gives to me is somebody else's until now.
OnTie(me) ==
    \E o \in DOMAIN operationLease :
        /\ IsOldest(o, MemoryClaimable(me))
        /\ operationLease[o].until = now
        /\ operationLease[o].owner # me

Claim(me, duration) ==
    /\ MemoryClaim(me, duration)
    /\ TablesClaim(me, duration)
    /\ call' = [name |-> "claim", id |-> 0]
    /\ tied' = (tied \/ OnTie(me))
    /\ UNCHANGED <<now, prechecked>>
-----------------------------------------------------------------------------
(* RenewOperationLease.                                                     *)

MemoryRenew(o, me, duration) ==
    \/ /\ o \notin DOMAIN operations
       /\ fromMemory' = Says("not found")
       /\ UNCHANGED memory
    \/ /\ o \in DOMAIN operations
       /\ Terminal(operations[o].status)
       /\ fromMemory' = Says("")
       /\ UNCHANGED memory
    \/ /\ o \in DOMAIN operations
       /\ ~Terminal(operations[o].status)
       /\ ~(o \in DOMAIN operationLease /\ operationLease[o].owner = me)
       /\ fromMemory' = Says("version conflict")
       /\ UNCHANGED memory
    \/ /\ o \in DOMAIN operations
       /\ ~Terminal(operations[o].status)
       /\ o \in DOMAIN operationLease /\ operationLease[o].owner = me
       /\ fromMemory' = Says("")
       /\ operationLease' = Put(operationLease, o, [owner |-> me, until |-> now + duration])
       /\ UNCHANGED <<operations, idempotency, classrooms>>

Renews(o, me) ==
    /\ o \in DOMAIN operationRows
    /\ operationRows[o].owner = me
    /\ ~Terminal(operationRows[o].status)

TablesRenew(o, me, duration) ==
    \/ /\ ~Renews(o, me)
       /\ fromTables' = Says("version conflict")
       /\ UNCHANGED tables
    \/ /\ Renews(o, me)
       /\ fromTables' = Says("")
       /\ operationRows' = [operationRows EXCEPT ![o] =
                [status |-> operationRows[o].status, version |-> operationRows[o].version,
                 owner |-> operationRows[o].owner, until |-> now + duration]]
       /\ UNCHANGED <<itemRows, keyRows, seatRows, desktopRows, classroomRows>>

Renew(o, me, duration) ==
    /\ MemoryRenew(o, me, duration)
    /\ TablesRenew(o, me, duration)
    /\ call' = [name |-> "renew", id |-> o]
    /\ UNCHANGED <<now, past>>
-----------------------------------------------------------------------------
(* ApplyOperationItemResult.                                                *)

\* What a successful task makes of a desktop.
DesktopAfter(type, desktop) ==
    [power |-> CASE type \in {"START", "RESTORE"} -> "RUNNING"
                 [] type = "SHUTDOWN" -> "STOPPED"
                 [] OTHER -> desktop.power,
     agent |-> CASE type \in {"START", "RESTORE"} -> TRUE
                 [] type = "SHUTDOWN" -> FALSE
                 [] OTHER -> desktop.agent,
     reconciled |-> now]

\* The memory notes the time of any success, ...
MemoryDesktop(type, status, desktop) ==
    IF status = "SUCCEEDED" /\ desktop # NoDesktop THEN DesktopAfter(type, desktop)
                                                  ELSE desktop

\* ... PostgreSQL has no statement for that of a precheck.
TablesDesktop(type, status, desktop) ==
    IF status = "SUCCEEDED" /\ type # "PRECHECK" THEN DesktopAfter(type, desktop)
                                                 ELSE desktop

MemoryApply(c, s, type, status) ==
    \/ /\ c \notin Rooms \/ s \notin SeatsOf(c)
       /\ fromMemory' = Says("not found")
       /\ UNCHANGED memory
    \/ /\ c \in Rooms /\ s \in SeatsOf(c)
       /\ fromMemory' = Says("")
       /\ classrooms' =
            [classrooms EXCEPT ![c] =
                [version |-> classrooms[c].version + 1,
                 seats |-> [classrooms[c].seats EXCEPT ![s] =
                    [state |-> status,
                     desktop |-> MemoryDesktop(type, status,
                                               classrooms[c].seats[s].desktop)]]]]
       /\ UNCHANGED <<operations, idempotency, operationLease>>

TablesApply(c, s, type, status) ==
    \/ /\ ~(s \in Seats /\ RoomOf[s] = c)
       /\ fromTables' = Says("not found")
       /\ UNCHANGED tables
    \/ /\ s \in Seats /\ RoomOf[s] = c
       /\ fromTables' = Says("")
       /\ seatRows' = [seatRows EXCEPT ![s] = status]
       /\ desktopRows' = [d \in WithDesktop |->
                IF d = s THEN TablesDesktop(type, status, desktopRows[d]) ELSE desktopRows[d]]
       /\ classroomRows' = [classroomRows EXCEPT ![c] = classroomRows[c] + 1]
       /\ UNCHANGED <<operationRows, itemRows, keyRows>>

PrecheckedAfter(s, type, status) ==
    IF status # "SUCCEEDED" \/ s \notin WithDesktop THEN prechecked
    ELSE IF type = "PRECHECK" THEN prechecked \cup {s} ELSE prechecked \ {s}

Apply(c, s, type, status) ==
    /\ MemoryApply(c, s, type, status)
    /\ TablesApply(c, s, type, status)
    /\ call' = [name |-> "apply", id |-> 0]
    /\ prechecked' = IF RoomOf[s] = c THEN PrecheckedAfter(s, type, status) ELSE prechecked
    /\ UNCHANGED <<now, tied>>
-----------------------------------------------------------------------------
Tick ==
    /\ now' = now + 1
    /\ UNCHANGED <<memory, tables, said, past>>

\* (A desktop that was never reconciled has the time 0.)
Init ==
    /\ now = 1
    /\ operations = [o \in {} |-> 0] /\ operationRows = [o \in {} |-> 0]
    /\ itemRows = [i \in {} |-> 0]
    /\ idempotency = [k \in {} |-> 0] /\ keyRows = [k \in {} |-> 0]
    /\ operationLease = [o \in {} |-> 0]
    /\ seatRows = [s \in Seats |-> "SUCCEEDED"]
    /\ desktopRows \in [WithDesktop -> {desktop \in Desktops : desktop.reconciled <= now}]
    /\ classroomRows = [c \in Rooms |-> 1]
    /\ classrooms = [c \in Rooms |-> ReadRoom(c)]
    /\ call = [name |-> "none", id |-> 0]
    /\ fromMemory = Says("") /\ fromTables = Says("")
    /\ prechecked = {} /\ tied = FALSE

ItemRecord == [status : ItemStatuses, upid : Nat]

Next ==
    \/ \E o \in Ids : Get(o)
    \/ \E limit \in Nat : ListOperations(limit)
    \/ \E c \in Rooms : GetClassroom(c)
    \/ ListClassrooms
    \/ \E o \in Ids, key \in Keys, hash \in Hashes : Create(key, hash, o)
    \/ \E o \in Ids, version \in Nat, status \in OperationStatuses :
        \E items \in [ItemsOf(o) -> ItemRecord] : Save(o, version, status, items)
    \/ \E me \in Owners, duration \in Nat \ {0} :
        Claim(me, duration) \/ \E o \in Ids : Renew(o, me, duration)
    \/ \E c \in Rooms, s \in Seats, type \in OperationTypes, status \in ItemStatuses :
        Apply(c, s, type, status)
    \/ Tick

Spec == Init /\ [][Next]_vars
-----------------------------------------------------------------------------
\* The rows say what the memory has: every operation with its items and every key, ...
SameOperations ==
    /\ DOMAIN operations = DOMAIN operationRows
    /\ \A o \in DOMAIN operations : operations[o] = ReadRows(o)
    /\ DOMAIN itemRows = {i \in Items : OpOf[i] \in DOMAIN operations}

SameKeys ==
    /\ idempotency = keyRows
    /\ \A key \in DOMAIN idempotency : idempotency[key].op \in DOMAIN operations

\* ... every lease, as long as none was given away at the instant of its end, ...
SameLeases ==
    /\ DOMAIN operationLease \subseteq DOMAIN operations
    /\ \A o \in DOMAIN operations :
        IF o \in DOMAIN operationLease
        THEN /\ operationLease[o].owner \in Owners
             /\ operationLease[o].until \in Nat
             /\ operationRows[o].owner = operationLease[o].owner
             /\ operationRows[o].until = operationLease[o].until
        ELSE operationRows[o].owner = Nobody

\* ... and every classroom with its seats and desktops, but for the time of the last
\* successful task where that was a precheck: it is the later one in memory.
At(seat, time) ==
    [state |-> seat.state,
     desktop |-> [power |-> seat.desktop.power, agent |-> seat.desktop.agent,
                  reconciled |-> time]]

SeatsAlike(s, inMemory, inTables) ==
    IF s \in prechecked
    THEN /\ inMemory = At(inTables, inMemory.desktop.reconciled)
         /\ inTables.desktop.reconciled <= inMemory.desktop.reconciled
    ELSE inMemory = inTables

RoomsAlike(c, inMemory, inTables) ==
    /\ inMemory = [version |-> inTables.version, seats |-> inMemory.seats]
    /\ inMemory.seats = [s \in SeatsOf(c) |-> inMemory.seats[s]]
    /\ \A s \in SeatsOf(c) : SeatsAlike(s, inMemory.seats[s], inTables.seats[s])

SameSeats ==
    /\ DOMAIN seatRows = Seats
    /\ DOMAIN classroomRows = Rooms
    /\ classrooms = [c \in Rooms |-> classrooms[c]]
    /\ \A c \in Rooms : RoomsAlike(c, classrooms[c], ReadRoom(c))
    /\ \A s \in WithDesktop : desktopRows[s] \in Desktops /\ desktopRows[s].reconciled <= now

Same ==
    /\ now \in Nat /\ prechecked \subseteq WithDesktop
    /\ SameOperations /\ SameKeys /\ SameSeats
    /\ ~tied => SameLeases

\* The only differences:
\* an unknown operation is a version conflict for the statements that change a row, ...
UnknownOperation ==
    /\ call.name \in {"save", "renew"}
    /\ call.id \notin DOMAIN operations
    /\ fromMemory = Says("not found") /\ fromTables = Says("version conflict")

\* ... the lease of a finished operation can be renewed in memory alone, ...
FinishedOperation ==
    /\ call.name = "renew"
    /\ call.id \in DOMAIN operations /\ Terminal(operations[call.id].status)
    /\ fromMemory = Says("") /\ fromTables = Says("version conflict")

\* ... a desktop whose agent is said to be ready although it does not run makes its
\* seat a ready one in PostgreSQL alone, ...
ReadyWithoutRunning ==
    /\ call.name = "classrooms"
    /\ \E s \in WithDesktop : desktopRows[s].agent /\ desktopRows[s].power # "RUNNING"
    /\ \A c \in Rooms :
        LET inMemory == fromMemory.content[c]
            inTables == fromTables.content[c]
        IN  /\ inMemory.total = inTables.total
            /\ inMemory.online = inTables.online
            /\ inMemory.running = inTables.running

\* ... the time of a successful precheck is seen in memory alone, ...
PrecheckedSeat ==
    /\ call.name = "classroom"
    /\ \E s \in prechecked : RoomOf[s] = call.id
    /\ fromMemory = Shows(fromMemory.content) /\ fromTables = Shows(fromTables.content)
    /\ RoomsAlike(call.id, fromMemory.content, fromTables.content)

\* ... and once a lease was given away at the instant of its end, in memory alone,
\* nothing is said of who gets and keeps which lease.
AfterTie == tied /\ call.name \in {"claim", "renew"}

AnswersAgree ==
    \/ fromMemory = fromTables
    \/ UnknownOperation \/ FinishedOperation \/ ReadyWithoutRunning \/ PrecheckedSeat
    \/ AfterTie
=============================================================================
