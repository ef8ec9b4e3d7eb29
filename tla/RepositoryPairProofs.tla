------------------------- MODULE RepositoryPairProofs -------------------------
(***************************************************************************)
(* Proof that the two repositories of RepositoryPair have the same content *)
(* after any sequence of calls, and answer alike, but for the differences  *)
(* that Same and AnswersAgree name.  The induction over the calls is on    *)
(* Same; AnswersAgree follows from Same before the call, one kind of call  *)
(* at a time.                                                              *)
(***************************************************************************)
EXTENDS RepositoryPair, TLAPS

Sane == Ids \subseteq Nat /\ Nobody \notin Owners

LEMMA DropFacts ==
    ASSUME NEW f, NEW k
    PROVE  /\ DOMAIN Drop(f, k) = DOMAIN f \ {k}
           /\ \A x \in DOMAIN f : x # k => Drop(f, k)[x] = f[x]
BY DEF Drop

\* Both find the same operations, and the same operation among several.
LEMMA GetsAgree ==
    ASSUME SameOperations, NEW o PROVE MemoryGet(o) = TablesGet(o)
BY DEF SameOperations, MemoryGet, TablesGet

LEMMA OneOldest ==
    ASSUME Sane, NEW S, NEW o \in Ids, NEW p \in Ids, IsOldest(o, S), IsOldest(p, S)
    PROVE  o = p
<1>1. o \in Nat /\ p \in Nat
    BY DEF Sane
<1>2. o <= p /\ p <= o
    BY DEF IsOldest
<1> QED BY <1>1, <1>2
-----------------------------------------------------------------------------
\* Calls that change nothing, on either side.
LEMMA NothingChanges ==
    ASSUME Same, UNCHANGED <<now, memory, tables, past>> PROVE Same'
BY DEF Same, SameOperations, SameKeys, SameLeases, SameSeats, RoomsAlike, SeatsAlike, ReadRows,
       ReadRoom, memory, tables, past

\* The seats stay alike where nothing happens to them.
LEMMA SeatsUntouched ==
    ASSUME Same, now' >= now, now' \in Nat,
           UNCHANGED <<classrooms, seatRows, desktopRows, classroomRows, prechecked>>
    PROVE  SameSeats'
<1>1. \A s \in WithDesktop : desktopRows[s].reconciled \in Nat
    BY DEF Same, SameSeats, Desktops
<1>2. \A s \in WithDesktop : desktopRows'[s].reconciled <= now'
    BY <1>1 DEF Same, SameSeats
<1>3. \A c \in Rooms : RoomsAlike(c, classrooms[c], ReadRoom(c))'
    BY DEF Same, SameSeats, RoomsAlike, SeatsAlike, ReadRoom
<1> QED BY <1>2, <1>3 DEF Same, SameSeats

LEMMA GetAgrees ==
    ASSUME Same, NEW o \in Ids, Get(o) PROVE Same' /\ AnswersAgree'
<1>1. Same'
    BY NothingChanges DEF Get
<1>2. fromMemory' = fromTables'
    BY GetsAgree DEF Get, Same
<1> QED BY <1>1, <1>2 DEF AnswersAgree

LEMMA ListAgrees ==
    ASSUME Same, NEW limit, ListOperations(limit) PROVE Same' /\ AnswersAgree'
<1>1. Same'
    BY NothingChanges DEF ListOperations
<1>2. MemoryListOperations(limit) = TablesListOperations(limit)
    <2>1. DOMAIN operations = DOMAIN operationRows
        BY DEF Same, SameOperations
    <2>2. \A o \in Newest(DOMAIN operations, Page(limit)) : operations[o] = ReadRows(o)
        BY DEF Same, SameOperations, Newest
    <2> QED BY <2>1, <2>2 DEF MemoryListOperations, TablesListOperations
<1> QED BY <1>1, <1>2 DEF ListOperations, AnswersAgree

\* Rooms that are alike are the same if their seats are.
LEMMA SameRoom ==
    ASSUME NEW c \in Rooms, RoomsAlike(c, classrooms[c], ReadRoom(c)),
           \A s \in SeatsOf(c) : classrooms[c].seats[s] = ReadRoom(c).seats[s]
    PROVE  classrooms[c] = ReadRoom(c)
<1>1. classrooms[c].seats = ReadRoom(c).seats
    <2>1. classrooms[c].seats = [s \in SeatsOf(c) |-> classrooms[c].seats[s]]
        BY DEF RoomsAlike
    <2>2. ReadRoom(c).seats = [s \in SeatsOf(c) |-> ReadRoom(c).seats[s]]
        BY DEF ReadRoom
    <2> QED BY <2>1, <2>2
<1> QED BY <1>1 DEF RoomsAlike, ReadRoom

LEMMA GetClassroomAgrees ==
    ASSUME Same, NEW c \in Rooms, GetClassroom(c) PROVE Same' /\ AnswersAgree'
<1>1. Same'
    BY NothingChanges DEF GetClassroom
<1>2. /\ fromMemory' = Shows(classrooms[c]) /\ fromTables' = Shows(ReadRoom(c))
      /\ call'.name = "classroom" /\ call'.id = c
      /\ RoomsAlike(c, classrooms[c], ReadRoom(c))
      /\ UNCHANGED prechecked
    BY DEF GetClassroom, MemoryGetClassroom, TablesGetClassroom, Same, SameSeats, past
<1>3. CASE \E s \in prechecked : RoomOf[s] = c
    <2>1. /\ fromMemory' = Shows(fromMemory'.content)
          /\ fromTables' = Shows(fromTables'.content)
        BY <1>2 DEF Shows
    <2>2. RoomsAlike(call.id, fromMemory.content, fromTables.content)'
        BY <1>2 DEF Shows, RoomsAlike, SeatsAlike
    <2> QED BY <1>1, <1>2, <1>3, <2>1, <2>2 DEF AnswersAgree, PrecheckedSeat
<1>4. CASE ~ \E s \in prechecked : RoomOf[s] = c
    <2>1. \A s \in SeatsOf(c) : classrooms[c].seats[s] = ReadRoom(c).seats[s]
        BY <1>2, <1>4 DEF RoomsAlike, SeatsAlike, SeatsOf
    <2> QED BY <1>1, <1>2, <2>1, SameRoom DEF AnswersAgree
<1> QED BY <1>3, <1>4

\* The desktop of a seat, as it is kept in memory and as it is read from its row.
Kept(c, s) == classrooms[c].seats[s].desktop
Read(s) == IF s \in WithDesktop THEN desktopRows[s] ELSE NoDesktop

\* A seat and its desktop are the same in every respect but the time.
LEMMA SeatFacts ==
    ASSUME Same, NEW s \in Seats, NEW c \in Rooms, RoomOf[s] = c
    PROVE  /\ classrooms[c].seats[s] = [state |-> seatRows[s], desktop |-> Kept(c, s)]
           /\ Kept(c, s) = [power |-> Read(s).power, agent |-> Read(s).agent,
                            reconciled |-> Kept(c, s).reconciled]
           /\ s \notin prechecked => Kept(c, s) = Read(s)
           /\ s \in prechecked => Read(s).reconciled <= Kept(c, s).reconciled
<1>1. /\ SeatsAlike(s, classrooms[c].seats[s], ReadRoom(c).seats[s])
      /\ ReadRoom(c).seats[s] = [state |-> seatRows[s], desktop |-> Read(s)]
    BY DEF Same, SameSeats, RoomsAlike, ReadRoom, SeatsOf, Read
<1>2. Read(s) = [power |-> Read(s).power, agent |-> Read(s).agent,
                 reconciled |-> Read(s).reconciled]
    BY DEF Same, SameSeats, Desktops, NoDesktop, Read
<1>3. CASE s \in prechecked
    BY <1>1, <1>3 DEF SeatsAlike, At, Kept
<1>4. CASE s \notin prechecked
    BY <1>1, <1>2, <1>4 DEF SeatsAlike, Kept
<1> QED BY <1>3, <1>4

\* The two summaries of a classroom differ in the ready seats at most, and not even
\* there while no agent is ready in a desktop that does not run.
LEMMA ListClassroomsAgrees ==
    ASSUME Same, ListClassrooms PROVE Same' /\ AnswersAgree'
<1>1. Same' /\ UNCHANGED desktopRows
    BY NothingChanges DEF ListClassrooms, tables
<1>2. ASSUME NEW c \in Rooms, NEW s \in SeatsOf(c)
      PROVE  /\ classrooms[c].seats[s].state = seatRows[s]
             /\ classrooms[c].seats[s].desktop = Kept(c, s)
             /\ Kept(c, s).power = Read(s).power /\ Kept(c, s).agent = Read(s).agent
    <2>1. s \in Seats /\ RoomOf[s] = c
        BY DEF SeatsOf
    <2>2. /\ classrooms[c].seats[s] = [state |-> seatRows[s], desktop |-> Kept(c, s)]
          /\ Kept(c, s) = [power |-> Read(s).power, agent |-> Read(s).agent,
                           reconciled |-> Kept(c, s).reconciled]
        BY <2>1, SeatFacts
    <2> QED BY <2>2
<1> DEFINE RunIn(c) == {s \in SeatsOf(c) : classrooms[c].seats[s].desktop.power = "RUNNING"}
           RunBy(c) == {s \in SeatsOf(c) \cap WithDesktop : desktopRows[s].power = "RUNNING"}
<1>3. ASSUME NEW c \in Rooms PROVE RunIn(c) = RunBy(c)
    <2>1. ASSUME NEW s \in SeatsOf(c)
          PROVE  classrooms[c].seats[s].desktop.power = "RUNNING"
                 <=> s \in WithDesktop /\ desktopRows[s].power = "RUNNING"
        BY <1>2 DEF Read, NoDesktop
    <2> QED BY <2>1
<1> HIDE DEF RunIn, RunBy
<1>4. /\ fromMemory' = Shows([c \in Rooms |-> Summary(c, MemoryReady(c), RunIn(c))])
      /\ fromTables' = Shows([c \in Rooms |-> Summary(c, TablesReady(c), RunBy(c))])
      /\ call'.name = "classrooms"
    BY DEF ListClassrooms, MemoryListClassrooms, TablesListClassrooms, RunIn, RunBy,
           Same, SameSeats
<1>5. CASE \E s \in WithDesktop : desktopRows[s].agent /\ desktopRows[s].power # "RUNNING"
    <2>1. ASSUME NEW c \in Rooms
          PROVE  /\ fromMemory'.content[c].total = fromTables'.content[c].total
                 /\ fromMemory'.content[c].online = fromTables'.content[c].online
                 /\ fromMemory'.content[c].running = fromTables'.content[c].running
        BY <1>3, <1>4 DEF Shows, Summary
    <2> QED BY <1>1, <1>4, <1>5, <2>1 DEF AnswersAgree, ReadyWithoutRunning
<1>6. CASE \A s \in WithDesktop : desktopRows[s].agent => desktopRows[s].power = "RUNNING"
    <2>1. ASSUME NEW c \in Rooms PROVE MemoryReady(c) = TablesReady(c)
        <3>1. ASSUME NEW s \in SeatsOf(c)
              PROVE  s \in MemoryReady(c) <=> s \in TablesReady(c)
            BY <1>2, <1>6 DEF MemoryReady, TablesReady, Read, NoDesktop
        <3> QED BY <3>1 DEF MemoryReady, TablesReady
    <2>2. fromMemory' = fromTables'
        BY <1>3, <1>4, <2>1
    <2> QED BY <1>1, <2>2 DEF AnswersAgree
<1> QED BY <1>5, <1>6

LEMMA CreateAgrees ==
    ASSUME Same, NEW o \in Ids, NEW key, NEW hash, Create(key, hash, o)
    PROVE  Same' /\ AnswersAgree'
<1>0. SameOperations /\ idempotency = keyRows
    BY DEF Same, SameKeys
<1>1. CASE key \in DOMAIN idempotency
    <2>1. UNCHANGED <<now, memory, tables, past>>
        BY <1>0, <1>1 DEF Create, MemoryCreate, TablesCreate
    <2>2. idempotency[key].op \in DOMAIN operations
        BY <1>1 DEF Same, SameKeys
    <2> DEFINE p == idempotency[key].op
    <2>3. MemoryGet(p) = TablesGet(p) /\ MemoryGet(p) = Gives(p, operations[p])
        BY <1>0, <2>2, GetsAgree DEF MemoryGet
    <2>4. /\ fromMemory' = IF idempotency[key].hash # hash
                           THEN Says("used with a different request")
                           ELSE Gives(p, operations[p])
          /\ fromTables' = IF idempotency[key].hash # hash
                           THEN Says("used with a different request")
                           ELSE TablesGet(p)
        BY <1>0, <1>1 DEF Create, MemoryCreate, TablesCreate
    <2>5. fromMemory' = fromTables'
        BY <2>3, <2>4
    <2> QED BY <2>1, <2>5, NothingChanges DEF AnswersAgree
<1>2. CASE key \notin DOMAIN idempotency
    <2> DEFINE new == [status |-> "QUEUED", version |-> 1,
                       items |-> [i \in ItemsOf(o) |-> NewItem]]
               line == [status |-> "QUEUED", version |-> 1, owner |-> Nobody, until |-> 0]
    <2>1. /\ operations' = Put(operations, o, new)
          /\ idempotency' = Put(idempotency, key, [hash |-> hash, op |-> o])
          /\ fromMemory' = Gives(o, operations'[o])
          /\ UNCHANGED <<now, operationLease, classrooms, prechecked, tied>>
          /\ operationRows' = Put(operationRows, o, line)
          /\ itemRows' = [i \in DOMAIN itemRows \cup ItemsOf(o) |->
                            IF i \in ItemsOf(o) THEN NewItem ELSE itemRows[i]]
          /\ keyRows' = Put(keyRows, key, [hash |-> hash, op |-> o])
          /\ fromTables' = Gives(o, new)
          /\ UNCHANGED <<seatRows, desktopRows, classroomRows>>
          /\ o \notin DOMAIN operations
        BY <1>0, <1>2 DEF Create, MemoryCreate, TablesCreate, past
    <2>2. /\ new.status = line.status /\ new.version = line.version
          /\ line.owner = Nobody
          /\ new = [status |-> line.status, version |-> line.version,
                    items |-> [i \in ItemsOf(o) |-> NewItem]]
        OBVIOUS
    <2> HIDE DEF new, line
    <2>3. /\ DOMAIN operations' = DOMAIN operations \cup {o}
          /\ operations'[o] = new
          /\ \A p \in DOMAIN operations : operations'[p] = operations[p]
          /\ DOMAIN operationRows' = DOMAIN operations \cup {o}
          /\ operationRows'[o] = line
          /\ \A p \in DOMAIN operations : operationRows'[p] = operationRows[p]
        BY <1>0, <2>1 DEF SameOperations, Put
    <2>4. /\ DOMAIN itemRows' = {i \in Items : OpOf[i] \in DOMAIN operations'}
          /\ \A i \in ItemsOf(o) : itemRows'[i] = NewItem
          /\ \A p \in DOMAIN operations : \A i \in ItemsOf(p) : itemRows'[i] = itemRows[i]
        BY <1>0, <2>1, <2>3 DEF SameOperations, ItemsOf
    <2>5. SameOperations'
        <3>1. operations'[o] = ReadRows(o)'
            BY <2>2, <2>3, <2>4 DEF ReadRows
        <3>2. ASSUME NEW p \in DOMAIN operations PROVE operations'[p] = ReadRows(p)'
            BY <1>0, <2>3, <2>4 DEF ReadRows, SameOperations
        <3> QED BY <2>3, <2>4, <3>1, <3>2 DEF SameOperations
    <2>6. SameKeys'
        <3>1. \A k \in DOMAIN idempotency : k # key /\ idempotency'[k] = idempotency[k]
            BY <1>2, <2>1 DEF Put
        <3>2. DOMAIN idempotency' = DOMAIN idempotency \cup {key}
              /\ idempotency'[key].op = o
            BY <2>1 DEF Put
        <3> QED BY <1>0, <2>1, <2>3, <3>1, <3>2 DEF Same, SameKeys
    <2>7. SameLeases => SameLeases'
        BY <1>0, <2>1, <2>2, <2>3 DEF SameLeases
    <2>8. SameSeats'
        BY <2>1, SeatsUntouched DEF Same
    <2>9. fromMemory' = fromTables'
        BY <2>1, <2>3
    <2> QED BY <2>1, <2>5, <2>6, <2>7, <2>8, <2>9 DEF Same, AnswersAgree
<1> QED BY <1>1, <1>2
-----------------------------------------------------------------------------
LEMMA SaveAgrees ==
    ASSUME Same, NEW o \in Ids, NEW version, NEW status,
           NEW its, its = [i \in ItemsOf(o) |-> its[i]],
           Save(o, version, status, its)
    PROVE  Same' /\ AnswersAgree'
<1>0. SameOperations /\ UNCHANGED <<now, prechecked, tied>>
    BY DEF Same, Save, past
<1>1. \A p \in DOMAIN operations : /\ operations[p].version = operationRows[p].version
                                   /\ operations[p].status = operationRows[p].status
    BY <1>0 DEF SameOperations, ReadRows
<1>2. CASE ~Updates(o, version)
    <2>1. o \notin DOMAIN operations \/ operations[o].version # version
        BY <1>0, <1>1, <1>2 DEF Updates, SameOperations
    <2>2. UNCHANGED <<now, memory, tables, past>> /\ fromTables' = Says("version conflict")
        BY <1>0, <1>2, <2>1 DEF Save, MemorySave, TablesSave, past
    <2>3. \/ o \notin DOMAIN operations /\ fromMemory' = Says("not found")
          \/ fromMemory' = Says("version conflict")
        BY <2>1 DEF Save, MemorySave
    <2>4. call'.name = "save" /\ call'.id = o /\ DOMAIN operations' = DOMAIN operations
        BY <2>2 DEF Save, memory
    <2> QED BY <2>2, <2>3, <2>4, NothingChanges DEF AnswersAgree, UnknownOperation
<1>3. CASE Updates(o, version)
    <2> DEFINE new == [status |-> status, version |-> version + 1, items |-> its]
               line == [status |-> status, version |-> operationRows[o].version + 1,
                        owner |-> IF Terminal(status) THEN Nobody ELSE operationRows[o].owner,
                        until |-> IF Terminal(status) THEN 0 ELSE operationRows[o].until]
    <2>1. o \in DOMAIN operations /\ operations[o].version = version
          /\ operationRows[o].version = version
        BY <1>0, <1>1, <1>3 DEF Updates, SameOperations
    <2>2. /\ operations' = Put(operations, o, new)
          /\ operationLease' = IF Terminal(status) THEN Drop(operationLease, o)
                                                   ELSE operationLease
          /\ UNCHANGED <<idempotency, classrooms>>
          /\ fromMemory' = Says("")
        BY <2>1 DEF Save, MemorySave
    <2>3. /\ operationRows' = [operationRows EXCEPT ![o] = line]
          /\ itemRows' = [i \in DOMAIN itemRows |->
                            IF i \in ItemsOf(o) THEN its[i] ELSE itemRows[i]]
          /\ UNCHANGED <<keyRows, seatRows, desktopRows, classroomRows>>
          /\ fromTables' = Says("")
        BY <1>3 DEF Save, TablesSave
    <2>4. /\ new = [status |-> line.status, version |-> line.version, items |-> its]
          /\ line.owner = IF Terminal(status) THEN Nobody ELSE operationRows[o].owner
          /\ line.until = IF Terminal(status) THEN 0 ELSE operationRows[o].until
        BY <2>1
    <2> HIDE DEF new, line
    <2>5. /\ DOMAIN operations' = DOMAIN operations /\ operations'[o] = new
          /\ \A p \in DOMAIN operations : p # o => operations'[p] = operations[p]
          /\ DOMAIN operationRows' = DOMAIN operations /\ operationRows'[o] = line
          /\ \A p \in DOMAIN operations : p # o => operationRows'[p] = operationRows[p]
        BY <1>0, <2>1, <2>2, <2>3 DEF SameOperations, Put
    <2>6. /\ DOMAIN itemRows' = {i \in Items : OpOf[i] \in DOMAIN operations'}
          /\ \A i \in ItemsOf(o) : itemRows'[i] = its[i]
          /\ \A p \in DOMAIN operations : p # o =>
                \A i \in ItemsOf(p) : itemRows'[i] = itemRows[i]
        BY <1>0, <2>1, <2>3, <2>5 DEF SameOperations, ItemsOf
    <2>7. SameOperations'
        <3>1. operations'[o] = ReadRows(o)'
            BY <2>4, <2>5, <2>6 DEF ReadRows
        <3>2. ASSUME NEW p \in DOMAIN operations, p # o PROVE operations'[p] = ReadRows(p)'
            BY <1>0, <2>5, <2>6, <3>2 DEF ReadRows, SameOperations
        <3> QED BY <2>5, <2>6, <3>1, <3>2 DEF SameOperations
    <2>8. SameKeys'
        BY <2>2, <2>3, <2>5 DEF Same, SameKeys
    <2>9. SameLeases => SameLeases'
        <3>1. CASE Terminal(status)
            <4>1. /\ DOMAIN operationLease' = DOMAIN operationLease \ {o}
                  /\ \A p \in DOMAIN operationLease :
                        p # o => operationLease'[p] = operationLease[p]
                BY <2>2, <3>1, DropFacts
            <4> QED BY <1>0, <2>4, <2>5, <3>1, <4>1 DEF SameLeases
        <3>2. CASE ~Terminal(status)
            BY <1>0, <2>1, <2>2, <2>4, <2>5, <3>2 DEF SameLeases
        <3> QED BY <3>1, <3>2
    <2>10. SameSeats'
        <3>1. now' \in Nat /\ now' >= now
            BY <1>0 DEF Same
        <3> QED BY <1>0, <2>2, <2>3, <3>1, SeatsUntouched
    <2> QED BY <1>0, <2>2, <2>3, <2>7, <2>8, <2>9, <2>10 DEF Same, AnswersAgree
<1> QED BY <1>2, <1>3
-----------------------------------------------------------------------------
\* A lease given or renewed by a statement changes nothing but leases.
LEMMA LeaseWritten ==
    ASSUME Same, NEW o, NEW me, NEW until,
           operationRows' = [operationRows EXCEPT ![o] =
                [status |-> operationRows[o].status, version |-> operationRows[o].version,
                 owner |-> me, until |-> until]],
           UNCHANGED <<operations, itemRows>>
    PROVE  SameOperations'
<1>1. /\ DOMAIN operationRows' = DOMAIN operationRows
      /\ \A p \in DOMAIN operationRows : /\ operationRows'[p].status = operationRows[p].status
                                         /\ operationRows'[p].version = operationRows[p].version
    OBVIOUS
<1>2. \A p \in DOMAIN operations : ReadRows(p)' = ReadRows(p)
    BY <1>1 DEF ReadRows, Same, SameOperations
<1> QED BY <1>1, <1>2 DEF Same, SameOperations

\* A lease given or renewed on both sides.
LEMMA LeaseGiven ==
    ASSUME SameOperations, SameLeases, NEW o \in DOMAIN operations,
           NEW me \in Owners, NEW until \in Nat,
           operationLease' = Put(operationLease, o, [owner |-> me, until |-> until]),
           operationRows' = [operationRows EXCEPT ![o] =
                [status |-> operationRows[o].status, version |-> operationRows[o].version,
                 owner |-> me, until |-> until]],
           UNCHANGED operations
    PROVE  SameLeases'
<1>1. /\ DOMAIN operationLease' = DOMAIN operationLease \cup {o}
      /\ operationLease'[o].owner = me /\ operationLease'[o].until = until
      /\ \A p \in DOMAIN operationLease : p # o => operationLease'[p] = operationLease[p]
    BY DEF Put
<1>2. /\ DOMAIN operationRows' = DOMAIN operationRows
      /\ operationRows'[o].owner = me /\ operationRows'[o].until = until
      /\ \A p \in DOMAIN operationRows : p # o => operationRows'[p] = operationRows[p]
    BY DEF SameOperations
<1> QED BY <1>1, <1>2 DEF SameOperations, SameLeases

\* What a claim does to the rows, whatever it answers.
LEMMA ClaimWrites ==
    ASSUME Same, NEW me, NEW duration, Claim(me, duration)
    PROVE  /\ SameOperations' /\ SameKeys' /\ SameSeats'
           /\ UNCHANGED <<now, operations, prechecked>>
<1>1. UNCHANGED <<now, operations, idempotency, classrooms, itemRows, keyRows, seatRows,
                  desktopRows, classroomRows, prechecked>>
    BY DEF Claim, MemoryClaim, TablesClaim, memory, tables
<1>2. CASE UNCHANGED operationRows
    <2>1. SameOperations'
        BY <1>1, <1>2 DEF Same, SameOperations, ReadRows
    <2> QED BY <1>1, <2>1, SeatsUntouched DEF Same, SameKeys
<1>3. CASE \E p \in Ids : operationRows' = [operationRows EXCEPT ![p] =
                [status |-> operationRows[p].status, version |-> operationRows[p].version,
                 owner |-> me, until |-> now + duration]]
    <2>1. SameOperations'
        BY <1>1, <1>3, LeaseWritten
    <2> QED BY <1>1, <2>1, SeatsUntouched DEF Same, SameKeys
<1> QED BY <1>2, <1>3 DEF Claim, TablesClaim, tables

\* Without a tie both find the same operation: what a statement may claim the memory
\* may give away as well, and it is only a lease ending now that makes a difference.
LEMMA SameCandidate ==
    ASSUME Sane, Same, SameLeases, NEW me \in Owners, ~OnTie(me)
    PROVE  /\ TablesClaimable(me) \subseteq MemoryClaimable(me)
           /\ \A o \in Ids :
                IsOldest(o, MemoryClaimable(me)) => IsOldest(o, TablesClaimable(me))
<1>0. SameOperations /\ now \in Nat
    BY DEF Same
<1>1. \A o \in DOMAIN operations : operations[o].status = operationRows[o].status
    BY <1>0 DEF SameOperations, ReadRows
<1>2. TablesClaimable(me) \subseteq MemoryClaimable(me)
    BY <1>0, <1>1 DEF TablesClaimable, MemoryClaimable, SameOperations, SameLeases, Sane
<1>3. ASSUME NEW o \in Ids, IsOldest(o, MemoryClaimable(me))
      PROVE  IsOldest(o, TablesClaimable(me))
    <2>1. o \in DOMAIN operations /\ operations[o].status \notin NotClaimed
        BY <1>3 DEF IsOldest, MemoryClaimable
    <2>2. \/ operationRows[o].owner = Nobody
          \/ operationRows[o].until < now
          \/ operationRows[o].owner = me
        <3>1. CASE o \in DOMAIN operationLease
            <4>1. /\ operationLease[o].until \in Nat
                  /\ operationRows[o].until = operationLease[o].until
                  /\ operationRows[o].owner = operationLease[o].owner
                BY <2>1, <3>1 DEF SameLeases
            <4>2. operationLease[o].until > now => operationLease[o].owner = me
                BY <1>3, <3>1 DEF IsOldest, MemoryClaimable
            <4>3. operationLease[o].until = now => operationLease[o].owner = me
                BY <1>3, <3>1 DEF OnTie
            <4> QED BY <1>0, <4>1, <4>2, <4>3
        <3>2. CASE o \notin DOMAIN operationLease
            BY <2>1, <3>2 DEF SameLeases
        <3> QED BY <3>1, <3>2
    <2>3. o \in TablesClaimable(me)
        BY <1>0, <1>1, <2>1, <2>2 DEF TablesClaimable, SameOperations
    <2> QED BY <1>2, <1>3, <2>3 DEF IsOldest
<1> QED BY <1>2, <1>3

LEMMA ClaimAgrees ==
    ASSUME Sane, Same, NEW me \in Owners, NEW duration \in Nat, Claim(me, duration)
    PROVE  Same' /\ AnswersAgree'
<1>0. /\ SameOperations' /\ SameKeys' /\ SameSeats'
      /\ UNCHANGED <<now, operations, prechecked>>
    BY ClaimWrites
<1>1. CASE tied'
    BY <1>0, <1>1 DEF Same, Claim, AnswersAgree, AfterTie
<1>2. CASE ~tied'
    <2>0. ~OnTie(me) /\ SameLeases /\ SameOperations /\ now \in Nat
        BY <1>2 DEF Claim, Same
    <2>1. CASE MemoryClaimable(me) = {}
        <3>1. TablesClaimable(me) = {}
            BY <2>0, <2>1, SameCandidate
        <3>2. /\ UNCHANGED <<memory, tables>>
              /\ fromMemory' = Says("") /\ fromTables' = Says("")
            BY <2>1, <3>1 DEF Claim, MemoryClaim, TablesClaim, IsOldest
        <3>3. SameLeases'
            BY <2>0, <3>2 DEF SameLeases, memory, tables
        <3> QED BY <1>0, <2>0, <3>2, <3>3 DEF Same, AnswersAgree
    <2>2. CASE MemoryClaimable(me) # {}
        <3>1. PICK o \in Ids :
                /\ IsOldest(o, MemoryClaimable(me))
                /\ fromMemory' = Gives(o, operations[o])
                /\ operationLease' =
                        Put(operationLease, o, [owner |-> me, until |-> now + duration])
            BY <2>2 DEF Claim, MemoryClaim
        <3>2. TablesClaimable(me) # {} /\ IsOldest(o, TablesClaimable(me))
            BY <2>0, <3>1, SameCandidate DEF IsOldest
        <3>3. PICK p \in Ids :
                /\ IsOldest(p, TablesClaimable(me))
                /\ fromTables' = Gives(p, ReadRows(p))
                /\ operationRows' = [operationRows EXCEPT ![p] =
                    [status |-> operationRows[p].status, version |-> operationRows[p].version,
                     owner |-> me, until |-> now + duration]]
            BY <3>2 DEF Claim, TablesClaim
        <3>4. o = p
            BY <3>2, <3>3, OneOldest
        <3>5. o \in DOMAIN operations /\ now + duration \in Nat
            BY <2>0, <3>1 DEF IsOldest, MemoryClaimable
        <3>6. SameLeases'
            <4> DEFINE until == now + duration
            <4>1. /\ until \in Nat
                  /\ operationLease' = Put(operationLease, o, [owner |-> me, until |-> until])
                  /\ operationRows' = [operationRows EXCEPT ![o] =
                        [status |-> operationRows[o].status,
                         version |-> operationRows[o].version,
                         owner |-> me, until |-> until]]
                BY <3>1, <3>3, <3>4, <3>5
            <4> HIDE DEF until
            <4> QED BY <1>0, <2>0, <3>5, <4>1, LeaseGiven
        <3>7. fromMemory' = fromTables'
            BY <2>0, <3>1, <3>3, <3>4, <3>5 DEF SameOperations
        <3> QED BY <1>0, <2>0, <3>6, <3>7 DEF Same, AnswersAgree
    <2> QED BY <2>1, <2>2
<1> QED BY <1>1, <1>2

\* What a renewal does to the rows, whatever it answers.
LEMMA RenewWrites ==
    ASSUME Same, NEW o, NEW me, NEW duration, Renew(o, me, duration)
    PROVE  /\ SameOperations' /\ SameKeys' /\ SameSeats'
           /\ UNCHANGED <<now, operations, prechecked, tied>>
<1>1. UNCHANGED <<now, operations, idempotency, classrooms, itemRows, keyRows, seatRows,
                  desktopRows, classroomRows, prechecked, tied>>
    BY DEF Renew, MemoryRenew, TablesRenew, memory, tables, past
<1>2. CASE UNCHANGED operationRows
    <2>1. SameOperations'
        BY <1>1, <1>2 DEF Same, SameOperations, ReadRows
    <2> QED BY <1>1, <2>1, SeatsUntouched DEF Same, SameKeys
<1>3. CASE operationRows' = [operationRows EXCEPT ![o] =
                [status |-> operationRows[o].status, version |-> operationRows[o].version,
                 owner |-> operationRows[o].owner, until |-> now + duration]]
    <2>1. SameOperations'
        BY <1>1, <1>3, LeaseWritten
    <2> QED BY <1>1, <2>1, SeatsUntouched DEF Same, SameKeys
<1> QED BY <1>2, <1>3 DEF Renew, TablesRenew, tables

LEMMA RenewAgrees ==
    ASSUME Sane, Same, NEW o \in Ids, NEW me \in Owners, NEW duration \in Nat,
           Renew(o, me, duration)
    PROVE  Same' /\ AnswersAgree'
<1>0. /\ SameOperations' /\ SameKeys' /\ SameSeats'
      /\ UNCHANGED <<now, operations, prechecked, tied>>
      /\ call'.name = "renew" /\ call'.id = o
    BY RenewWrites DEF Renew
<1>1. CASE tied
    BY <1>0, <1>1 DEF Same, AnswersAgree, AfterTie
<1>2. CASE ~tied
    <2>0. SameLeases /\ SameOperations /\ now \in Nat
        BY <1>2 DEF Same
    <2>1. \A p \in DOMAIN operations : operations[p].status = operationRows[p].status
        BY <2>0 DEF SameOperations, ReadRows
    <2>2. CASE ~Renews(o, me)
        <3>1. ~(/\ o \in DOMAIN operations /\ ~Terminal(operations[o].status)
                /\ o \in DOMAIN operationLease /\ operationLease[o].owner = me)
            BY <2>0, <2>1, <2>2 DEF Renews, SameOperations, SameLeases
        <3>2. UNCHANGED <<memory, tables>> /\ fromTables' = Says("version conflict")
            BY <2>2, <3>1 DEF Renew, MemoryRenew, TablesRenew
        <3>3. \/ o \notin DOMAIN operations /\ fromMemory' = Says("not found")
              \/ /\ o \in DOMAIN operations /\ Terminal(operations[o].status)
                 /\ fromMemory' = Says("")
              \/ fromMemory' = Says("version conflict")
            BY <3>1 DEF Renew, MemoryRenew
        <3>4. SameLeases'
            BY <2>0, <3>2 DEF SameLeases, memory, tables
        <3>5. AnswersAgree'
            BY <1>0, <3>2, <3>3 DEF AnswersAgree, UnknownOperation, FinishedOperation
        <3> QED BY <1>0, <2>0, <3>4, <3>5 DEF Same
    <2>3. CASE Renews(o, me)
        <3>1. /\ o \in DOMAIN operations /\ ~Terminal(operations[o].status)
              /\ o \in DOMAIN operationLease /\ operationLease[o].owner = me
            BY <2>0, <2>1, <2>3 DEF Renews, SameOperations, SameLeases, Sane
        <3>2. /\ operationLease' =
                    Put(operationLease, o, [owner |-> me, until |-> now + duration])
              /\ fromMemory' = Says("")
            BY <3>1 DEF Renew, MemoryRenew
        <3>3. /\ operationRows' = [operationRows EXCEPT ![o] =
                    [status |-> operationRows[o].status, version |-> operationRows[o].version,
                     owner |-> me, until |-> now + duration]]
              /\ fromTables' = Says("")
            BY <2>3 DEF Renew, TablesRenew, Renews
        <3>4. SameLeases'
            <4> DEFINE until == now + duration
            <4>0. now + duration \in Nat
                BY <2>0
            <4>1. /\ until \in Nat
                  /\ operationLease' = Put(operationLease, o, [owner |-> me, until |-> until])
                  /\ operationRows' = [operationRows EXCEPT ![o] =
                        [status |-> operationRows[o].status,
                         version |-> operationRows[o].version,
                         owner |-> me, until |-> until]]
                BY <3>2, <3>3, <4>0
            <4> HIDE DEF until
            <4> QED BY <1>0, <2>0, <3>1, <4>1, LeaseGiven
        <3> QED BY <1>0, <2>0, <3>2, <3>3, <3>4 DEF Same, AnswersAgree
    <2> QED BY <2>2, <2>3
<1> QED BY <1>1, <1>2
-----------------------------------------------------------------------------
\* What a result leaves of a desktop in memory and in its row.
KeptAfter(type, status, c, s) == MemoryDesktop(type, status, Kept(c, s))
ReadAfter(type, status, s) ==
    IF s \in WithDesktop THEN TablesDesktop(type, status, Read(s)) ELSE NoDesktop

\* They are alike, and the same unless the result was that of a precheck.
LEMMA DesktopApplied ==
    ASSUME Same, NEW s \in Seats, NEW c \in Rooms, RoomOf[s] = c,
           NEW type \in OperationTypes, NEW status
    PROVE  LET after == KeptAfter(type, status, c, s)
               row == ReadAfter(type, status, s)
           IN  /\ s \in WithDesktop => row \in Desktops /\ row.reconciled <= now
               /\ IF s \in PrecheckedAfter(s, type, status)
                  THEN /\ after = [power |-> row.power, agent |-> row.agent,
                                   reconciled |-> after.reconciled]
                       /\ row.reconciled <= after.reconciled
                  ELSE after = row
<1> DEFINE after == KeptAfter(type, status, c, s)
           row == ReadAfter(type, status, s)
<1>0. /\ now \in Nat /\ (s \in prechecked => s \in WithDesktop)
      /\ s \in WithDesktop => Read(s) \in Desktops /\ Read(s).reconciled <= now
    BY DEF Same, SameSeats, Read
<1>00. /\ Kept(c, s) = [power |-> Read(s).power, agent |-> Read(s).agent,
                        reconciled |-> Kept(c, s).reconciled]
       /\ s \notin prechecked => Kept(c, s) = Read(s)
       /\ s \in prechecked => Read(s).reconciled <= Kept(c, s).reconciled
    BY SeatFacts
<1>1. CASE s \notin WithDesktop
    BY <1>0, <1>00, <1>1 DEF KeptAfter, ReadAfter, MemoryDesktop, PrecheckedAfter, Read
<1>2. CASE s \in WithDesktop /\ status # "SUCCEEDED"
    BY <1>0, <1>00, <1>2 DEF KeptAfter, ReadAfter, MemoryDesktop, TablesDesktop, PrecheckedAfter
<1>3. CASE s \in WithDesktop /\ status = "SUCCEEDED"
    <2>1. Kept(c, s) # NoDesktop
        BY <1>0, <1>00, <1>3 DEF Desktops, NoDesktop
    <2>2. after = DesktopAfter(type, Kept(c, s))
        BY <1>3, <2>1 DEF KeptAfter, MemoryDesktop
    <2>3. CASE type = "PRECHECK"
        <3>1. after = [power |-> Read(s).power, agent |-> Read(s).agent, reconciled |-> now]
            BY <1>00, <2>2, <2>3 DEF DesktopAfter
        <3>2. row = Read(s)
            BY <1>3, <2>3 DEF ReadAfter, TablesDesktop
        <3>3. s \in PrecheckedAfter(s, type, status)
            BY <1>3, <2>3 DEF PrecheckedAfter
        <3> HIDE DEF after, row
        <3> QED BY <1>0, <1>3, <3>1, <3>2, <3>3 DEF after, row
    <2>4. CASE type # "PRECHECK"
        <3>1. row = DesktopAfter(type, Read(s))
            BY <1>3, <2>4 DEF ReadAfter, TablesDesktop
        <3>2. s \notin PrecheckedAfter(s, type, status)
            BY <1>3, <2>4 DEF PrecheckedAfter
        <3>3. type \in {"START", "RESTORE", "SHUTDOWN"}
            BY <2>4 DEF OperationTypes
        <3>4. DesktopAfter(type, Kept(c, s)) = DesktopAfter(type, Read(s))
            BY <3>3 DEF DesktopAfter
        <3>5. /\ DesktopAfter(type, Read(s)) \in Desktops
              /\ DesktopAfter(type, Read(s)).reconciled = now
            BY <1>0, <3>3 DEF DesktopAfter, Desktops
        <3> QED BY <1>0, <2>2, <3>1, <3>2, <3>4, <3>5
    <2> QED BY <2>3, <2>4
<1> QED BY <1>1, <1>2, <1>3

LEMMA ApplyAgrees ==
    ASSUME Same, NEW c \in Rooms, NEW s \in Seats, NEW type \in OperationTypes, NEW status,
           Apply(c, s, type, status)
    PROVE  Same' /\ AnswersAgree'
<1>1. CASE RoomOf[s] # c
    <2>1. /\ UNCHANGED <<now, memory, tables, past>>
          /\ fromMemory' = Says("not found") /\ fromTables' = Says("not found")
        BY <1>1 DEF Apply, MemoryApply, TablesApply, SeatsOf, past
    <2> QED BY <2>1, NothingChanges DEF AnswersAgree
<1>2. CASE RoomOf[s] = c
    <2> DEFINE after == KeptAfter(type, status, c, s)
               rowAfter == ReadAfter(type, status, s)
               seen == [state |-> status, desktop |-> after]
               seats == [classrooms[c].seats EXCEPT ![s] = seen]
    <2>1. /\ classrooms' = [classrooms EXCEPT ![c] =
                [version |-> classrooms[c].version + 1, seats |-> seats]]
          /\ fromMemory' = Says("")
          /\ UNCHANGED <<now, tied, operations, idempotency, operationLease>>
          /\ prechecked' = PrecheckedAfter(s, type, status)
        BY <1>2 DEF Apply, MemoryApply, SeatsOf, KeptAfter, Kept
    <2>2. /\ seatRows' = [seatRows EXCEPT ![s] = status]
          /\ desktopRows' = [d \in WithDesktop |->
                IF d = s THEN rowAfter ELSE desktopRows[d]]
          /\ classroomRows' = [classroomRows EXCEPT ![c] = classroomRows[c] + 1]
          /\ fromTables' = Says("")
          /\ UNCHANGED <<operationRows, itemRows, keyRows>>
        BY <1>2 DEF Apply, TablesApply, ReadAfter, Read
    <2>3. /\ s \in WithDesktop => rowAfter \in Desktops /\ rowAfter.reconciled <= now
          /\ IF s \in prechecked'
             THEN /\ after = [power |-> rowAfter.power, agent |-> rowAfter.agent,
                              reconciled |-> after.reconciled]
                  /\ rowAfter.reconciled <= after.reconciled
             ELSE after = rowAfter
        <3>1. /\ s \in WithDesktop => rowAfter \in Desktops /\ rowAfter.reconciled <= now
              /\ IF s \in PrecheckedAfter(s, type, status)
                 THEN /\ after = [power |-> rowAfter.power, agent |-> rowAfter.agent,
                                  reconciled |-> after.reconciled]
                      /\ rowAfter.reconciled <= after.reconciled
                 ELSE after = rowAfter
            BY <1>2, DesktopApplied
        <3> QED BY <2>1, <3>1
    <2>4. /\ \A d \in WithDesktop : d # s => desktopRows'[d] = desktopRows[d]
          /\ s \in WithDesktop => desktopRows'[s] = rowAfter
          /\ \A r \in Seats : r # s => seatRows'[r] = seatRows[r]
          /\ seatRows'[s] = status
          /\ \A d \in Rooms : d # c => /\ classroomRows'[d] = classroomRows[d]
                                        /\ classrooms'[d] = classrooms[d]
          /\ classroomRows'[c] = classroomRows[c] + 1
          /\ classrooms'[c] = [version |-> classrooms[c].version + 1, seats |-> seats]
          /\ \A r \in Seats : r # s => (r \in prechecked' <=> r \in prechecked)
        BY <2>1, <2>2 DEF Same, SameSeats, PrecheckedAfter
    <2>5. rowAfter = IF s \in WithDesktop THEN desktopRows'[s] ELSE NoDesktop
        BY <2>4 DEF ReadAfter
    <2> DEFINE Row(r) == [state |-> seatRows[r],
                          desktop |-> IF r \in WithDesktop THEN desktopRows[r] ELSE NoDesktop]
    <2>6. \A d \in Rooms : /\ ReadRoom(d) = [version |-> classroomRows[d],
                                            seats |-> [r \in SeatsOf(d) |-> Row(r)]]
                           /\ ReadRoom(d)' = [version |-> classroomRows'[d],
                                             seats |-> [r \in SeatsOf(d) |-> Row(r)']]
        BY DEF ReadRoom
    <2>7. Row(s)' = [state |-> status, desktop |-> rowAfter]
        BY <2>4, <2>5
    <2>8. \A r \in Seats : r # s => Row(r)' = Row(r)
        BY <2>4
    <2>9. classrooms'[c].seats[s] = seen
        <3>1. s \in SeatsOf(c) /\ RoomsAlike(c, classrooms[c], ReadRoom(c))
            BY <1>2 DEF SeatsOf, Same, SameSeats
        <3> QED BY <2>4, <3>1 DEF RoomsAlike
    <2>10. SeatsAlike(s, classrooms[c].seats[s], ReadRoom(c).seats[s])'
        <3>1. s \in SeatsOf(c)
            BY <1>2 DEF SeatsOf
        <3>2. ReadRoom(c)'.seats[s] = [state |-> status, desktop |-> rowAfter]
            BY <2>6, <2>7, <3>1
        <3> QED BY <2>3, <2>9, <3>2 DEF SeatsAlike, At
    <2> HIDE DEF Row, seen, after, rowAfter
    <2>11. ASSUME NEW d \in Rooms PROVE RoomsAlike(d, classrooms[d], ReadRoom(d))'
        <3>0. /\ RoomsAlike(d, classrooms[d], ReadRoom(d))
              /\ \A r \in SeatsOf(d) : r \in Seats
            BY DEF Same, SameSeats, SeatsOf
        <3>1. ASSUME NEW r \in SeatsOf(d), r # s
              PROVE  SeatsAlike(r, classrooms[d].seats[r], ReadRoom(d).seats[r])'
            <4>1. classrooms'[d].seats[r] = classrooms[d].seats[r]
                <5>1. CASE d = c
                    BY <2>4, <3>0, <3>1, <5>1 DEF RoomsAlike
                <5>2. CASE d # c
                    BY <2>4, <5>2
                <5> QED BY <5>1, <5>2
            <4>2. ReadRoom(d)'.seats[r] = ReadRoom(d).seats[r]
                BY <2>6, <2>8, <3>0, <3>1
            <4>3. r \in prechecked' <=> r \in prechecked
                BY <2>4, <3>0, <3>1
            <4> QED BY <3>0, <4>1, <4>2, <4>3 DEF RoomsAlike, SeatsAlike
        <3>2. CASE d = c
            <4>1. seats = [r \in SeatsOf(c) |-> seats[r]]
                BY <3>0, <3>2 DEF RoomsAlike
            <4>2. classrooms'[c] = [version |-> ReadRoom(c)'.version, seats |-> seats]
                BY <2>4, <2>6, <3>0, <3>2 DEF RoomsAlike
            <4> QED BY <2>10, <3>1, <3>2, <4>1, <4>2 DEF RoomsAlike
        <3>3. CASE d # c
            <4>1. s \notin SeatsOf(d)
                BY <1>2, <3>3 DEF SeatsOf
            <4>2. ReadRoom(d)'.version = ReadRoom(d).version
                BY <2>4, <2>6, <3>3
            <4> QED BY <2>4, <3>0, <3>1, <3>3, <4>1, <4>2 DEF RoomsAlike
        <3> QED BY <3>2, <3>3
    <2>12. ASSUME NEW d \in WithDesktop
           PROVE  desktopRows'[d] \in Desktops /\ desktopRows'[d].reconciled <= now'
        BY <2>1, <2>3, <2>4 DEF Same, SameSeats
    <2>13. /\ DOMAIN seatRows' = Seats /\ DOMAIN classroomRows' = Rooms
           /\ classrooms' = [d \in Rooms |-> classrooms'[d]]
        BY <2>1, <2>2 DEF Same, SameSeats
    <2>14. SameSeats'
        BY <2>11, <2>12, <2>13 DEF SameSeats
    <2>15. SameOperations' /\ SameKeys' /\ (SameLeases => SameLeases')
        BY <2>1, <2>2 DEF Same, SameOperations, SameKeys, SameLeases, ReadRows
    <2>16. now' \in Nat /\ prechecked' \subseteq WithDesktop
        BY <2>1 DEF Same, PrecheckedAfter
    <2> QED BY <2>1, <2>2, <2>14, <2>15, <2>16 DEF Same, AnswersAgree
<1> QED BY <1>1, <1>2

LEMMA InitSame == ASSUME Init PROVE Same /\ AnswersAgree
<1>1. SameOperations
    BY DEF Init, SameOperations
<1>1a. SameKeys
    BY DEF Init, SameKeys
<1>1b. SameLeases
    BY DEF Init, SameLeases
<1>2. SameSeats
    <2>1. \A s \in WithDesktop :
            desktopRows[s] \in Desktops /\ desktopRows[s].reconciled <= now
        BY DEF Init
    <2>2. \A c \in Rooms : classrooms[c] = ReadRoom(c) /\ prechecked = {}
        BY DEF Init
    <2>3. \A c \in Rooms : RoomsAlike(c, ReadRoom(c), ReadRoom(c))
        BY <2>2 DEF RoomsAlike, SeatsAlike, ReadRoom
    <2> QED BY <2>1, <2>2, <2>3 DEF Init, SameSeats
<1> QED BY <1>1, <1>1a, <1>1b, <1>2 DEF Same, AnswersAgree, Init

LEMMA StepAgrees ==
    ASSUME Sane, Same, [Next]_vars, AnswersAgree PROVE Same' /\ AnswersAgree'
<1>1. ASSUME NEW o \in Ids, Get(o) PROVE Same' /\ AnswersAgree'
    BY <1>1, GetAgrees
<1>1a. ASSUME NEW limit \in Nat, ListOperations(limit) PROVE Same' /\ AnswersAgree'
    BY <1>1a, ListAgrees
<1>1b. ASSUME NEW c \in Rooms, GetClassroom(c) PROVE Same' /\ AnswersAgree'
    BY <1>1b, GetClassroomAgrees
<1>1c. ASSUME ListClassrooms PROVE Same' /\ AnswersAgree'
    BY <1>1c, ListClassroomsAgrees
<1>2. ASSUME NEW o \in Ids, NEW key \in Keys, NEW hash \in Hashes, Create(key, hash, o)
      PROVE  Same' /\ AnswersAgree'
    BY <1>2, CreateAgrees
<1>3. ASSUME NEW o \in Ids, NEW version \in Nat, NEW status \in OperationStatuses,
             NEW its \in [ItemsOf(o) -> ItemRecord], Save(o, version, status, its)
      PROVE  Same' /\ AnswersAgree'
    BY <1>3, SaveAgrees
<1>4. ASSUME NEW me \in Owners, NEW duration \in Nat \ {0},
             Claim(me, duration) \/ \E o \in Ids : Renew(o, me, duration)
      PROVE  Same' /\ AnswersAgree'
    BY <1>4, ClaimAgrees, RenewAgrees
<1>5. ASSUME NEW c \in Rooms, NEW s \in Seats, NEW type \in OperationTypes,
             NEW status \in ItemStatuses, Apply(c, s, type, status)
      PROVE  Same' /\ AnswersAgree'
    BY <1>5, ApplyAgrees
<1>6. ASSUME Tick PROVE Same' /\ AnswersAgree'
    <2>1. now' \in Nat /\ now' >= now
        BY <1>6 DEF Tick, Same
    <2>2. SameSeats'
        BY <1>6, <2>1, SeatsUntouched DEF Tick, memory, tables, past
    <2>3. SameOperations' /\ SameKeys' /\ (SameLeases => SameLeases')
        BY <1>6 DEF Tick, Same, SameOperations, SameKeys, SameLeases, ReadRows, memory, tables
    <2>4. AnswersAgree'
        BY <1>6 DEF Tick, memory, tables, said, past, AnswersAgree, UnknownOperation,
                    FinishedOperation, ReadyWithoutRunning, PrecheckedSeat, AfterTie,
                    RoomsAlike, SeatsAlike
    <2> QED BY <1>6, <2>1, <2>2, <2>3, <2>4 DEF Tick, Same, past
<1>7. ASSUME UNCHANGED vars PROVE Same' /\ AnswersAgree'
    <2>1. Same'
        BY <1>7, NothingChanges DEF vars
    <2>2. AnswersAgree'
        BY <1>7 DEF vars, memory, tables, said, past, AnswersAgree, UnknownOperation,
                    FinishedOperation, ReadyWithoutRunning, PrecheckedSeat, AfterTie,
                    RoomsAlike, SeatsAlike
    <2> QED BY <2>1, <2>2
<1> QED BY <1>1, <1>1a, <1>1b, <1>1c, <1>2, <1>3, <1>4, <1>5, <1>6, <1>7 DEF Next
-----------------------------------------------------------------------------
LEMMA AlwaysAgree ==
    ASSUME Ids \subseteq Nat, Nobody \notin Owners PROVE Spec => [](Same /\ AnswersAgree)
<1>1. Sane
    BY DEF Sane
<1>2. Same /\ AnswersAgree /\ [Next]_vars => (Same /\ AnswersAgree)'
    BY <1>1, StepAgrees
<1>3. Init => Same /\ AnswersAgree
    BY InitSame
<1> QED BY <1>2, <1>3, PTL DEF Spec

\* After any sequence of calls the tables of PostgreSQL hold what the memory
\* repository holds: operations with their items and versions, keys, classrooms, seats
\* and desktops, where the time of the last success may be a later one in memory if
\* that was a precheck (memory.go 256, postgres.go 563-574); and, unless the memory
\* gave away a lease at the instant of its end (memory.go 191, postgres.go 511), every
\* lease.
THEOREM SameContents ==
    ASSUME Ids \subseteq Nat, Nobody \notin Owners PROVE Spec => []Same
<1>1. Same /\ AnswersAgree => Same
    OBVIOUS
<1> QED BY <1>1, AlwaysAgree, PTL

\* And no call tells the two apart, except one for an unknown operation (memory.go 164
\* and 213, postgres.go 475 and 542), the renewal of the lease of a finished one
\* (memory.go 216, postgres.go 536), the list of classrooms when the agent of a stopped
\* desktop is said to be ready (postgres.go 55), a classroom whose seats show the time
\* of a precheck, and claims and renewals once a lease was given away on a tie.
THEOREM SameAnswers ==
    ASSUME Ids \subseteq Nat, Nobody \notin Owners PROVE Spec => []AnswersAgree
<1>1. Same /\ AnswersAgree => AnswersAgree
    OBVIOUS
<1> QED BY <1>1, AlwaysAgree, PTL
=============================================================================
