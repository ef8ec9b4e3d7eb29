-------------------------- MODULE OperationCreation --------------------------
(***************************************************************************)
(* How an operation comes into being: the classroom page of the browser    *)
(* with its idempotency keys, the manager of server/internal/operations,   *)
(* and the transaction of PostgresRepository.CreateOperation, of which     *)
(* many run at once.                                                       *)
(*                                                                         *)
(* There is one classroom, one page and one other client of the API, which *)
(* uses a key of its own more than once.  Every call is a START; the       *)
(* intent of the page is the set of seats it has chosen, {} for the whole  *)
(* classroom.  An uncommitted insert is a call at "commit": PostgreSQL     *)
(* shows it to nobody, but lets nobody insert the same primary key.        *)
(***************************************************************************)
EXTENDS Naturals, Sequences, FiniteSets

CONSTANTS
    Calls,      \* POST requests, numbered in the order they are sent
    Keys,       \* idempotency keys, numbered in the order they are created
    Seats,      \* the seats of the classroom, numbered in the order of their ids
    Bodies,     \* what the other client may ask for: sequences of seats
    ClientKey,  \* the key the other client uses
    MaxFaults   \* bound: how many calls fail

ASSUME CreationAssumption ==
    /\ Calls \subseteq Nat \ {0}
    /\ Keys \subseteq Nat \ {0}
    /\ IsFiniteSet(Calls) /\ IsFiniteSet(Keys)
    /\ Seats \subseteq Nat /\ IsFiniteSet(Seats) /\ Seats # {}
    /\ Bodies \subseteq Seq(Nat)
    /\ ClientKey \in Keys
    /\ MaxFaults \in Nat

VARIABLES
    rows,    \* idempotency_keys, committed: hash and operation of every used key
    made,    \* operations, committed: the seats of its items
    call,    \* every request: what it asks, how far it is, what it was answered
    chosen,  \* selectedSeatIds of the page
    active,  \* OperationIdempotencyKeyManager.active
    stored,  \* its copy in sessionStorage, which survives a reload
    pending, \* the request the page waits for
    changed, \* whether the choice of seats was ever changed
    faults   \* how many calls have failed

database == <<rows, made>>
page == <<chosen, active, stored, pending, changed>>
vars == <<rows, made, call, chosen, active, stored, pending, changed, faults>>
-----------------------------------------------------------------------------
NoKey == 0
NoOp == 0
NoCall == 0
NoRow == [hash |-> {}, op |-> NoOp]
NoIntent == [intent |-> {}, key |-> NoKey]
NoAnswer == [kind |-> "none", op |-> NoOp]
Unsent == [at |-> "unsent", by |-> "page", key |-> NoKey, body |-> <<>>,
           answer |-> NoAnswer, told |-> FALSE]

SeatsOf(body) == {body[i] : i \in DOMAIN body}

\* targetSeatIds, which the page sends for a choice of seats: sorted.
TargetSeatIds(seats) ==
    {body \in [1 .. Cardinality(seats) -> seats] :
        \A i, j \in DOMAIN body : i < j => body[i] < body[j]}

\* Mutation: what the request asks for is not part of the hash.
Mut_HashIgnoresSeats(body) == {}

\* Manager.Create and hashRequest: order and repetition of seats do not count,
\* and a request for the whole classroom names no seat.
Hash(body) == SeatsOf(body)

\* selectSeats: the seats that get an item.
Targets(body) == IF SeatsOf(body) = {} THEN Seats ELSE SeatsOf(body)

Invalid(body) == ~(SeatsOf(body) \subseteq Seats)

IsNext(c) == call[c].at = "unsent" /\ \A d \in Calls : d < c => call[d].at # "unsent"

\* The request c leaves its sender.
Sent(c, by, key, body) ==
    call' = [call EXCEPT ![c] = [Unsent EXCEPT !.at = "lookup", !.by = by,
                                               !.key = key, !.body = body]]
-----------------------------------------------------------------------------
(* The page and its key manager.                                             *)

\* Mutation: the key of another intent is kept.
Mut_KeyKept(key, intent) == key

\* synchronize: the key of another intent is dropped.
Synchronized(key, intent) == IF key.intent = intent THEN key ELSE NoIntent

\* The state of the manager and, persist, its copy in the session storage.
Persist(key) == active' = key /\ stored' = key

\* toggleSeat and toggleAll, after which the effect of the page synchronizes.
Select ==
    /\ \E seats \in {Seats, {}} \cup {chosen \cup {s} : s \in Seats}
                                \cup {chosen \ {s} : s \in Seats} :
        /\ chosen' = seats
        /\ Persist(Synchronized(active, seats))
    /\ changed' = TRUE
    /\ UNCHANGED <<database, call, pending, faults>>

\* keyFor: the key of this intent, or else a new one.
Used(key) == key = ClientKey \/ \E c \in Calls : call[c].key = key
KeysFor(intent) ==
    LET kept == Synchronized(active, intent).key
    IN  IF kept # NoKey THEN {kept}
        ELSE {k \in Keys : ~Used(k) /\ \A j \in Keys : j < k => Used(j)}

\* startOperation; the button is disabled while a request is pending.
Start(c) ==
    /\ pending = NoCall
    /\ IsNext(c)
    /\ \E body \in TargetSeatIds(chosen), key \in KeysFor(chosen) :
        /\ Sent(c, "page", key, body)
        /\ Persist([intent |-> chosen, key |-> key])
    /\ pending' = c
    /\ UNCHANGED <<database, chosen, changed, faults>>

\* Mutation: the page keeps waiting after an answer that is an error.
Mut_StaysPending(c) ==
    /\ pending = c
    /\ call[c].answer # NoAnswer
    /\ call' = [call EXCEPT ![c].told = TRUE]
    /\ IF call[c].answer.op # NoOp
       THEN /\ pending' = NoCall
            /\ chosen' = {}
            /\ Persist(NoIntent)
       ELSE UNCHANGED <<pending, chosen, active, stored>>
    /\ UNCHANGED <<database, changed, faults>>

\* onSuccess acknowledges the key, clears the choice and then synchronizes;
\* onError leaves all that as it is.
Told(c) ==
    /\ pending = c
    /\ call[c].answer # NoAnswer
    /\ pending' = NoCall
    /\ call' = [call EXCEPT ![c].told = TRUE]
    /\ IF call[c].answer.op # NoOp
       THEN /\ chosen' = {}
            /\ Persist(IF active.intent = SeatsOf(call[c].body) THEN NoIntent
                       ELSE Synchronized(active, {}))
       ELSE UNCHANGED <<chosen, active, stored>>
    /\ UNCHANGED <<database, changed, faults>>

\* Mutation: a new key manager does not read the storage.
Mut_ReloadForgets ==
    /\ chosen' = {}
    /\ Persist(NoIntent)
    /\ pending' = NoCall
    /\ UNCHANGED <<database, call, changed, faults>>

\* The page is loaded again: no seat is chosen, and the key manager starts from
\* what is stored, which the first effect of the page synchronizes.
Reload ==
    /\ chosen' = {}
    /\ Persist(Synchronized(stored, {}))
    /\ pending' = NoCall
    /\ UNCHANGED <<database, call, changed, faults>>

\* The other client sends some body with its key.
ClientSends(c) ==
    /\ IsNext(c)
    /\ \E body \in Bodies : Sent(c, "client", ClientKey, body)
    /\ UNCHANGED <<database, page, faults>>
-----------------------------------------------------------------------------
(* Manager.Create and PostgresRepository.CreateOperation.                    *)

Answered(c, kind, op) ==
    call' = [call EXCEPT ![c].at = "done",
                         ![c].answer = [kind |-> kind, op |-> op]]

\* The answer for a key that is in the table.
AnsweredFrom(c, row) ==
    IF row.hash = Hash(call[c].body) THEN Answered(c, "existing", row.op)
                                     ELSE Answered(c, "conflict", NoOp)

\* A request the manager refuses never reaches the repository.
Refuse(c) ==
    /\ call[c].at = "lookup"
    /\ Invalid(call[c].body)
    /\ Answered(c, "invalid", NoOp)
    /\ UNCHANGED <<database, page, faults>>

\* The transaction looks the key up among the committed ones.
Lookup(c) ==
    LET row == rows[call[c].key]
    IN  /\ call[c].at = "lookup"
        /\ ~Invalid(call[c].body)
        /\ IF row = NoRow THEN call' = [call EXCEPT ![c].at = "insert"]
                          ELSE AnsweredFrom(c, row)
        /\ UNCHANGED <<database, page, faults>>

\* Nobody else holds an uncommitted row with this key.
Free(c) == \A d \in Calls \ {c} : ~(call[d].at = "commit" /\ call[d].key = call[c].key)

\* Mutation: the table has no primary key.
Mut_NoPrimaryKey(c) ==
    /\ call[c].at = "insert"
    /\ call' = [call EXCEPT ![c].at = "commit"]
    /\ UNCHANGED <<database, page, faults>>

\* It inserts the operation, its items and the key; the key waits for another
\* transaction that has inserted the same one, and violates the primary key when
\* that one has committed.
InsertKey(c) ==
    /\ call[c].at = "insert"
    /\ Free(c)
    /\ call' = [call EXCEPT ![c].at = IF rows[call[c].key] = NoRow THEN "commit"
                                                                   ELSE "race"]
    /\ UNCHANGED <<database, page, faults>>

\* The rows of c are committed.
Commits(c) ==
    /\ call[c].at = "commit"
    /\ rows' = [rows EXCEPT ![call[c].key] = [hash |-> Hash(call[c].body), op |-> c]]
    /\ made' = [made EXCEPT ![c] = Targets(call[c].body)]

Commit(c) ==
    /\ Commits(c)
    /\ Answered(c, "created", c)
    /\ UNCHANGED <<page, faults>>

\* resolveIdempotencyRace reads the row that was in the way.
ResolveRace(c) ==
    /\ call[c].at = "race"
    /\ rows[call[c].key] # NoRow
    /\ AnsweredFrom(c, rows[call[c].key])
    /\ UNCHANGED <<database, page, faults>>

\* Something fails before the commit: the transaction is rolled back.  The caller
\* gets an error status, or no answer when the process or the network is gone.
Fail(c) ==
    /\ call[c].at \in {"lookup", "insert", "commit", "race"}
    /\ faults < MaxFaults
    /\ faults' = faults + 1
    /\ Answered(c, "error", NoOp)
    /\ UNCHANGED <<database, page>>

\* The same after the commit, or when its own answer is lost.
FailLate(c) ==
    /\ Commits(c)
    /\ faults < MaxFaults
    /\ faults' = faults + 1
    /\ Answered(c, "error", NoOp)
    /\ UNCHANGED page
-----------------------------------------------------------------------------
Init ==
    /\ rows = [k \in Keys |-> NoRow]
    /\ made = [c \in Calls |-> {}]
    /\ call = [c \in Calls |-> Unsent]
    /\ chosen = {}
    /\ active = NoIntent
    /\ stored = NoIntent
    /\ pending = NoCall
    /\ changed = FALSE
    /\ faults = 0

Serve(c) == Refuse(c) \/ Lookup(c) \/ InsertKey(c) \/ Commit(c) \/ ResolveRace(c)

Next ==
    \/ Select
    \/ Reload
    \/ \E c \in Calls : \/ Start(c) \/ Told(c) \/ ClientSends(c)
                        \/ Serve(c) \/ Fail(c) \/ FailLate(c)

Spec == Init /\ [][Next]_vars
-----------------------------------------------------------------------------
Intents == [intent : SUBSET Seats, key : Keys \cup {NoKey}]
Answers == [kind : {"none", "created", "existing", "conflict", "invalid", "error"},
            op : Calls \cup {NoOp}]
Requests == [at : {"unsent", "lookup", "insert", "commit", "race", "done"},
             by : {"page", "client"}, key : Keys \cup {NoKey}, body : Seq(Nat),
             answer : Answers, told : BOOLEAN]

\* Every variable has its shape; the storage has what the manager has; the page
\* waits for a request of its own that it has not been told of.
TypeOK ==
    /\ rows \in [Keys -> [hash : SUBSET Seats, op : Calls \cup {NoOp}]]
    /\ made \in [Calls -> SUBSET Seats]
    /\ call \in [Calls -> Requests]
    /\ \A c \in Calls : call[c].key = NoKey <=> call[c].at = "unsent"
    /\ chosen \subseteq Seats
    /\ active \in Intents /\ stored = active
    /\ pending \in Calls \cup {NoCall}
    /\ pending # NoCall => call[pending].by = "page" /\ ~call[pending].told
    /\ changed \in BOOLEAN
    /\ faults \in Nat
-----------------------------------------------------------------------------
(* What callers rely on.                                                     *)

\* repository.go 24: the PostgreSQL repository has the idempotency of the memory
\* repository, whatever transactions run at once, fail or lose their answer.
Once == INSTANCE CreateOnce WITH
    Hashes <- SUBSET (Seats \cup UNION {SeatsOf(body) : body \in Bodies}),
    asked <- [c \in Calls |-> [key |-> call[c].key, hash |-> Hash(call[c].body)]],
    ops <- {c \in Calls : made[c] # {}},
    answer <- [c \in Calls |-> call[c].answer]
IsCreateOnce == Once!OnceSpec

\* Whoever is given an operation has got exactly the seats that were asked for,
\* and the operation is committed.
AnswerFits ==
    \A c \in Calls : LET op == call[c].answer.op IN
        op # NoOp => made[op] = Targets(call[c].body)

\* operationIdempotency.ts: the page never sends one key with two intents, however
\* it is used, reloaded and answered; so it is never told of a conflict.
PageHasNoConflict ==
    \A c \in Calls : call[c].by = "page" => call[c].answer.kind # "conflict"

\* Two operations for the same seats, the page having been told of no success
\* before it sent the second request.
Duplicates(c, d) ==
    /\ c < d
    /\ call[c].by = "page" /\ call[d].by = "page"
    /\ call[c].body = call[d].body
    /\ made[c] # {} /\ made[d] # {}
    /\ \A e \in Calls : c <= e /\ e < d /\ call[e].body = call[c].body
                      => ~(call[e].told /\ call[e].answer.op # NoOp)

\* A user who starts the whole classroom only never makes a second operation by
\* a reload, a repeated click or a lost answer.
WholeClassOnce == ~changed => ~\E c, d \in Calls : Duplicates(c, d)

\* ClassroomDetailPage.tsx 165: after an error "submitting the same scope again
\* reuses this idempotency key, so that no task is created twice".
SameScopeOnce == ~\E c, d \in Calls : call[c].told /\ Duplicates(c, d)
=============================================================================
