----------------------------- MODULE EventStream -----------------------------
(***************************************************************************)
(* The live view of an operation: the process-local event log of           *)
(* server/internal/operations/events.go and the Server-Sent-Events handler *)
(* of server/internal/httpapi/events.go, which polls the repository,       *)
(* compares each snapshot with the last one seen and sends the difference. *)
(*                                                                         *)
(* A view of an operation is its resource_version and, for each item, the  *)
(* version at which the item last changed; status, progress and time       *)
(* stamps change with these and are left out.  An event carries the view   *)
(* it was made from, of which a reader uses only what its kind conveys.    *)
(*                                                                         *)
(* The browser's EventSource is external: it remembers the id of the last  *)
(* event and sends it as Last-Event-ID when it connects again.             *)
(***************************************************************************)
EXTENDS Naturals, Sequences, FiniteSets

CONSTANTS
    Clients,        \* event sources
    Ops,            \* operations
    Items,          \* the items of an operation, numbered in itemOrder
    Watches,        \* the operation an event source is about
    Final,          \* the resource_version at which an operation is terminal
    HistoryLimit,   \* EventLog.historyLimit
    OperationLimit, \* EventLog.operationLimit
    MaxBacklog,     \* bound: a handler does not poll with more unread frames
    MaxEvictions,   \* bound: how many streams are evicted from the log
    MaxDrops,       \* bound: how many connections break
    MaxRestarts,    \* bound: how often the API process restarts
    MaxFaults,      \* bound: how many repository reads return an error
    MaxTroubles     \* bound: how many of the last three there are together

ASSUME StreamOpsAssumption ==
    /\ Watches \in [Clients -> Ops]
    /\ Final \in [Ops -> Nat \ {0}]
    /\ Items \subseteq Nat
    /\ IsFiniteSet(Items)
ASSUME StreamBoundsAssumption ==
    /\ HistoryLimit \in Nat \ {0}
    /\ OperationLimit \in Nat \ {0}
    /\ MaxBacklog \in Nat
    /\ MaxEvictions \in Nat
    /\ MaxDrops \in Nat
    /\ MaxRestarts \in Nat
    /\ MaxFaults \in Nat
    /\ MaxTroubles \in Nat

VARIABLES
    store,   \* the repository: the current view of every operation
    log,     \* EventLog.streams of the running process, least recently used first
    conn,    \* the handler of each event source and the frames it has written
    reader,  \* each event source: last event id, and the view the events told it
    evictions, drops, restarts, faults   \* how much of the four budgets is used

spent == <<evictions, drops, restarts, faults>>
vars == <<store, log, conn, reader, evictions, drops, restarts, faults>>

CanFail == drops + restarts + faults < MaxTroubles
-----------------------------------------------------------------------------
NoId == 0       \* no Last-Event-ID: the log numbers events from 1
NoItem == 0
NoView == [version |-> 0, items |-> [i \in Items |-> 0]]
FirstView == [version |-> 1, items |-> [i \in Items |-> 1]]
Closed == [at |-> "closed", started |-> FALSE, cursor |-> NoId,
           view |-> NoView, out |-> <<>>]

Terminal(o, view) == view.version = Final[o]

LastOf(seq) == seq[Len(seq)]
-----------------------------------------------------------------------------
(* EventLog.                                                                 *)

NewStream(o) == [op |-> o, next |-> 0, history |-> <<>>, last |-> NoView]

Known(o) == \E k \in DOMAIN log : log[k].op = o
PlaceOf(o) == CHOOSE k \in DOMAIN log : log[k].op = o
StreamOf(o) == log[PlaceOf(o)]

\* appendEventLocked keeps the newest historyLimit events.
Trimmed(history) ==
    IF Len(history) > HistoryLimit
    THEN SubSeq(history, Len(history) - HistoryLimit + 1, Len(history))
    ELSE history

\* appendEventLocked, for some events in a row.
Extended(stream, events) ==
    [stream EXCEPT !.next = LastOf(events).seq, !.history = Trimmed(@ \o events)]

Snapshot(stream, reset, seq) ==
    [seq |-> seq, kind |-> "snapshot", reset |-> reset, view |-> stream.last,
     item |-> NoItem]

\* Mutation: a reset snapshot does not jump past the id it answers.
Mut_NoMinimum(stream, reset, minimum) ==
    Extended(stream, <<Snapshot(stream, reset, stream.next + 1)>>)

\* appendSnapshotLocked: one event with every item, numbered at least minimum.
WithSnapshot(stream, reset, minimum) ==
    Extended(stream, <<Snapshot(stream, reset,
        IF minimum > stream.next + 1 THEN minimum ELSE stream.next + 1)>>)

Changed(last, view) == {i \in Items : view.items[i] # last.items[i]}

\* The k-th of the changed items, in itemOrder.
Nth(changed, k) ==
    CHOOSE i \in changed : Cardinality({j \in changed : j < i}) = k - 1

\* operation.updated, then one item.updated for each changed item.
Batch(stream, view) ==
    [k \in 1 .. Cardinality(Changed(stream.last, view)) + 1 |->
        [seq |-> stream.next + k, reset |-> FALSE, view |-> view,
         kind |-> IF k = 1 THEN "operation" ELSE "item",
         item |-> IF k = 1 THEN NoItem ELSE Nth(Changed(stream.last, view), k - 1)]]

\* Mutation: a snapshot with the version seen last is taken for unchanged.
Mut_SameVersion(stream, view) ==
    IF view.version = stream.last.version
    THEN [stream EXCEPT !.last = view]
    ELSE Extended([stream EXCEPT !.last = view], Batch(stream, view))

\* observeLocked on an initialized stream.  (No item is ever deleted, so the branch
\* for removed items is not reachable.)
Observed(stream, view) ==
    IF view = stream.last
    THEN stream
    ELSE Extended([stream EXCEPT !.last = view], Batch(stream, view))

\* Mutation: the oldest event's predecessor is not required.
Mut_GapUnnoticed(history, after) == after > LastOf(history).seq

\* The events after this id are no longer, or not yet, in the history.
Unreplayable(history, after) ==
    after < history[1].seq - 1 \/ after > LastOf(history).seq

\* EventsSince observes the view first: in the stream it has, or in a new one, which
\* starts with a snapshot.
Current(o, view) ==
    IF Known(o) THEN Observed(StreamOf(o), view)
    ELSE WithSnapshot([NewStream(o) EXCEPT !.last = view], FALSE, 0)

\* Then a snapshot is added for a reader without an id, unless the stream has just
\* begun with one, and for an id that cannot be replayed.
Asked(o, stream, after) ==
    CASE after = NoId /\ ~Known(o) -> stream
      [] after = NoId /\ Known(o) -> WithSnapshot(stream, FALSE, 0)
      [] after # NoId /\ ~Known(o) -> WithSnapshot(stream, TRUE, after + 1)
      [] after # NoId /\ Known(o) ->
            IF Unreplayable(stream.history, after)
            THEN WithSnapshot(stream, TRUE,
                    IF after >= LastOf(stream.history).seq THEN after + 1 ELSE 0)
            ELSE stream

\* How many events of the history are not newer than this id.
Seen(history, after) == Cardinality({k \in DOMAIN history : history[k].seq <= after})

\* The others; they are at the end of the history.
Newer(history, after) == SubSeq(history, Seen(history, after) + 1, Len(history))

\* What is returned: the snapshot that was added, or the events after the id.
EventsSince(asked, added, after) ==
    IF added \/ after = NoId THEN <<LastOf(asked.history)>>
                             ELSE Newer(asked.history, after)

\* A call for a stream that is not in a full log evicts the least recently used.
Evicts(o) == ~Known(o) /\ Len(log) >= OperationLimit

Without(seq, k) == SubSeq(seq, 1, k - 1) \o SubSeq(seq, k + 1, Len(seq))

\* The log after a call for this stream, now the most recently used.
LogWith(stream) ==
    Append(CASE Known(stream.op) -> Without(log, PlaceOf(stream.op))
             [] Evicts(stream.op) -> Tail(log)
             [] OTHER -> log, stream)
-----------------------------------------------------------------------------
(* The handler.                                                              *)

Connect(c) ==
    /\ conn[c].at = "closed"
    /\ conn' = [conn EXCEPT ![c] = [Closed EXCEPT !.at = "open",
                                                  !.cursor = reader[c].id]]
    /\ UNCHANGED <<store, log, reader, spent>>

\* GetOperation, at first or at a tick of the poll timer, reads the row ...
ReadRow(c) ==
    /\ conn[c].at = "open"
    /\ Len(conn[c].out) <= MaxBacklog
    /\ conn' = [conn EXCEPT ![c].at = "items",
                            ![c].view.version = store[Watches[c]].version]
    /\ UNCHANGED <<store, log, reader, spent>>

\* ... and then the items.
ReadItems(c) ==
    /\ conn[c].at = "items"
    /\ conn' = [conn EXCEPT ![c].at = "observe",
                            ![c].view.items = store[Watches[c]].items]
    /\ UNCHANGED <<store, log, reader, spent>>

\* Mutation: the error is ignored and what was read so far is observed.
Mut_ErrorIgnored(c) ==
    /\ conn[c].at \in {"open", "items"}
    /\ faults < MaxFaults /\ CanFail
    /\ faults' = faults + 1
    /\ conn' = [conn EXCEPT ![c].at = "observe"]
    /\ UNCHANGED <<store, log, reader, evictions, drops, restarts>>

\* A read that fails refuses a new connection for good (EventSource does not
\* retry an error status) and ends an established one.
ReadFails(c) ==
    /\ conn[c].at \in {"open", "items"}
    /\ faults < MaxFaults /\ CanFail
    /\ faults' = faults + 1
    /\ conn' = [conn EXCEPT ![c].at = IF conn[c].started THEN "failed" ELSE "refused"]
    /\ UNCHANGED <<store, log, reader, evictions, drops, restarts>>

\* Mutation: the handler keeps asking for the events after its first cursor.
Mut_CursorStays(c, events) == conn[c].cursor

\* writeOperationEvents moves the cursor to the last event written.
CursorAfter(c, events) ==
    IF events = <<>> THEN conn[c].cursor ELSE LastOf(events).seq

\* EventsSince under the log's mutex, the frames written, and the end of the
\* stream once the snapshot is terminal.
Publish(c) ==
    /\ conn[c].at = "observe"
    /\ \E stream \in {Current(Watches[c], conn[c].view)} :
       \E asked \in {Asked(Watches[c], stream, conn[c].cursor)} :
       \E events \in {EventsSince(asked, asked # stream, conn[c].cursor)} :
        /\ log' = LogWith(asked)
        /\ conn' = [conn EXCEPT
                ![c].at = IF Terminal(Watches[c], conn[c].view) THEN "ended" ELSE "open",
                ![c].started = TRUE,
                ![c].cursor = CursorAfter(c, events),
                ![c].out = @ \o events]
    /\ IF Evicts(Watches[c]) THEN evictions < MaxEvictions /\ evictions' = evictions + 1
                             ELSE UNCHANGED evictions
    /\ UNCHANGED <<store, reader, drops, restarts, faults>>
-----------------------------------------------------------------------------
(* Around the API process.                                                   *)

\* The worker saves the operation (OperationRunner!Commit) with any of its items
\* changed.
SaveOperation(o) ==
    /\ store[o].version < Final[o]
    /\ \E changed \in SUBSET Items :
        store' = [store EXCEPT ![o] =
                    [version |-> @.version + 1,
                     items |-> [i \in Items |-> IF i \in changed THEN @.version + 1
                                                ELSE @.items[i]]]]
    /\ UNCHANGED <<log, conn, reader, spent>>

\* What an event tells: a snapshot everything, the others one part each.
Told(view, event) ==
    [version |-> event.view.version,
     items |-> CASE event.kind = "snapshot" -> event.view.items
                 [] event.kind = "item" ->
                        [view.items EXCEPT ![event.item] = event.view.items[event.item]]
                 [] OTHER -> view.items]

\* The event source gets the next frame.
Receive(c) ==
    /\ conn[c].out # <<>>
    /\ reader' = [reader EXCEPT ![c] = [id |-> Head(conn[c].out).seq,
                                        view |-> Told(@.view, Head(conn[c].out))]]
    /\ conn' = [conn EXCEPT ![c].out = Tail(@)]
    /\ UNCHANGED <<store, log, spent>>

\* The event source has read to the end of a stream and will connect again.
StreamEnds(c) ==
    /\ conn[c].at \in {"ended", "failed"}
    /\ conn[c].out = <<>>
    /\ conn' = [conn EXCEPT ![c] = Closed]
    /\ UNCHANGED <<store, log, reader, spent>>

\* The connection breaks: the frames not yet received are lost.
Drop(c) ==
    /\ conn[c].at \notin {"closed", "refused"}
    /\ drops < MaxDrops /\ CanFail
    /\ drops' = drops + 1
    /\ conn' = [conn EXCEPT ![c] = Closed]
    /\ UNCHANGED <<store, log, reader, evictions, restarts, faults>>

\* The API process is replaced by a new one, with an empty event log.
Restart ==
    /\ restarts < MaxRestarts /\ CanFail
    /\ restarts' = restarts + 1
    /\ log' = <<>>
    /\ conn' = [c \in Clients |-> IF conn[c].at = "refused" THEN conn[c] ELSE Closed]
    /\ UNCHANGED <<store, reader, evictions, drops, faults>>
-----------------------------------------------------------------------------
Init ==
    /\ store = [o \in Ops |-> FirstView]
    /\ log = <<>>
    /\ conn = [c \in Clients |-> Closed]
    /\ reader = [c \in Clients |-> [id |-> NoId, view |-> NoView]]
    /\ evictions = 0 /\ drops = 0 /\ restarts = 0 /\ faults = 0

Serve(c) == ReadRow(c) \/ ReadItems(c) \/ Publish(c)
Browse(c) == Connect(c) \/ Receive(c) \/ StreamEnds(c)

Next ==
    \/ \E c \in Clients : Serve(c) \/ Browse(c) \/ ReadFails(c) \/ Drop(c)
    \/ \E o \in Ops : SaveOperation(o)
    \/ Restart

\* The poll timer of a handler keeps ticking, a browser reads its stream and
\* connects again, and (OperationRunner!EveryOperationEnds) operations end.
Fairness ==
    /\ \A c \in Clients : WF_vars(Serve(c)) /\ WF_vars(Receive(c))
                          /\ WF_vars(Connect(c) \/ StreamEnds(c))
    /\ \A o \in Ops : WF_vars(SaveOperation(o))

Spec == Init /\ [][Next]_vars /\ Fairness
-----------------------------------------------------------------------------
Views == [version : Nat, items : [Items -> Nat]]
Events == [seq : Nat, kind : {"snapshot", "operation", "item"},
           reset : BOOLEAN, view : Views, item : Items \cup {NoItem}]
Handlers == [at : {"closed", "open", "items", "observe", "ended", "failed",
                   "refused"},
             started : BOOLEAN, cursor : Nat, view : Views, out : Seq(Events)]

\* Every variable has the shape the code gives it, and the log keeps its limits.
TypeOK ==
    /\ store \in [Ops -> Views]
    /\ log \in Seq([op : Ops, next : Nat, history : Seq(Events), last : Views])
    /\ Len(log) <= OperationLimit
    /\ \A k \in DOMAIN log : Len(log[k].history) \in 1 .. HistoryLimit
    /\ conn \in [Clients -> Handlers]
    /\ reader \in [Clients -> [id : Nat, view : Views]]
    /\ evictions \in Nat /\ drops \in Nat /\ restarts \in Nat /\ faults \in Nat

(* In every environment.                                                     *)

\* operation-events.md, line 9: the sequence an event source sees only grows,
\* across reconnections, evicted streams and restarts.  The page relies on it:
\* operationEvents.ts 229 discards every other event.
SequencesIncrease ==
    [][\A c \in Clients : reader'[c] # reader[c] => reader'[c].id > reader[c].id]_vars

\* events.go 146-153: an update is only sent to a reader that has the id right
\* before it; whoever missed an event that left the history gets a snapshot.
NoGap ==
    [][\A c \in Clients : reader'[c] # reader[c] =>
        LET event == Head(conn[c].out)
        IN  event.kind = "snapshot" \/ event.seq = reader[c].id + 1]_vars

(* While one process keeps the stream of the operation.                      *)

Kept == restarts = 0 /\ evictions = 0

\* A reader that has every frame written to it has exactly the view its handler
\* read last, however many handlers share the stream, whatever order their
\* reads reach the log in, and wherever its earlier connections broke.
ReaderIsCurrent ==
    Kept => \A c \in Clients :
        conn[c].started /\ conn[c].at \in {"open", "ended"} /\ conn[c].out = <<>>
            => reader[c].view = conn[c].view

\* events.go 121-123: a stream that has ended has left its reader with the result
\* that is stored, wherever the id came from it connected with.
EndShowsFinal ==
    \A c \in Clients :
        conn[c].at = "ended" /\ conn[c].out = <<>>
            => reader[c].view = store[Watches[c]]

\* That is so for the ids of a stream that is still there: the row is read before the items,
\* so terminal means final, and whatever the reader missed is sent again.
EndIsFinal == Kept => EndShowsFinal

\* operation-events.md, line 17: every reader recovers the latest state, unless its
\* browser has given up because a connection was refused.
EventuallyFinal ==
    \A c \in Clients :
        <>[](\/ restarts > 0 \/ conn[c].at = "refused"
             \/ /\ reader[c].view = store[Watches[c]]
                /\ Terminal(Watches[c], reader[c].view))
=============================================================================
