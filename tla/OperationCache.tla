---------------------------- MODULE OperationCache ----------------------------
(***************************************************************************)
(* The task centre in the browser: web/src/api/operationEvents.ts and      *)
(* queries.ts on top of EventStream.  The list of operations is cached;    *)
(* it is polled, and patched by the events of at most MaxStreams event     *)
(* sources, one for each of the newest operations that are not finished.   *)
(*                                                                         *)
(* The page is one thread: a frame, an answer and a React effect are steps *)
(* of their own.  There is one possible event source for each operation.   *)
(* TanStack Query, external: setQueryData does not disturb a request that  *)
(* is under way, invalidateQueries abandons it and asks again.             *)
(***************************************************************************)
EXTENDS EventStream

CONSTANT MaxStreams  \* MAX_ACTIVE_STREAMS

ASSUME CacheAssumption ==
    /\ MaxStreams \in Nat
    /\ Cardinality(Ops) \in Nat \ {0}
    /\ Ops = 1 .. Cardinality(Ops)   \* in the order in which they were created
    /\ Clients = Ops
    /\ \A o \in Ops : Watches[o] = o

VARIABLES
    cache,    \* the cached list: of each operation a view, or NoView
    fetch,    \* the request for the list that is under way
    target,   \* the operations the last effect chose
    sources   \* streamsRef: the operations with an event source

page == <<cache, fetch, target, sources>>
cacheVars == <<store, log, conn, reader, evictions, drops, restarts, faults,
               cache, fetch, target, sources>>
-----------------------------------------------------------------------------
NoList == [o \in Ops |-> NoView]

\* at: no request, the row or the items of operation op are read next, or the
\* answer is on its way.
NoFetch == [at |-> "none", op |-> 0, list |-> NoList]

\* The newest operation is read first.
NewFetch == [at |-> "row", op |-> Cardinality(Ops), list |-> NoList]

Active(list) == {o \in Ops : list[o] # NoView /\ ~Terminal(o, list[o])}

\* selectStreamOperationIds: the newest of those that are not finished.
Selected(list) ==
    {o \in Active(list) : Cardinality({p \in Active(list) : p > o}) < MaxStreams}
-----------------------------------------------------------------------------
(* The list.                                                                 *)

\* Mutation: once the list is there, only unfinished operations are polled for.
Mut_PollsWhileActive ==
    /\ fetch.at = "none"
    /\ cache = NoList \/ Active(cache) # {}
    /\ fetch' = NewFetch
    /\ UNCHANGED <<store, log, conn, reader, spent, cache, target, sources>>

\* The refetchInterval passes.
Poll ==
    /\ fetch.at = "none"
    /\ fetch' = NewFetch
    /\ UNCHANGED <<store, log, conn, reader, spent, cache, target, sources>>

\* ListOperations calls GetOperation for one operation after the other.
ListRow ==
    /\ fetch.at = "row"
    /\ fetch' = [fetch EXCEPT !.at = "items",
                              !.list[fetch.op].version = store[fetch.op].version]
    /\ UNCHANGED <<store, log, conn, reader, spent, cache, target, sources>>

ListItems ==
    /\ fetch.at = "items"
    /\ fetch' = [at |-> IF fetch.op = 1 THEN "answer" ELSE "row",
                 op |-> fetch.op - 1,
                 list |-> [fetch.list EXCEPT ![fetch.op].items = store[fetch.op].items]]
    /\ UNCHANGED <<store, log, conn, reader, spent, cache, target, sources>>

\* The answer replaces the list.
ListArrives ==
    /\ fetch.at = "answer"
    /\ cache' = fetch.list
    /\ fetch' = NoFetch
    /\ UNCHANGED <<store, log, conn, reader, spent, target, sources>>

\* The list remains, and is asked for again later.
ListFails ==
    /\ fetch.at # "none"
    /\ faults < MaxFaults
    /\ faults' = faults + 1
    /\ fetch' = NoFetch
    /\ UNCHANGED <<store, log, conn, reader, evictions, drops, restarts,
                   cache, target, sources>>
-----------------------------------------------------------------------------
(* The event sources.                                                        *)

\* The handlers and the numbers of these event sources: closed and forgotten.
Dismiss(closed) ==
    /\ conn' = [o \in Clients |-> IF o \in closed THEN Closed ELSE conn[o]]
    /\ reader' = [o \in Clients |-> IF o \in closed THEN [id |-> NoId, view |-> NoView]
                                                    ELSE reader[o]]

\* Mutation: chosen operations get an event source, others keep theirs.
Mut_SourcesStay ==
    /\ target # Selected(cache)
    /\ target' = Selected(cache)
    /\ sources' = sources \cup target'
    /\ UNCHANGED <<store, log, conn, reader, spent, cache, fetch>>

\* useOperationEventStreams: the effect runs when the choice is another one.
Effect ==
    /\ target # Selected(cache)
    /\ target' = Selected(cache)
    /\ sources' = target'
    /\ Dismiss(sources \ target')
    /\ UNCHANGED <<store, log, spent, cache, fetch>>

\* applyOperationEventToList skips what is older than the list; EventStream!Told is
\* patchOperation.
Applies(o, event) == cache[o] # NoView /\ event.view.version >= cache[o].version

\* Mutation: the list is left to the next poll.
Mut_NotRefetched == fetch

\* Mutation: the request that is under way is good enough.
Mut_FetchJoined == IF fetch.at = "none" THEN NewFetch ELSE fetch

\* invalidateQueries after the last event: whatever is under way is abandoned.
Refetched == NewFetch

\* The next frame of an event source, whose number is kept as lastSequence too.  A
\* terminal status ends it, although the items that changed with it are still to
\* come, and the list is asked for.
Hear(o) ==
    LET event == Head(conn[o].out)
        view == Told(cache[o], event)
    IN  /\ o \in sources
        /\ conn[o].out # <<>>
        /\ IF event.seq > reader[o].id /\ Applies(o, event)
           THEN /\ cache' = [cache EXCEPT ![o] = view]
                /\ IF Terminal(o, view)
                   THEN /\ sources' = sources \ {o}
                        /\ Dismiss({o})
                        /\ fetch' = Refetched
                   ELSE /\ conn' = [conn EXCEPT ![o].out = Tail(@)]
                        /\ reader' = [reader EXCEPT ![o].id = event.seq]
                        /\ UNCHANGED <<sources, fetch>>
           ELSE /\ conn' = [conn EXCEPT ![o].out = Tail(@)]
                /\ reader' = [reader EXCEPT ![o].id = event.seq]
                /\ UNCHANGED <<cache, sources, fetch>>
        /\ UNCHANGED <<store, log, spent, target>>
-----------------------------------------------------------------------------
(* The rest of the system goes on as in EventStream.                         *)

ServerSteps(o) ==
    /\ \/ Serve(o) \/ ReadFails(o) \/ Drop(o) \/ StreamEnds(o) \/ SaveOperation(o)
       \/ o \in sources /\ Connect(o)
    /\ UNCHANGED page

\* Handlers of other pages, which are not modelled, observe other operations; the
\* least recently used stream makes room for one of theirs.
OthersEvict ==
    /\ log # <<>>
    /\ evictions < MaxEvictions
    /\ evictions' = evictions + 1
    /\ log' = Tail(log)
    /\ UNCHANGED <<store, conn, reader, drops, restarts, faults, page>>

\* The request for the list ends with the process that was to answer it.
RestartApi ==
    /\ Restart
    /\ fetch' = NoFetch
    /\ UNCHANGED <<cache, target, sources>>

CacheInit ==
    /\ Init
    /\ cache = NoList
    /\ fetch = NoFetch
    /\ target = {}
    /\ sources = {}

List == Poll \/ ListRow \/ ListItems \/ ListArrives

CacheNext ==
    \/ List \/ ListFails \/ Effect \/ RestartApi \/ OthersEvict
    \/ \E o \in Ops : Hear(o) \/ ServerSteps(o)

\* The page is visible: it polls and React renders it.  Operations end.  Nothing is
\* assumed of the streams.
CacheFairness ==
    /\ WF_cacheVars(List) /\ WF_cacheVars(Effect)
    /\ \A o \in Ops : WF_cacheVars(SaveOperation(o) /\ UNCHANGED page)

CacheSpec == CacheInit /\ [][CacheNext]_cacheVars /\ CacheFairness
-----------------------------------------------------------------------------
\* Every variable has its values, at most MaxStreams event sources are open, and the
\* log of the server keeps its limits.
CacheTypeOK ==
    /\ cache \in [Ops -> Views]
    /\ fetch \in [at : {"none", "row", "items", "answer"}, op : Ops \cup {0},
                  list : [Ops -> Views]]
    /\ target \subseteq Ops
    /\ sources \subseteq Ops
    /\ Cardinality(sources) <= MaxStreams
    /\ \A o \in Ops : conn[o] # Closed => o \in sources
    /\ TypeOK

\* operation-events.md, line 9, and operationEvents.ts 229: across broken connections,
\* evicted streams and restarts of the API every frame is new to its event source, so
\* none has to be discarded, and an update comes right after the frame before it;
\* whoever missed one gets a snapshot.
FramesFollow ==
    [][\A o \in Ops : Hear(o) =>
        LET event == Head(conn[o].out)
        IN  /\ event.seq > reader[o].id
            /\ event.kind = "snapshot" \/ event.seq = reader[o].id + 1]_cacheVars

\* An operation shown as finished shows the final state of every item as soon as no
\* request for the list is under way, although the events of its last items are cut
\* off.  (A request that fails postpones this to the next poll.)
FinishedShowsAll ==
    faults = 0 /\ restarts = 0 =>
        \A o \in Ops : Terminal(o, cache[o]) /\ fetch.at = "none" => cache[o] = store[o]

\* Whenever the effects have run, each of the newest operations shown as unfinished
\* is followed by an event source: no late answer revives one whose source is gone.
ChosenAreFollowed == target = Selected(cache) => sources = target

\* operation-events.md, "Operation SSE": polling makes up for whatever happens to
\* the streams, restarted and evicting servers included; in the end the page shows
\* the results and has closed its streams.
EventuallyShown == <>[](cache = store /\ sources = {})
=============================================================================
