---------------------------- MODULE LiveViewProofs ----------------------------
(***************************************************************************)
(* Theorems about EventStream and OperationCache: what the event log and   *)
(* its handlers promise to a reader, and what the page makes of it, for    *)
(* any number of readers, operations, items and streams.                   *)
(*                                                                         *)
(* The invariants come first, then what an operation on the log and on one *)
(* connection does to each of them, then the steps and the theorems.       *)
(* Those about EventStream rest on the assumptions of that module only.    *)
(***************************************************************************)
EXTENDS OperationCache, SequenceTheorems, FiniteSetTheorems, TLAPS
-----------------------------------------------------------------------------
(* Sequence numbers, in every environment.                                   *)

Streams == [op : Ops, next : Nat, history : Seq(Events), last : Views]

\* An event may follow the id: it is newer, and an update is the next one.
Follows(event, id) ==
    event.seq > id /\ (event.kind = "snapshot" \/ event.seq = id + 1)

\* The numbers of a history grow, and only a snapshot leaves a gap before it.
Ordered(history) ==
    \A j, k \in DOMAIN history : j < k => history[j].seq < history[k].seq
Linked(history) ==
    \A k \in DOMAIN history : k > 1 => Follows(history[k], history[k - 1].seq)

\* The stream's last number is that of its last event.
Numbered(stream) ==
    /\ Ordered(stream.history) /\ Linked(stream.history)
    /\ stream.next = IF stream.history = <<>> THEN 0 ELSE LastOf(stream.history).seq
    /\ stream.history # <<>> => stream.history[1].seq > 0

LogInv ==
    /\ \A k \in DOMAIN log : Numbered(log[k])
    /\ \A j, k \in DOMAIN log : log[j].op = log[k].op => j = k

\* The id of a reader that had this one and got k of the frames written to it.
IdAfter(handler, id, k) == IF k = 0 THEN id ELSE handler.out[k].seq

\* The frames that wait continue what the reader has, and the cursor of the handler
\* is where they end.
Continued(handler, id) ==
    /\ \A k \in DOMAIN handler.out :
            Follows(handler.out[k], IdAfter(handler, id, k - 1))
    /\ handler.at \in {"open", "items", "observe"} =>
            handler.cursor = IdAfter(handler, id, Len(handler.out))
    /\ handler.at = "closed" => handler.out = <<>>

FramesInv == \A c \in Clients : Continued(conn[c], reader[c].id)

StreamInv == TypeOK /\ LogInv /\ FramesInv
-----------------------------------------------------------------------------
(* What the frames tell, while the stream of an operation is kept.           *)

Tells(event, i) == event.kind = "snapshot" \/ (event.kind = "item" /\ event.item = i)

\* Whoever has this view and gets these frames has the aim in the end: the last
\* frame that tells of an item tells what the aim has.
Brings(view, frames, aim) ==
    /\ aim.version = IF frames = <<>> THEN view.version
                                      ELSE LastOf(frames).view.version
    /\ \A i \in Items :
        /\ \A k \in DOMAIN frames :
            /\ Tells(frames[k], i)
            /\ \A l \in DOMAIN frames : l > k => ~Tells(frames[l], i)
            => aim.items[i] = frames[k].view.items[i]
        /\ (\A k \in DOMAIN frames : ~Tells(frames[k], i))
            => aim.items[i] = view.items[i]

\* A reader with this id is not told of a gap.
Replayable(o, id) ==
    id # NoId /\ Known(o) /\ ~Unreplayable(StreamOf(o).history, id)

\* However many of the frames a reader gets before its connection breaks, these and
\* the events he missed bring the view that was observed last.
CatchesUp(c, k) ==
    LET o == Watches[c]
        id == IdAfter(conn[c], reader[c].id, k)
    IN  /\ id # NoId => Known(o) /\ id <= StreamOf(o).next
        /\ Replayable(o, id) =>
                Brings(reader[c].view,
                       SubSeq(conn[c].out, 1, k) \o Newer(StreamOf(o).history, id),
                       StreamOf(o).last)

KeptInv ==
    Kept => \A c \in Clients :
        /\ \A k \in 0 .. Len(conn[c].out) : CatchesUp(c, k)
        /\ conn[c].started /\ conn[c].at \in {"open", "ended"} =>
                Brings(reader[c].view, conn[c].out, conn[c].view)
-----------------------------------------------------------------------------
(* What the handlers read.                                                   *)

\* What is known of the handler of this operation, whose current view is given: the
\* row is read before the items, so a terminal row is not read before its items.
Truthful(o, handler, current) ==
    /\ handler.at \in {"items", "observe"} /\ Terminal(o, handler.view) =>
            Terminal(o, current)
    /\ handler.at \in {"observe", "ended"} /\ Terminal(o, handler.view) =>
            handler.view = current
    /\ handler.at = "ended" => handler.started /\ Terminal(o, handler.view)

\* And a finished operation is not saved again.
ReadInv ==
    /\ \A o \in Ops : store[o].version <= Final[o]
    /\ \A c \in Clients : Truthful(Watches[c], conn[c], store[Watches[c]])

-----------------------------------------------------------------------------
(* The task centre.                                                          *)

\* A view that is terminal is the final one of this operation.
Settled(o, view, current) == Terminal(o, view) => view = current

\* The views that the events of a sequence were made from.
Shown(events) == {events[k].view : k \in DOMAIN events}

\* Only the final view of an operation is ever published as terminal.
EventsInv ==
    /\ \A k \in DOMAIN log : \A view \in Shown(log[k].history) :
            Settled(log[k].op, view, store[log[k].op])
    /\ \A c \in Clients : \A view \in Shown(conn[c].out) :
            Settled(Watches[c], view, store[Watches[c]])

\* At most one request is under way, and it reads the operations from the newest on.
PageType ==
    /\ cache \in [Ops -> Views]
    /\ fetch \in [at : {"none", "row", "items", "answer"}, op : Ops \cup {0},
                  list : [Ops -> Views]]
    /\ fetch.at \in {"row", "items"} => fetch.op \in Ops
    /\ target \subseteq Ops /\ Cardinality(target) <= MaxStreams
    /\ sources \subseteq target
    /\ \A o \in Ops : conn[o] # Closed => o \in sources

\* The request that is under way has read the row of this operation.
RowIsRead(o) ==
    \/ fetch.at = "answer"
    \/ fetch.at = "row" /\ fetch.op < o
    \/ fetch.at = "items" /\ fetch.op <= o

\* Nothing but a terminal event takes its source from a chosen operation, and no answer
\* can take the terminal view back.
SourceGone(o) ==
    o \in target \ sources =>
        Terminal(o, cache[o]) /\ (RowIsRead(o) => Terminal(o, fetch.list[o]))

\* What the list, or the answer that is being made, has of a finished operation: the
\* list at first only that it is finished.
CacheTrue(o) == Terminal(o, cache[o]) => Terminal(o, store[o])
AnswerTrue(o) ==
    fetch.at # "none" /\ Terminal(o, fetch.list[o]) =>
        \/ fetch.list[o] = store[o]
        \/ fetch.at = "items" /\ fetch.op = o /\ Terminal(o, store[o])
Complete(o) ==
    faults = 0 /\ restarts = 0 /\ fetch.at = "none" => Settled(o, cache[o], store[o])

ResultsInv ==
    \A o \in Ops : SourceGone(o) /\ CacheTrue(o) /\ AnswerTrue(o) /\ Complete(o)

PageInv == PageType /\ EventsInv /\ ResultsInv

-----------------------------------------------------------------------------
(* Sequences of events.                                                      *)

\* Nth enumerates a finite set of numbers, every element once.
LEMMA NthEnumerates ==
    ASSUME NEW S \in SUBSET Nat, IsFiniteSet(S)
    PROVE  /\ Cardinality(S) \in Nat
           /\ \A k \in 1 .. Cardinality(S) : Nth(S, k) \in S
           /\ \A i \in S : \E k \in 1 .. Cardinality(S) : Nth(S, k) = i
<1> DEFINE n == Cardinality(S)
           below(i) == {j \in S : j < i}
           f == [i \in S |-> Cardinality(below(i)) + 1]
<1>1. n \in Nat
    BY FS_CardinalityType
<1>2. ASSUME NEW i \in S
      PROVE  IsFiniteSet(below(i)) /\ Cardinality(below(i)) \in 0 .. n - 1
    <2>1. below(i) \in SUBSET S /\ i \notin below(i)
        OBVIOUS
    <2>2. IsFiniteSet(below(i)) /\ Cardinality(below(i)) <= n
          /\ (n = Cardinality(below(i)) => S = below(i))
        BY <2>1, FS_Subset
    <2>3. Cardinality(below(i)) \in Nat
        BY <2>2, FS_CardinalityType
    <2> QED BY <1>1, <2>1, <2>2, <2>3
<1>3. ASSUME NEW i \in S, NEW j \in S, i < j
      PROVE  Cardinality(below(i)) < Cardinality(below(j))
    <2>1. i \in Nat /\ j \in Nat /\ \A l \in S : l \in Nat
        OBVIOUS
    <2>2. \A l \in S : l < i => l < j
        BY <1>3, <2>1
    <2>3. i \in below(j) /\ i \notin below(i)
        BY <1>3, <2>1
    <2>4. below(i) \in SUBSET below(j) /\ i \in below(j) /\ i \notin below(i)
        BY <2>2, <2>3
    <2>5. Cardinality(below(i)) <= Cardinality(below(j))
          /\ (Cardinality(below(j)) = Cardinality(below(i)) => below(j) = below(i))
        BY <2>4, <1>2, FS_Subset
    <2> QED BY <1>2, <2>4, <2>5
<1>4. \A i, j \in S : Cardinality(below(i)) = Cardinality(below(j)) => i = j
    <2> SUFFICES ASSUME NEW i \in S, NEW j \in S, i # j
                 PROVE  Cardinality(below(i)) # Cardinality(below(j))
        OBVIOUS
    <2>1. i \in Nat /\ j \in Nat
        OBVIOUS
    <2>2. i < j \/ j < i
        BY <2>1
    <2> QED BY <1>2, <1>3, <2>2
<1>5. f \in Surjection(S, 1 .. n)
    <2>1. f \in [S -> 1 .. n]
        BY <1>1, <1>2
    <2>2. \A i, j \in S : f[i] = f[j] => i = j
        BY <1>2, <1>4
    <2>3. f \in Injection(S, 1 .. n)
        BY <2>1, <2>2 DEF Injection, IsInjective
    <2>4. IsFiniteSet(1 .. n) /\ Cardinality(1 .. n) = n
        BY <1>1, FS_Interval
    <2> QED BY <2>3, <2>4, FS_Injection
<1>6. ASSUME NEW k \in 1 .. n
      PROVE  Nth(S, k) \in S /\ Cardinality(below(Nth(S, k))) = k - 1
    <2>1. PICK i \in S : f[i] = k
        BY <1>5 DEF Surjection
    <2>2. Cardinality(below(i)) = k - 1
        BY <1>2, <2>1
    <2> QED BY <2>2 DEF Nth
<1>7. ASSUME NEW i \in S
      PROVE  \E k \in 1 .. n : Nth(S, k) = i
    <2>1. Cardinality(below(i)) + 1 \in 1 .. n
        BY <1>1, <1>2
    <2>2. /\ Nth(S, Cardinality(below(i)) + 1) \in S
          /\ Cardinality(below(Nth(S, Cardinality(below(i)) + 1)))
                = Cardinality(below(i))
        BY <1>2, <1>6, <2>1
    <2> QED BY <1>4, <2>1, <2>2
<1> QED BY <1>1, <1>6, <1>7

\* The events that are not newer than an id are the first ones of the history.
LEMMA SeenCuts ==
    ASSUME NEW h \in Seq(Events), Ordered(h), NEW id \in Nat
    PROVE  /\ Seen(h, id) \in 0 .. Len(h)
           /\ \A k \in 1 .. Len(h) : h[k].seq <= id <=> k <= Seen(h, id)
<1> DEFINE D == {k \in DOMAIN h : h[k].seq <= id}
           n == Cardinality(D)
<1>0. DOMAIN h = 1 .. Len(h) /\ Len(h) \in Nat /\ \A k \in 1 .. Len(h) : h[k] \in Events
    BY LenProperties, ElementOfSeq
<1>1. DOMAIN h = 1 .. Len(h) /\ Len(h) \in Nat /\ \A k \in 1 .. Len(h) : h[k].seq \in Nat
    BY <1>0 DEF Events
<1>2. IsFiniteSet(1 .. Len(h)) /\ Cardinality(1 .. Len(h)) = Len(h)
    BY <1>1, FS_Interval
<1>3. IsFiniteSet(D) /\ n <= Len(h)
    BY <1>1, <1>2, FS_Subset
<1>4. n \in Nat
    BY <1>3, FS_CardinalityType
<1>5. ASSUME NEW k \in D
      PROVE  k <= n
    <2>1. 1 .. k \in SUBSET D
        BY <1>1 DEF Ordered
    <2>2. k \in Nat /\ Cardinality(1 .. k) = k
        BY <1>1, FS_Interval
    <2> QED BY <1>3, <2>1, <2>2, FS_Subset
<1>6. D = 1 .. n
    <2>1. IsFiniteSet(1 .. n) /\ Cardinality(1 .. n) = n
        BY <1>4, FS_Interval
    <2>2. D \in SUBSET (1 .. n)
        BY <1>1, <1>5
    <2> QED BY <2>1, <2>2, FS_Subset
<1>7. Seen(h, id) = n
    BY DEF Seen
<1> QED BY <1>1, <1>3, <1>4, <1>6, <1>7

LEMMA SeenIs ==
    ASSUME NEW h \in Seq(Events), Ordered(h), NEW id \in Nat, NEW n \in 0 .. Len(h),
           \A k \in 1 .. Len(h) : h[k].seq <= id <=> k <= n
    PROVE  Seen(h, id) = n
<1>1. Len(h) \in Nat
    BY LenProperties
<1>2. Seen(h, id) \in 0 .. Len(h)
      /\ \A k \in 1 .. Len(h) : h[k].seq <= id <=> k <= Seen(h, id)
    BY SeenCuts
<1>3. ~(n < Seen(h, id)) /\ ~(Seen(h, id) < n)
    <2>1. CASE n < Seen(h, id)
        <3>1. n + 1 \in 1 .. Len(h) /\ n + 1 <= Seen(h, id) /\ ~(n + 1 <= n)
            BY <1>1, <1>2, <2>1
        <3> QED BY <1>2, <3>1
    <2>2. CASE Seen(h, id) < n
        <3>1. /\ Seen(h, id) + 1 \in 1 .. Len(h) /\ Seen(h, id) + 1 <= n
              /\ ~(Seen(h, id) + 1 <= Seen(h, id))
            BY <1>1, <1>2, <2>2
        <3> QED BY <1>2, <3>1
    <2> QED BY <2>1, <2>2
<1> QED BY <1>1, <1>2, <1>3

\* The events that a reader with this id has not seen.
LEMMA NewerEvents ==
    ASSUME NEW h \in Seq(Events), Ordered(h), NEW id \in Nat
    PROVE  /\ Newer(h, id) \in Seq(Events)
           /\ Len(Newer(h, id)) = Len(h) - Seen(h, id)
           /\ \A k \in 1 .. Len(h) - Seen(h, id) : Newer(h, id)[k] = h[Seen(h, id) + k]
<1>1. Len(h) \in Nat /\ Seen(h, id) \in 0 .. Len(h) /\ \A k \in 1 .. Len(h) : h[k] \in Events
    BY SeenCuts, LenProperties, ElementOfSeq
<1> DEFINE n == Seen(h, id)  m == Len(h)
<1>2. n + 1 \in Int /\ m \in Int /\ \A k \in n + 1 .. m : h[k] \in Events
    BY <1>1
<1> HIDE DEF n, m
<1>3. /\ SubSeq(h, n + 1, m) \in Seq(Events)
      /\ Len(SubSeq(h, n + 1, m)) = IF n + 1 <= m THEN m - (n + 1) + 1 ELSE 0
      /\ \A k \in 1 .. m - (n + 1) + 1 : SubSeq(h, n + 1, m)[k] = h[n + 1 + k - 1]
    BY <1>2, SubSeqProperties
<1>4. n \in 0 .. m /\ m \in Nat
    BY <1>1 DEF n, m
<1>5. /\ Len(SubSeq(h, n + 1, m)) = m - n
      /\ \A k \in 1 .. m - n : k \in 1 .. m - (n + 1) + 1 /\ n + 1 + k - 1 = n + k
    BY <1>3, <1>4
<1>6. \A k \in 1 .. m - n : SubSeq(h, n + 1, m)[k] = h[n + k]
    BY <1>3, <1>5
<1> QED BY <1>3, <1>5, <1>6 DEF Newer, n, m

LEMMA HistoryTypes ==
    ASSUME NEW h \in Seq(Events)
    PROVE  /\ DOMAIN h = 1 .. Len(h) /\ Len(h) \in Nat
           /\ h = <<>> <=> Len(h) = 0
           /\ \A k \in 1 .. Len(h) : h[k] \in Events /\ h[k].seq \in Nat
<1>1. DOMAIN h = 1 .. Len(h) /\ Len(h) \in Nat /\ \A k \in 1 .. Len(h) : h[k] \in Events
    BY LenProperties, ElementOfSeq
<1>2. h = <<>> <=> Len(h) = 0
    BY EmptySeq
<1> QED BY <1>1, <1>2 DEF Events

LEMMA EventNumbers ==
    ASSUME NEW h \in Seq(Events), h # <<>>
    PROVE  LastOf(h) \in Events /\ LastOf(h).seq \in Nat
<1>1. Len(h) \in 1 .. Len(h)
    BY HistoryTypes
<1> QED BY <1>1, HistoryTypes DEF LastOf

LEMMA Concatenated ==
    ASSUME NEW h \in Seq(Events), NEW e \in Seq(Events)
    PROVE  /\ h \o e \in Seq(Events) /\ Len(h \o e) = Len(h) + Len(e)
           /\ \A k \in 1 .. Len(h) : (h \o e)[k] = h[k]
           /\ \A k \in 1 .. Len(e) : (h \o e)[Len(h) + k] = e[k]
           /\ \A k \in 1 .. Len(h) + Len(e) :
                k \in 1 .. Len(h)
                \/ (k - Len(h) \in 1 .. Len(e) /\ k = Len(h) + (k - Len(h)))
<1> DEFINE m == Len(h)  n == Len(e)
<1>1. m \in Nat /\ n \in Nat
    BY HistoryTypes
<1>2. /\ h \o e \in Seq(Events) /\ Len(h \o e) = m + n
      /\ \A k \in 1 .. m + n : (h \o e)[k] = IF k <= m THEN h[k] ELSE e[k - m]
    BY ConcatProperties
<1>3. \A k \in 1 .. m : (h \o e)[k] = h[k]
    BY <1>1, <1>2
<1>4. \A k \in 1 .. n : (h \o e)[m + k] = e[k]
    <2> SUFFICES ASSUME NEW k \in 1 .. n PROVE (h \o e)[m + k] = e[k]
        OBVIOUS
    <2>1. m + k \in 1 .. m + n /\ ~(m + k <= m) /\ m + k - m = k
        BY <1>1
    <2> QED BY <1>2, <2>1
<1>5. \A k \in 1 .. m + n : k \in 1 .. m \/ (k - m \in 1 .. n /\ k = m + (k - m))
    BY <1>1
<1> QED BY <1>2, <1>3, <1>4, <1>5

\* How many of its oldest events a history loses.
Dropped(h) == IF Len(h) > HistoryLimit THEN Len(h) - HistoryLimit ELSE 0

LEMMA TrimmedHistory ==
    ASSUME NEW h \in Seq(Events)
    PROVE  /\ Dropped(h) \in 0 .. Len(h)
           /\ h # <<>> => Dropped(h) < Len(h)
           /\ Trimmed(h) \in Seq(Events)
           /\ Len(Trimmed(h)) = Len(h) - Dropped(h)
           /\ Len(Trimmed(h)) <= HistoryLimit
           /\ \A k \in 1 .. Len(h) - Dropped(h) : Trimmed(h)[k] = h[Dropped(h) + k]
<1>1. /\ DOMAIN h = 1 .. Len(h) /\ Len(h) \in Nat /\ (h = <<>> <=> Len(h) = 0)
      /\ \A k \in 1 .. Len(h) : h[k] \in Events
    BY HistoryTypes
<1>2. HistoryLimit \in Nat /\ HistoryLimit >= 1
    BY StreamBoundsAssumption
<1> DEFINE n == Len(h)  d == Dropped(h)
<1>3. /\ n \in Nat /\ d \in 0 .. n /\ (n # 0 => d < n) /\ n - d <= HistoryLimit
      /\ n > HistoryLimit => d = n - HistoryLimit
      /\ ~(n > HistoryLimit) => d = 0
    <2>1. n \in Nat /\ d = IF n > HistoryLimit THEN n - HistoryLimit ELSE 0
        BY <1>1 DEF Dropped
    <2> HIDE DEF n, d
    <2> QED BY <1>2, <2>1
<1>4. CASE n > HistoryLimit
    <2>1. Trimmed(h) = SubSeq(h, d + 1, n)
        BY <1>3, <1>4, <1>2 DEF Trimmed
    <2>2. d + 1 \in Int /\ n \in Int /\ \A k \in d + 1 .. n : h[k] \in Events
        BY <1>1, <1>3
    <2> HIDE DEF n, d
    <2>3. /\ SubSeq(h, d + 1, n) \in Seq(Events)
          /\ Len(SubSeq(h, d + 1, n)) = IF d + 1 <= n THEN n - (d + 1) + 1 ELSE 0
          /\ \A k \in 1 .. n - (d + 1) + 1 : SubSeq(h, d + 1, n)[k] = h[d + 1 + k - 1]
        BY <2>2, SubSeqProperties
    <2>4. /\ Len(SubSeq(h, d + 1, n)) = n - d
          /\ \A k \in 1 .. n - d : k \in 1 .. n - (d + 1) + 1 /\ d + 1 + k - 1 = d + k
        BY <1>3, <2>3
    <2>5. \A k \in 1 .. n - d : SubSeq(h, d + 1, n)[k] = h[d + k]
        BY <2>3, <2>4
    <2> QED BY <1>1, <1>3, <2>1, <2>3, <2>4, <2>5 DEF n, d
<1>5. CASE ~(n > HistoryLimit)
    <2>1. Trimmed(h) = h /\ d = 0
        BY <1>3, <1>5 DEF Trimmed
    <2> QED BY <1>1, <1>3, <2>1
<1> QED BY <1>4, <1>5

\* What may be added to a history that ends with this id.
Continues(events, id) ==
    events # <<>> /\ Ordered(events) /\ Linked(events) /\ Follows(events[1], id)

\* A history with its continuation.
LEMMA Continuation ==
    ASSUME NEW s \in Streams, Numbered(s), NEW e \in Seq(Events), Continues(e, s.next)
    PROVE  /\ s.history \o e \in Seq(Events)
           /\ Len(s.history \o e) = Len(s.history) + Len(e)
           /\ Ordered(s.history \o e) /\ Linked(s.history \o e)
           /\ (s.history \o e)[1].seq > 0
           /\ \A k \in 1 .. Len(s.history) : (s.history \o e)[k] = s.history[k]
                                             /\ s.history[k].seq <= s.next
           /\ \A k \in 1 .. Len(e) : (s.history \o e)[Len(s.history) + k] = e[k]
                                     /\ e[k].seq > s.next
<1> DEFINE h == s.history  g == h \o e  m == Len(h)  n == Len(e)
<1>1. h \in Seq(Events) /\ s.next \in Nat
    BY DEF Streams
<1>2. /\ m \in Nat /\ DOMAIN h = 1 .. m /\ (h = <<>> <=> m = 0)
      /\ \A k \in 1 .. m : h[k] \in Events /\ h[k].seq \in Nat
    BY <1>1, HistoryTypes
<1>3. /\ n \in Nat /\ n >= 1 /\ DOMAIN e = 1 .. n
      /\ \A k \in 1 .. n : e[k] \in Events /\ e[k].seq \in Nat
    BY HistoryTypes DEF Continues
<1>4. /\ g \in Seq(Events) /\ Len(g) = m + n
      /\ \A k \in 1 .. m : g[k] = h[k]
      /\ \A k \in 1 .. n : g[m + k] = e[k]
      /\ \A k \in 1 .. m + n : k \in 1 .. m \/ (k - m \in 1 .. n /\ k = m + (k - m))
    BY <1>1, Concatenated
<1>5. \A k \in 1 .. m : g[k] = h[k]
    BY <1>4
<1>6. \A k \in 1 .. n : g[m + k] = e[k]
    BY <1>4
<1>7. \A k \in 1 .. m : h[k].seq <= s.next
    <2> SUFFICES ASSUME NEW k \in 1 .. m PROVE h[k].seq <= s.next
        OBVIOUS
    <2>1. s.next = h[m].seq /\ m \in DOMAIN h /\ k \in DOMAIN h /\ k <= m
        BY <1>2 DEF Numbered, LastOf
    <2>2. k = m \/ h[k].seq < h[m].seq
        BY <1>2, <2>1 DEF Numbered, Ordered
    <2> QED BY <1>2, <2>1, <2>2
<1>8. \A k \in 1 .. n : e[k].seq > s.next
    <2> SUFFICES ASSUME NEW k \in 1 .. n PROVE e[k].seq > s.next
        OBVIOUS
    <2>1. e[1].seq > s.next /\ 1 \in DOMAIN e /\ k \in DOMAIN e
        BY <1>3 DEF Continues, Follows
    <2>2. k = 1 \/ e[1].seq < e[k].seq
        BY <1>3, <2>1 DEF Continues, Ordered
    <2> QED BY <1>1, <1>3, <2>1, <2>2
<1>9. DOMAIN g = 1 .. m + n
    BY <1>4, HistoryTypes
<1>10. \A k \in 1 .. m + n : k \in 1 .. m \/ (k - m \in 1 .. n /\ k = m + (k - m))
    BY <1>4
<1> HIDE DEF g
<1>11. Ordered(g)
    <2> SUFFICES ASSUME NEW j \in 1 .. m + n, NEW k \in 1 .. m + n, j < k
                 PROVE  g[j].seq < g[k].seq
        BY <1>9 DEF Ordered
    <2>1. CASE j \in 1 .. m /\ k \in 1 .. m
        BY <1>2, <1>5, <2>1 DEF Numbered, Ordered
    <2>2. CASE j \in 1 .. m /\ k - m \in 1 .. n
        <3>1. h[j].seq <= s.next /\ e[k - m].seq > s.next /\ g[j] = h[j]
            BY <1>5, <1>7, <1>8, <2>2
        <3>2. g[k] = e[k - m]
            <4>1. k = m + (k - m)
                BY <1>2
            <4> QED BY <1>6, <2>2, <4>1
        <3>3. h[j].seq \in Nat /\ e[k - m].seq \in Nat
            BY <1>2, <1>3, <2>2
        <3> QED BY <1>1, <3>1, <3>2, <3>3
    <2>3. CASE j - m \in 1 .. n /\ k - m \in 1 .. n
        <3>1. j - m < k - m /\ j - m \in DOMAIN e /\ k - m \in DOMAIN e
            BY <1>2, <1>3, <2>3
        <3>2. e[j - m].seq < e[k - m].seq
            BY <3>1 DEF Continues, Ordered
        <3>3. j = m + (j - m) /\ k = m + (k - m)
            BY <1>2
        <3> QED BY <1>6, <2>3, <3>2, <3>3
    <2> QED BY <1>2, <1>3, <2>1, <2>2, <2>3
<1>12. Linked(g)
    <2> SUFFICES ASSUME NEW k \in 1 .. m + n, k > 1
                 PROVE  Follows(g[k], g[k - 1].seq)
        BY <1>9 DEF Linked
    <2>1. CASE k \in 1 .. m
        <3>1. k - 1 \in 1 .. m
            BY <1>2, <2>1
        <3> QED BY <1>2, <1>5, <2>1, <3>1 DEF Numbered, Linked
    <2>2. CASE k = m + 1
        <3>1. m \in 1 .. m /\ 1 \in 1 .. n /\ k - 1 = m
            BY <1>2, <1>3, <2>2
        <3>2. g[k - 1].seq = s.next
            BY <1>2, <1>5, <3>1 DEF Numbered, LastOf
        <3> QED BY <1>6, <2>2, <3>1, <3>2 DEF Continues
    <2>3. CASE k > m + 1
        <3>1. /\ k - m \in 1 .. n /\ k - m > 1 /\ k - m - 1 \in 1 .. n
              /\ k = m + (k - m) /\ k - 1 = m + (k - m - 1)
            <4>1. m \in Nat /\ n \in Nat /\ k \in Nat /\ k <= m + n
                BY <1>2, <1>3
            <4> HIDE DEF m, n
            <4> QED BY <2>3, <4>1
        <3>2. g[k] = e[k - m] /\ g[k - 1] = e[k - m - 1]
            BY <1>6, <3>1
        <3> QED BY <1>3, <3>1, <3>2 DEF Continues, Linked
    <2> QED BY <1>2, <1>3, <2>1, <2>2, <2>3
<1>13. g[1].seq > 0
    <2>1. CASE m = 0
        <3>1. g[1] = e[1] /\ e[1].seq > s.next
            BY <1>2, <1>3, <1>6, <1>8, <2>1
        <3> QED BY <1>1, <1>3, <3>1
    <2>2. CASE m # 0
        <3>1. g[1] = h[1] /\ h # <<>>
            BY <1>2, <1>5, <2>2
        <3> QED BY <3>1 DEF Numbered
    <2> QED BY <2>1, <2>2
<1> QED BY <1>4, <1>5, <1>6, <1>7, <1>8, <1>11, <1>12, <1>13 DEF g


\* A stream as it is in the log.
Kempt(s) == s \in Streams /\ Numbered(s) /\ Len(s.history) \in 1 .. HistoryLimit

LEMMA Extension ==
    ASSUME NEW s \in Streams, Numbered(s), NEW e \in Seq(Events), Continues(e, s.next)
    PROVE  /\ Kempt(Extended(s, e))
           /\ Extended(s, e).op = s.op /\ Extended(s, e).last = s.last
           /\ Extended(s, e).next = LastOf(e).seq
           /\ Extended(s, e).next > s.next
           /\ LastOf(Extended(s, e).history) = LastOf(e)
<1> DEFINE h == s.history  g == h \o e  t == Trimmed(g)
           m == Len(h)  n == Len(e)  d == Dropped(g)
<1>1. h \in Seq(Events) /\ s.next \in Nat
    BY DEF Streams
<1>2. /\ m \in Nat /\ n \in Nat /\ n >= 1 /\ e[n] \in Events /\ e[n].seq \in Nat
    BY <1>1, HistoryTypes DEF Continues
<1>3. /\ g \in Seq(Events) /\ Len(g) = m + n /\ Ordered(g) /\ Linked(g) /\ g[1].seq > 0
      /\ \A k \in 1 .. n : g[m + k] = e[k] /\ e[k].seq > s.next
    BY Continuation
<1> HIDE DEF g, m, n
<1>4. /\ d \in 0 .. m + n /\ d < m + n /\ t \in Seq(Events) /\ Len(t) = m + n - d
      /\ Len(t) <= HistoryLimit
      /\ \A k \in 1 .. m + n - d : t[k] = g[d + k]
    <2>1. g # <<>>
        BY <1>2, <1>3, HistoryTypes
    <2>2. /\ d \in 0 .. Len(g) /\ d < Len(g) /\ t \in Seq(Events)
          /\ Len(t) = Len(g) - d /\ Len(t) <= HistoryLimit
          /\ \A k \in 1 .. Len(g) - d : t[k] = g[d + k]
        BY <1>3, <2>1, TrimmedHistory
    <2>3. Len(g) = m + n
        BY <1>3
    <2> HIDE DEF d, t
    <2> QED BY <1>2, <2>2, <2>3
<1>5. Extended(s, e) = [op |-> s.op, next |-> LastOf(e).seq, history |-> t, last |-> s.last]
    <2>1. s = [op |-> s.op, next |-> s.next, history |-> h, last |-> s.last]
        BY DEF Streams
    <2>2. Extended(s, e) = [s EXCEPT !.next = LastOf(e).seq, !.history = t]
        BY DEF Extended, g
    <2> HIDE DEF h, t
    <2> QED BY <2>1, <2>2
<1>6. LastOf(e) = e[n] /\ LastOf(e).seq \in Nat /\ LastOf(e).seq > s.next
    BY <1>2, <1>3 DEF LastOf, n
<1>7. /\ DOMAIN g = 1 .. m + n /\ DOMAIN t = 1 .. m + n - d
      /\ \A k \in 1 .. m + n : g[k] \in Events /\ g[k].seq \in Nat
    BY <1>3, <1>4, HistoryTypes
<1> HIDE DEF t, h, d
<1>13. d \in Nat /\ d < m + n
    BY <1>2, <1>4
<1>8. Ordered(t)
    <2> SUFFICES ASSUME NEW j \in 1 .. m + n - d, NEW k \in 1 .. m + n - d, j < k
                 PROVE  t[j].seq < t[k].seq
        BY <1>7 DEF Ordered
    <2>1. d + j \in 1 .. m + n /\ d + k \in 1 .. m + n /\ d + j < d + k
        BY <1>2, <1>4
    <2> QED BY <1>3, <1>4, <1>7, <2>1 DEF Ordered
<1>9. Linked(t)
    <2> SUFFICES ASSUME NEW k \in 1 .. m + n - d, k > 1
                 PROVE  Follows(t[k], t[k - 1].seq)
        BY <1>7 DEF Linked
    <2>1. /\ d + k \in 1 .. m + n /\ d + k > 1 /\ k - 1 \in 1 .. m + n - d
          /\ d + k - 1 = d + (k - 1)
        BY <1>2, <1>4
    <2>2. Follows(g[d + k], g[d + k - 1].seq)
        <3>1. \A l \in 1 .. m + n : l > 1 => Follows(g[l], g[l - 1].seq)
            BY <1>3, <1>7 DEF Linked
        <3> QED BY <1>2, <1>13, <2>1, <3>1
    <2> QED BY <1>4, <2>1, <2>2
<1>10. t[1].seq > 0 /\ t # <<>>
    <2>1. 1 \in 1 .. m + n - d /\ d + 1 \in 1 .. m + n /\ 1 \in 1 .. m + n
        BY <1>2, <1>4
    <2>2. t[1] = g[d + 1]
        BY <1>4, <2>1
    <2>3. d + 1 = 1 \/ g[1].seq < g[d + 1].seq
        <3>1. d = 0 \/ 1 < d + 1
            BY <1>13
        <3>2. \A j, k \in 1 .. m + n : j < k => g[j].seq < g[k].seq
            BY <1>3, <1>7 DEF Ordered
        <3> QED BY <1>2, <1>13, <2>1, <3>1, <3>2
    <2>4. t[1].seq > 0
        BY <1>3, <1>7, <2>1, <2>2, <2>3
    <2> QED BY <1>2, <1>4, <2>4, HistoryTypes
<1>11. LastOf(t) = e[n]
    <2>1. m + n - d \in 1 .. m + n - d /\ d + (m + n - d) = m + n /\ n \in 1 .. n
        BY <1>2, <1>4
    <2> QED BY <1>3, <1>4, <2>1 DEF LastOf
<1>12. Kempt(Extended(s, e))
    <2>1. Extended(s, e) \in Streams
        BY <1>4, <1>5, <1>6 DEF Streams
    <2>2. Numbered(Extended(s, e))
        BY <1>5, <1>6, <1>8, <1>9, <1>10, <1>11 DEF Numbered
    <2>3. Len(t) \in 1 .. HistoryLimit
        BY <1>2, <1>4, StreamBoundsAssumption
    <2> QED BY <1>5, <2>1, <2>2, <2>3 DEF Kempt
<1> QED BY <1>5, <1>6, <1>11, <1>12

\* A sequence of one event.
LEMMA OneEvent ==
    ASSUME NEW e \in Events
    PROVE  /\ <<e>> \in Seq(Events) /\ Len(<<e>>) = 1 /\ <<e>>[1] = e /\ <<e>> # <<>>
           /\ Ordered(<<e>>) /\ Linked(<<e>>) /\ LastOf(<<e>>) = e
<1>1. <<e>> \in Seq(Events) /\ Len(<<e>>) = 1 /\ <<e>>[1] = e /\ DOMAIN <<e>> = 1 .. 1
    OBVIOUS
<1> QED BY <1>1 DEF Ordered, Linked, LastOf

\* The stream t is s with a snapshot at the end.
AddsSnapshot(t, s) ==
    /\ Kempt(t) /\ t.op = s.op /\ t.last = s.last /\ t.next > s.next
    /\ LastOf(t.history) \in Events
    /\ LastOf(t.history).kind = "snapshot" /\ LastOf(t.history).view = s.last
    /\ LastOf(t.history).seq = t.next
    /\ Continues(<<LastOf(t.history)>>, s.next)
    /\ t = Extended(s, <<LastOf(t.history)>>)

LEMMA SnapshotExtends ==
    ASSUME NEW s \in Streams, Numbered(s), NEW minimum \in Nat, NEW t,
           \E reset \in BOOLEAN : t = WithSnapshot(s, reset, minimum)
    PROVE  AddsSnapshot(t, s) /\ t.next >= minimum
<1> PICK reset \in BOOLEAN : t = WithSnapshot(s, reset, minimum)
    OBVIOUS
<1> DEFINE seq == IF minimum > s.next + 1 THEN minimum ELSE s.next + 1
           e == Snapshot(s, reset, seq)
<1>1. s.next \in Nat /\ s.last \in Views
    BY DEF Streams
<1>2. seq \in Nat /\ seq > s.next /\ seq >= minimum
    BY <1>1
<1> HIDE DEF seq
<1>3. e \in Events /\ e.seq = seq /\ e.kind = "snapshot" /\ e.view = s.last
    BY <1>1, <1>2 DEF Events, Snapshot
<1>4. t = Extended(s, <<e>>)
    BY DEF WithSnapshot, seq
<1> HIDE DEF e
<1>5. Continues(<<e>>, s.next) /\ <<e>> \in Seq(Events) /\ LastOf(<<e>>) = e
    BY <1>2, <1>3, OneEvent DEF Continues, Follows
<1>6. /\ Kempt(t) /\ t.op = s.op /\ t.last = s.last /\ t.next = seq /\ t.next > s.next
      /\ LastOf(t.history) = e
    BY <1>3, <1>4, <1>5, Extension
<1> QED BY <1>2, <1>3, <1>4, <1>5, <1>6 DEF AddsSnapshot

LEMMA ChangedItems ==
    ASSUME NEW last \in Views, NEW view \in Views
    PROVE  /\ Changed(last, view) \in SUBSET Items
           /\ Cardinality(Changed(last, view)) \in Nat
           /\ \A k \in 1 .. Cardinality(Changed(last, view)) :
                Nth(Changed(last, view), k) \in Changed(last, view)
           /\ \A i \in Changed(last, view) :
                \E k \in 1 .. Cardinality(Changed(last, view)) :
                    Nth(Changed(last, view), k) = i
<1>1. Changed(last, view) \in SUBSET Items
    BY DEF Changed
<1>2. Changed(last, view) \in SUBSET Nat /\ IsFiniteSet(Changed(last, view))
    BY <1>1, StreamOpsAssumption, FS_Subset
<1> QED BY <1>1, <1>2, NthEnumerates

LEMMA BatchContinues ==
    ASSUME NEW s \in Streams, NEW view \in Views
    PROVE  /\ Batch(s, view) \in Seq(Events)
           /\ Len(Batch(s, view)) = Cardinality(Changed(s.last, view)) + 1
           /\ Continues(Batch(s, view), s.next)
<1> DEFINE n == Cardinality(Changed(s.last, view))  e == Batch(s, view)
<1>1. s.next \in Nat /\ s.last \in Views
    BY DEF Streams
<1>2. n \in Nat /\ \A k \in 1 .. n : Nth(Changed(s.last, view), k) \in Items
    BY <1>1, ChangedItems
<1>3. DOMAIN e = 1 .. n + 1
    BY DEF Batch
<1>4. ASSUME NEW k \in 1 .. n + 1
      PROVE  e[k] \in Events /\ e[k].seq = s.next + k
    <2>1. e[k] = [seq |-> s.next + k, reset |-> FALSE, view |-> view,
                  kind |-> IF k = 1 THEN "operation" ELSE "item",
                  item |-> IF k = 1 THEN NoItem
                           ELSE Nth(Changed(s.last, view), k - 1)]
        BY DEF Batch
    <2>2. k = 1 \/ k - 1 \in 1 .. n
        BY <1>2
    <2>3. (IF k = 1 THEN NoItem ELSE Nth(Changed(s.last, view), k - 1))
            \in Items \cup {NoItem}
        BY <1>2, <2>2
    <2>4. s.next + k \in Nat
        BY <1>1, <1>2
    <2> QED BY <2>1, <2>3, <2>4 DEF Events
<1> HIDE DEF n, e
<1>5. e \in [1 .. n + 1 -> Events]
    <2>1. e = [k \in 1 .. n + 1 |-> e[k]]
        BY DEF e, Batch, n
    <2> QED BY <1>4, <2>1
<1>6. e \in Seq(Events) /\ Len(e) = n + 1
    <2>1. e \in Seq(Events)
        BY <1>2, <1>5, SeqDef
    <2>2. Len(e) \in Nat /\ DOMAIN e = 1 .. Len(e)
        BY <2>1, LenProperties
    <2> QED BY <1>2, <1>3, <2>1, <2>2 DEF e, n
<1>7. Ordered(e)
    BY <1>1, <1>2, <1>4, <1>5 DEF Ordered
<1>8. Linked(e)
    <2> SUFFICES ASSUME NEW k \in 1 .. n + 1, k > 1
                 PROVE  Follows(e[k], e[k - 1].seq)
        BY <1>5 DEF Linked
    <2>1. k - 1 \in 1 .. n + 1
        BY <1>2
    <2> QED BY <1>1, <1>4, <2>1 DEF Follows
<1>9. Continues(e, s.next)
    <2>1. 1 \in 1 .. n + 1 /\ e # <<>>
        BY <1>2, <1>6, HistoryTypes
    <2> QED BY <1>1, <1>4, <1>7, <1>8, <2>1 DEF Continues, Follows
<1> QED BY <1>6, <1>9 DEF e, n

LEMMA ObservedStream ==
    ASSUME NEW s, Kempt(s), NEW view \in Views
    PROVE  LET t == Observed(s, view)
           IN  /\ Kempt(t) /\ t.op = s.op /\ t.last = view /\ t.next >= s.next
<1> DEFINE r == [s EXCEPT !.last = view]
<1>1. s \in Streams /\ Numbered(s) /\ s.next \in Nat
    BY DEF Kempt, Streams
<1>2. CASE view = s.last
    BY <1>1, <1>2 DEF Observed
<1>3. CASE view # s.last
    <2>1. r \in Streams /\ Numbered(r) /\ r.next = s.next /\ r.op = s.op /\ r.last = view
        BY <1>1 DEF Streams, Numbered
    <2>2. Batch(s, view) \in Seq(Events) /\ Continues(Batch(s, view), r.next)
        BY <1>1, <2>1, BatchContinues
    <2>3. Observed(s, view) = Extended(r, Batch(s, view))
        BY <1>3 DEF Observed
    <2> DEFINE t == Observed(s, view)
    <2> HIDE DEF r
    <2>4. Kempt(t) /\ t.op = r.op /\ t.last = r.last /\ t.next > r.next
        BY <2>1, <2>2, <2>3, Extension
    <2>5. t.next \in Nat
        BY <2>4 DEF Kempt, Streams
    <2> QED BY <1>1, <2>1, <2>4, <2>5
<1> QED BY <1>2, <1>3

-----------------------------------------------------------------------------
(* The log.                                                                  *)

\* Every stream of the log is kempt, and there is one for an operation.
LogOK ==
    /\ log \in Seq(Streams) /\ Len(log) <= OperationLimit
    /\ \A k \in 1 .. Len(log) : Kempt(log[k])
    /\ \A j, k \in 1 .. Len(log) : log[j].op = log[k].op => j = k

LEMMA LogIsOK ==
    ASSUME log \in Seq(Streams), Len(log) <= OperationLimit
    PROVE  LogOK <=> /\ \A k \in DOMAIN log : Len(log[k].history) \in 1 .. HistoryLimit
                     /\ LogInv
<1>1. DOMAIN log = 1 .. Len(log) /\ \A k \in 1 .. Len(log) : log[k] \in Streams
    BY LenProperties, ElementOfSeq
<1> QED BY <1>1 DEF LogOK, LogInv, Kempt

LEMMA KnownStream ==
    ASSUME LogOK, NEW o \in Ops, Known(o)
    PROVE  /\ PlaceOf(o) \in 1 .. Len(log) /\ StreamOf(o) = log[PlaceOf(o)]
           /\ Kempt(StreamOf(o)) /\ StreamOf(o).op = o
           /\ \A k \in 1 .. Len(log) : log[k].op = o => k = PlaceOf(o)
<1>1. DOMAIN log = 1 .. Len(log)
    BY LenProperties DEF LogOK
<1>2. PlaceOf(o) \in 1 .. Len(log) /\ log[PlaceOf(o)].op = o
    BY <1>1 DEF Known, PlaceOf
<1> QED BY <1>2 DEF LogOK, StreamOf

LEMMA WithoutOne ==
    ASSUME NEW S, NEW q \in Seq(S), NEW p \in 1 .. Len(q)
    PROVE  /\ Without(q, p) \in Seq(S) /\ Len(Without(q, p)) = Len(q) - 1
           /\ \A k \in 1 .. Len(q) - 1 :
                Without(q, p)[k] = q[IF k < p THEN k ELSE k + 1]
<1> DEFINE n == Len(q)  a == SubSeq(q, 1, p - 1)  b == SubSeq(q, p + 1, n)
<1>1. n \in Nat /\ p \in Int /\ 1 <= p /\ p <= n /\ \A k \in 1 .. n : q[k] \in S
    BY LenProperties, ElementOfSeq
<1>2. /\ a \in Seq(S) /\ Len(a) = p - 1
      /\ \A k \in 1 .. p - 1 : a[k] = q[k]
    <2>1. 1 \in Int /\ p - 1 \in Int /\ \A k \in 1 .. p - 1 : q[k] \in S
        BY <1>1
    <2>2. /\ a \in Seq(S) /\ Len(a) = IF 1 <= p - 1 THEN p - 1 - 1 + 1 ELSE 0
          /\ \A k \in 1 .. p - 1 - 1 + 1 : a[k] = q[1 + k - 1]
        BY <2>1, SubSeqProperties
    <2> HIDE DEF a, n
    <2>3. \A k \in 1 .. p - 1 : k \in 1 .. p - 1 - 1 + 1 /\ 1 + k - 1 = k
        BY <1>1
    <2> QED BY <1>1, <2>2, <2>3
<1>3. /\ b \in Seq(S) /\ Len(b) = n - p
      /\ \A k \in 1 .. n - p : b[k] = q[p + k]
    <2>1. p + 1 \in Int /\ n \in Int /\ \A k \in p + 1 .. n : q[k] \in S
        BY <1>1
    <2> HIDE DEF n
    <2>2. /\ b \in Seq(S) /\ Len(b) = IF p + 1 <= n THEN n - (p + 1) + 1 ELSE 0
          /\ \A k \in 1 .. n - (p + 1) + 1 : b[k] = q[p + 1 + k - 1]
        BY <2>1, SubSeqProperties
    <2> HIDE DEF b
    <2>3. \A k \in 1 .. n - p : k \in 1 .. n - (p + 1) + 1 /\ p + 1 + k - 1 = p + k
        BY <1>1
    <2> QED BY <1>1, <2>2, <2>3
<1>4. Without(q, p) = a \o b
    BY DEF Without
<1> HIDE DEF n, a, b
<1>5. /\ a \o b \in Seq(S) /\ Len(a \o b) = Len(a) + Len(b)
      /\ \A k \in 1 .. Len(a) + Len(b) :
            (a \o b)[k] = IF k <= Len(a) THEN a[k] ELSE b[k - Len(a)]
    BY <1>2, <1>3, ConcatProperties
<1>6. Len(a) + Len(b) = n - 1
    BY <1>1, <1>2, <1>3
<1>7. ASSUME NEW k \in 1 .. n - 1
      PROVE  (a \o b)[k] = q[IF k < p THEN k ELSE k + 1]
    <2>1. (a \o b)[k] = IF k <= p - 1 THEN a[k] ELSE b[k - (p - 1)]
        BY <1>2, <1>5, <1>6
    <2>2. CASE k < p
        <3>1. k \in 1 .. p - 1 /\ k <= p - 1
            BY <1>1, <2>2
        <3> QED BY <1>2, <2>1, <2>2, <3>1
    <2>3. CASE ~(k < p)
        <3>1. k - (p - 1) \in 1 .. n - p /\ p + (k - (p - 1)) = k + 1 /\ ~(k <= p - 1)
            BY <1>1, <2>3
        <3> QED BY <1>3, <2>1, <2>3, <3>1
    <2> QED BY <2>2, <2>3
<1> QED BY <1>4, <1>5, <1>6, <1>7 DEF n

\* A call puts its stream at the end of the log; the others stay, unless one is evicted.
LEMMA LogAfterCall ==
    ASSUME LogOK, NEW s, Kempt(s), NEW l, l = LogWith(s)
    PROVE  /\ l \in Seq(Streams) /\ Len(l) \in 1 .. OperationLimit /\ l[Len(l)] = s
           /\ \E f \in [1 .. Len(l) - 1 -> 1 .. Len(log)] :
                /\ \A k \in 1 .. Len(l) - 1 : l[k] = log[f[k]] /\ log[f[k]].op # s.op
                /\ \A j, k \in 1 .. Len(l) - 1 : f[j] = f[k] => j = k
                /\ ~Evicts(s.op) =>
                    \A j \in 1 .. Len(log) : log[j].op # s.op =>
                        \E k \in 1 .. Len(l) - 1 : f[k] = j
<1> DEFINE r == CASE Known(s.op) -> Without(log, PlaceOf(s.op))
                  [] Evicts(s.op) -> Tail(log)
                  [] OTHER -> log
           n == Len(log)
           Fits(f) == /\ f \in [1 .. Len(r) -> 1 .. n]
                      /\ \A k \in 1 .. Len(r) : r[k] = log[f[k]] /\ log[f[k]].op # s.op
                      /\ \A j, k \in 1 .. Len(r) : f[j] = f[k] => j = k
                      /\ ~Evicts(s.op) =>
                            \A j \in 1 .. n : log[j].op # s.op =>
                                \E k \in 1 .. Len(r) : f[k] = j
<1>1. s \in Streams /\ s.op \in Ops
    BY DEF Kempt, Streams
<1>2. /\ log \in Seq(Streams) /\ n \in Nat /\ DOMAIN log = 1 .. n /\ n <= OperationLimit
      /\ OperationLimit \in Nat /\ OperationLimit >= 1
    BY LenProperties, StreamBoundsAssumption DEF LogOK
<1>3. /\ r \in Seq(Streams) /\ Len(r) \in Nat /\ Len(r) < OperationLimit
      /\ \E f : Fits(f)
    <2>1. CASE Known(s.op)
        <3> DEFINE p == PlaceOf(s.op)
                   f == [k \in 1 .. n - 1 |-> IF k < p THEN k ELSE k + 1]
        <3>1. /\ p \in 1 .. n /\ log[p].op = s.op
              /\ \A k \in 1 .. n : log[k].op = s.op => k = p
            BY <1>1, <2>1, KnownStream
        <3>2. r = Without(log, p) /\ ~Evicts(s.op)
            BY <2>1 DEF Evicts
        <3> HIDE DEF p, r, n
        <3>3. /\ r \in Seq(Streams) /\ Len(r) = n - 1
              /\ \A k \in 1 .. n - 1 : r[k] = log[IF k < p THEN k ELSE k + 1]
            BY <1>2, <3>1, <3>2, WithoutOne DEF n
        <3>4. n - 1 \in Nat /\ n - 1 < OperationLimit
            BY <1>2, <3>1
        <3>5. f \in [1 .. n - 1 -> 1 .. n] /\ \A k \in 1 .. n - 1 : f[k] # p
            BY <1>2, <3>1
        <3>6. \A k \in 1 .. n - 1 : r[k] = log[f[k]] /\ log[f[k]].op # s.op
            BY <3>1, <3>3, <3>5
        <3>7. \A j, k \in 1 .. n - 1 : f[j] = f[k] => j = k
            BY <1>2, <3>1
        <3>8. \A j \in 1 .. n : log[j].op # s.op => \E k \in 1 .. n - 1 : f[k] = j
            <4> SUFFICES ASSUME NEW j \in 1 .. n, j # p
                         PROVE  \E k \in 1 .. n - 1 : f[k] = j
                BY <3>1
            <4>1. CASE j < p
                <5>1. j \in 1 .. n - 1 /\ f[j] = j
                    BY <1>2, <3>1, <4>1
                <5> QED BY <5>1
            <4>2. CASE j > p
                <5>1. j - 1 \in 1 .. n - 1 /\ ~(j - 1 < p) /\ j - 1 + 1 = j
                    BY <1>2, <3>1, <4>2
                <5>2. f[j - 1] = j
                    BY <5>1
                <5> QED BY <5>1, <5>2
            <4> QED BY <1>2, <3>1, <4>1, <4>2
        <3> HIDE DEF f
        <3>9. Fits(f)
            BY <3>3, <3>5, <3>6, <3>7, <3>8
        <3> QED BY <3>3, <3>4, <3>9
    <2>2. CASE ~Known(s.op) /\ Evicts(s.op)
        <3> DEFINE f == [k \in 1 .. n - 1 |-> k + 1]
        <3>1. n >= OperationLimit /\ \A k \in 1 .. n : log[k].op # s.op
            BY <1>2, <2>2 DEF Evicts, Known
        <3>2. log # <<>>
            BY <1>2, <3>1, EmptySeq
        <3>3. /\ r = Tail(log) /\ r \in Seq(Streams) /\ Len(r) = n - 1
              /\ \A k \in 1 .. Len(r) : r[k] = log[k + 1]
            BY <1>2, <2>2, <3>2, HeadTailProperties
        <3> HIDE DEF r, n
        <3>4. n - 1 \in Nat /\ n - 1 < OperationLimit
            BY <1>2, <3>1
        <3>5. f \in [1 .. n - 1 -> 1 .. n] /\ \A j, k \in 1 .. n - 1 : f[j] = f[k] => j = k
            BY <1>2
        <3>6. \A k \in 1 .. n - 1 : r[k] = log[f[k]]
            BY <3>3
        <3> HIDE DEF f
        <3>7. Fits(f)
            BY <2>2, <3>1, <3>3, <3>5, <3>6
        <3> QED BY <3>3, <3>4, <3>7
    <2>3. CASE ~Known(s.op) /\ ~Evicts(s.op)
        <3> DEFINE f == [k \in 1 .. n |-> k]
        <3>1. ~(n >= OperationLimit) /\ \A k \in 1 .. n : log[k].op # s.op
            BY <1>2, <2>3 DEF Evicts, Known
        <3>2. r = log
            BY <2>3
        <3> HIDE DEF r
        <3>3. Fits(f)
            BY <3>1, <3>2
        <3> HIDE DEF f
        <3> QED BY <1>2, <3>1, <3>2, <3>3
    <2> QED BY <2>1, <2>2, <2>3
<1>4. l = Append(r, s)
    BY DEF LogWith
<1> HIDE DEF r, n
<1>5. /\ l \in Seq(Streams) /\ Len(l) = Len(r) + 1 /\ l[Len(r) + 1] = s
      /\ \A k \in 1 .. Len(r) : l[k] = r[k]
    BY <1>1, <1>3, <1>4, AppendProperties
<1>6. Len(l) - 1 = Len(r) /\ Len(l) \in 1 .. OperationLimit
    BY <1>2, <1>3, <1>5
<1> QED BY <1>3, <1>5, <1>6 DEF n


\* The log with its stream for this call at the end keeps its shape.
LEMMA LogKeeps ==
    ASSUME LogOK, NEW s, Kempt(s), log' = LogWith(s)
    PROVE  LogOK'
<1>1. /\ log' \in Seq(Streams) /\ Len(log') \in 1 .. OperationLimit /\ log'[Len(log')] = s
      /\ \E f \in [1 .. Len(log') - 1 -> 1 .. Len(log)] :
            /\ \A k \in 1 .. Len(log') - 1 : log'[k] = log[f[k]] /\ log[f[k]].op # s.op
            /\ \A j, k \in 1 .. Len(log') - 1 : f[j] = f[k] => j = k
    BY LogAfterCall
<1> DEFINE n == Len(log')
<1>2. n \in Nat /\ n >= 1 /\ n <= OperationLimit
    BY <1>1, StreamBoundsAssumption
<1>3. PICK f \in [1 .. n - 1 -> 1 .. Len(log)] :
        /\ \A k \in 1 .. n - 1 : log'[k] = log[f[k]] /\ log[f[k]].op # s.op
        /\ \A j, k \in 1 .. n - 1 : f[j] = f[k] => j = k
    BY <1>1
<1>4. log' \in Seq(Streams) /\ log'[n] = s
    BY <1>1
<1> HIDE DEF n
<1>5. \A k \in 1 .. n : k = n \/ k \in 1 .. n - 1
    BY <1>2
<1>6. \A k \in 1 .. n : Kempt(log'[k])
    BY <1>3, <1>4, <1>5 DEF LogOK
<1>7. ASSUME NEW j \in 1 .. n, NEW k \in 1 .. n, log'[j].op = log'[k].op
      PROVE  j = k
    <2>1. CASE j \in 1 .. n - 1 /\ k \in 1 .. n - 1
        <3>1. log[f[j]].op = log[f[k]].op /\ f[j] \in 1 .. Len(log) /\ f[k] \in 1 .. Len(log)
            BY <1>3, <1>7, <2>1
        <3> QED BY <1>3, <2>1, <3>1 DEF LogOK
    <2> QED BY <1>3, <1>4, <1>5, <1>7, <2>1
<1> QED BY <1>2, <1>4, <1>6, <1>7 DEF LogOK, n

\* The stream that EventsSince observes the view in.
LEMMA CurrentStream ==
    ASSUME LogOK, NEW o \in Ops, NEW view \in Views, NEW s, s = Current(o, view)
    PROVE  /\ Kempt(s) /\ s.op = o /\ s.last = view
           /\ ~Known(o) => LastOf(s.history).kind = "snapshot"
                           /\ LastOf(s.history).view = view
           /\ Known(o) => s.next >= StreamOf(o).next
<1>1. CASE Known(o)
    <2>1. Kempt(StreamOf(o)) /\ StreamOf(o).op = o
        BY <1>1, KnownStream
    <2>2. s = Observed(StreamOf(o), view)
        BY <1>1 DEF Current
    <2> QED BY <1>1, <2>1, <2>2, ObservedStream
<1>2. CASE ~Known(o)
    <2> DEFINE n == [NewStream(o) EXCEPT !.last = view]
    <2>1. n = [op |-> o, next |-> 0, history |-> <<>>, last |-> view]
        BY DEF NewStream
    <2>2. n \in Streams
        <3>1. <<>> \in Seq(Events)
            BY EmptySeq
        <3> HIDE DEF n
        <3> QED BY <2>1, <3>1 DEF Streams
    <2>3. Numbered(n)
        BY <2>1 DEF Numbered, Ordered, Linked
    <2>4. s = WithSnapshot(n, FALSE, 0)
        BY <1>2 DEF Current
    <2>5. n.op = o /\ n.last = view
        BY <2>1
    <2> HIDE DEF n
    <2>6. \E reset \in BOOLEAN : s = WithSnapshot(n, reset, 0)
        BY <2>4
    <2>7. AddsSnapshot(s, n)
        BY <2>2, <2>3, <2>6, SnapshotExtends
    <2> QED BY <1>2, <2>5, <2>7 DEF AddsSnapshot
<1> QED BY <1>1, <1>2

\* What EventsSince adds to it: nothing, or a snapshot that is newer than the id.
LEMMA AskedStream ==
    ASSUME LogOK, NEW o \in Ops, NEW s, Kempt(s), NEW id \in Nat, NEW t, t = Asked(o, s, id)
    PROVE  /\ Kempt(t) /\ t.op = s.op /\ t.last = s.last
           /\ \/ /\ t = s
                 /\ id = NoId => ~Known(o)
                 /\ id # NoId => Known(o) /\ ~Unreplayable(s.history, id)
              \/ AddsSnapshot(t, s) /\ t # s /\ t.next > id
<1>1. /\ s \in Streams /\ Numbered(s) /\ s.next \in Nat
      /\ Len(s.history) \in Nat /\ Len(s.history) >= 1
      /\ \A k \in 1 .. Len(s.history) : s.history[k].seq \in Nat
    <2>1. s \in Streams /\ Numbered(s) /\ s.history \in Seq(Events) /\ s.next \in Nat
          /\ Len(s.history) \in 1 .. HistoryLimit
        BY DEF Kempt, Streams
    <2>2. /\ Len(s.history) \in Nat
          /\ \A k \in 1 .. Len(s.history) : s.history[k].seq \in Nat
        BY <2>1, HistoryTypes
    <2>3. Len(s.history) >= 1
        BY <2>1, <2>2, StreamBoundsAssumption
    <2> QED BY <2>1, <2>2, <2>3
<1>2. s.next = LastOf(s.history).seq /\ s.history[1].seq <= s.next
    <2>1. s.history # <<>>
        BY <1>1
    <2>2. s.next = s.history[Len(s.history)].seq
        BY <2>1 DEF Kempt, Numbered, LastOf
    <2>3. \/ Len(s.history) = 1
          \/ s.history[1].seq < s.history[Len(s.history)].seq
        <3>1. s.history \in Seq(Events)
            BY DEF Kempt, Streams
        <3>2. DOMAIN s.history = 1 .. Len(s.history)
            BY <3>1, HistoryTypes
        <3>3. Ordered(s.history)
            BY <1>1 DEF Numbered
        <3> DEFINE h == s.history
        <3> HIDE DEF h
        <3>4. \A j, k \in 1 .. Len(h) : j < k => h[j].seq < h[k].seq
            BY <3>2, <3>3 DEF Ordered, h
        <3>5. Len(h) = 1 \/ h[1].seq < h[Len(h)].seq
            <4>1. Len(h) \in Nat /\ Len(h) >= 1
                BY <1>1 DEF h
            <4> PICK n \in Nat : n = Len(h) /\ n >= 1
                BY <4>1
            <4>2. 1 \in 1 .. n /\ n \in 1 .. n /\ (n = 1 \/ 1 < n)
                OBVIOUS
            <4>3. \A j, k \in 1 .. n : j < k => h[j].seq < h[k].seq
                BY <3>4
            <4>4. n = 1 \/ h[1].seq < h[n].seq
                BY <4>2, <4>3
            <4> QED BY <4>4
        <3> QED BY <3>5 DEF h
    <2> QED BY <1>1, <2>1, <2>2, <2>3 DEF LastOf
<1>3. ASSUME NEW minimum \in Nat, minimum > id \/ s.next >= id,
             \E reset \in BOOLEAN : t = WithSnapshot(s, reset, minimum)
      PROVE  AddsSnapshot(t, s) /\ t # s /\ t.next > id /\ Kempt(t)
             /\ t.op = s.op /\ t.last = s.last
    <2>1. AddsSnapshot(t, s) /\ t.next >= minimum
        BY <1>1, <1>3, SnapshotExtends
    <2>2. t.next \in Nat /\ t.next > s.next /\ Kempt(t) /\ t.op = s.op /\ t.last = s.last
        BY <2>1 DEF AddsSnapshot, Kempt, Streams
    <2> QED BY <1>1, <1>3, <2>1, <2>2
<1>4. CASE id = NoId /\ ~Known(o)
    BY <1>4 DEF Asked
<1>5. CASE id = NoId /\ Known(o)
    <2>1. t = WithSnapshot(s, FALSE, 0)
        BY <1>5 DEF Asked
    <2>2. \E reset \in BOOLEAN : t = WithSnapshot(s, reset, 0)
        BY <2>1
    <2>3. s.next >= id
        BY <1>1, <1>5 DEF NoId
    <2> QED BY <1>3, <2>2, <2>3
<1>6. CASE id # NoId /\ ~Known(o)
    <2>1. t = WithSnapshot(s, TRUE, id + 1)
        BY <1>6 DEF Asked
    <2>2. \E reset \in BOOLEAN : t = WithSnapshot(s, reset, id + 1)
        BY <2>1
    <2>3. id + 1 > id /\ id + 1 \in Nat
        OBVIOUS
    <2> QED BY <1>3, <2>2, <2>3
<1>7. CASE id # NoId /\ Known(o) /\ Unreplayable(s.history, id)
    <2> DEFINE m == IF id >= LastOf(s.history).seq THEN id + 1 ELSE 0
    <2>1. t = WithSnapshot(s, TRUE, m)
        BY <1>7 DEF Asked
    <2>2. m \in Nat /\ (m > id \/ s.next >= id)
        BY <1>1, <1>2
    <2> HIDE DEF m
    <2>3. \E reset \in BOOLEAN : t = WithSnapshot(s, reset, m)
        BY <2>1
    <2> QED BY <1>3, <2>2, <2>3
<1>8. CASE id # NoId /\ Known(o) /\ ~Unreplayable(s.history, id)
    BY <1>8 DEF Asked
<1> QED BY <1>4, <1>5, <1>6, <1>7, <1>8

\* The events are the last ones of the history.
EndOf(events, history) ==
    /\ Len(events) <= Len(history)
    /\ \A k \in 1 .. Len(events) : events[k] = history[Len(history) - Len(events) + k]

\* The events that are returned continue the id they were asked for with.
LEMMA ReturnedEvents ==
    ASSUME NEW t, Kempt(t), NEW id \in Nat, NEW added \in BOOLEAN, NEW e,
           e = EventsSince(t, added, id),
           added \/ id = NoId => LastOf(t.history).kind = "snapshot" /\ t.next > id,
           ~added /\ id # NoId => ~Unreplayable(t.history, id)
    PROVE  /\ e \in Seq(Events)
           /\ \A k \in 1 .. Len(e) : Follows(e[k], IF k = 1 THEN id ELSE e[k - 1].seq)
           /\ e # <<>> => LastOf(e) = LastOf(t.history)
           /\ EndOf(e, t.history)
           /\ added \/ id = NoId => e # <<>>
<1> DEFINE h == t.history  n == Len(h)
<1>1. h \in Seq(Events) /\ Ordered(h) /\ Linked(h) /\ t.next \in Nat
    BY DEF Kempt, Streams, Numbered
<1>2. /\ n \in Nat /\ DOMAIN h = 1 .. n /\ (h = <<>> <=> n = 0)
      /\ \A k \in 1 .. n : h[k] \in Events /\ h[k].seq \in Nat
    BY <1>1, HistoryTypes
<1>3. n >= 1 /\ h # <<>>
    BY <1>2, StreamBoundsAssumption DEF Kempt
<1>4. t.next = h[n].seq /\ LastOf(h) = h[n]
    BY <1>3 DEF Kempt, Numbered, LastOf
<1>5. CASE added \/ id = NoId
    <2>1. e = <<h[n]>> /\ h[n] \in Events
        BY <1>2, <1>3, <1>4, <1>5 DEF EventsSince
    <2>2. e \in Seq(Events) /\ Len(e) = 1 /\ e[1] = h[n] /\ LastOf(e) = h[n]
        BY <2>1, OneEvent
    <2>3. Follows(h[n], id)
        BY <1>4, <1>5 DEF Follows
    <2>4. e # <<>>
        BY <2>1
    <2>5. EndOf(e, h)
        <3>1. Len(e) <= n /\ n - 1 + 1 = n
            BY <1>2, <1>3, <2>2
        <3>2. ASSUME NEW k \in 1 .. Len(e)
              PROVE  k = 1 /\ n - Len(e) + k = n
            BY <1>2, <2>2
        <3>3. \A k \in 1 .. Len(e) : e[k] = h[n - Len(e) + k]
            BY <2>2, <3>2
        <3> QED BY <3>1, <3>3 DEF EndOf
    <2> QED BY <1>4, <2>2, <2>3, <2>4, <2>5
<1>6. CASE ~added /\ id # NoId
    <2> DEFINE m == Seen(h, id)
    <2>1. m \in 0 .. n /\ \A k \in 1 .. n : h[k].seq <= id <=> k <= m
        BY <1>1, SeenCuts
    <2>2. e = Newer(h, id)
        BY <1>6 DEF EventsSince
    <2>3. /\ e \in Seq(Events) /\ Len(e) = n - m
          /\ \A k \in 1 .. n - m : e[k] = h[m + k]
        BY <1>1, <2>2, NewerEvents
    <2>4. ~(id < h[1].seq - 1) /\ ~(id > h[n].seq)
        BY <1>4, <1>6 DEF Unreplayable
    <2> HIDE DEF h, n, m
    <2>5. ASSUME NEW k \in 1 .. n - m
          PROVE  Follows(e[k], IF k = 1 THEN id ELSE e[k - 1].seq)
        <3>1. /\ m + k \in 1 .. n /\ ~(m + k <= m)
              /\ k # 1 => k - 1 \in 1 .. n - m /\ m + k - 1 = m + (k - 1)
            BY <1>2, <2>1
        <3>2. h[m + k].seq > id /\ h[m + k].seq \in Nat
            BY <1>2, <2>1, <3>1
        <3>3. m + k > 1 => Follows(h[m + k], h[m + k - 1].seq)
            <4>1. \A j \in 1 .. n : j > 1 => Follows(h[j], h[j - 1].seq)
                BY <1>1, <1>2 DEF Linked
            <4> QED BY <1>2, <2>1, <3>1, <4>1
        <3>4. CASE k # 1
            <4>1. e[k] = h[m + k] /\ e[k - 1] = h[m + k - 1] /\ m + k > 1
                BY <1>2, <2>1, <2>3, <3>1, <3>4
            <4> QED BY <3>3, <3>4, <4>1
        <3>5. CASE k = 1 /\ m = 0
            <4>1. e[1] = h[1] /\ h[1].seq > id /\ h[1].seq \in Nat
                BY <1>2, <2>3, <3>2, <3>5
            <4>2. h[1].seq = id + 1
                BY <2>4, <4>1
            <4> QED BY <3>5, <4>1, <4>2 DEF Follows
        <3>6. CASE k = 1 /\ m # 0
            <4>1. /\ e[1] = h[m + 1] /\ m \in 1 .. n /\ m + 1 > 1 /\ m + 1 - 1 = m
                  /\ m + 1 \in 1 .. n
                BY <1>2, <2>1, <2>3, <3>1, <3>6
            <4>2. h[m].seq <= id /\ h[m].seq \in Nat
                BY <1>2, <2>1, <4>1
            <4>3. Follows(h[m + 1], h[m].seq)
                BY <3>3, <3>6, <4>1
            <4>4. h[m + 1].seq > id /\ h[m + 1].seq \in Nat
                BY <3>2, <3>6
            <4>5. Follows(h[m + 1], id)
                BY <4>2, <4>3, <4>4 DEF Follows
            <4> QED BY <3>6, <4>1, <4>5
        <3> QED BY <3>4, <3>5, <3>6
    <2>6. e # <<>> => LastOf(e) = h[n]
        <3> SUFFICES ASSUME e # <<>> PROVE e[Len(e)] = h[n]
            BY DEF LastOf
        <3>1. n - m \in 1 .. n - m /\ m + (n - m) = n
            BY <1>2, <2>1, <2>3, HistoryTypes
        <3> QED BY <2>3, <3>1
    <2>7. EndOf(e, h)
        <3>1. n - m <= n /\ n - (n - m) = m
            BY <1>2, <2>1
        <3> QED BY <2>3, <3>1 DEF EndOf, n
    <2> QED BY <1>4, <1>6, <2>3, <2>5, <2>6, <2>7 DEF h, n
<1> QED BY <1>5, <1>6

-----------------------------------------------------------------------------
(* The frames.                                                               *)

LEMMA NothingSent ==
    ASSUME NEW id
    PROVE  /\ Continued(Closed, id)
           /\ Continued([Closed EXCEPT !.at = "open", !.cursor = id], id)
<1>1. Len(<<>>) = 0 /\ DOMAIN <<>> = {}
    OBVIOUS
<1> QED BY <1>1 DEF Continued, Closed, IdAfter

LEMMA ClosedType == Closed \in Handlers
<1>1. <<>> \in Seq(Events) /\ NoView \in Views
    BY EmptySeq DEF NoView, Views
<1> QED BY <1>1 DEF Closed, Handlers, NoId

\* A reader gets an event that continues what he has.
LEMMA Receipt ==
    ASSUME NEW h \in Handlers, NEW id, Continued(h, id), h.out # <<>>,
           NEW g, g = [h EXCEPT !.out = Tail(@)]
    PROVE  /\ g \in Handlers /\ Head(h.out) \in Events /\ Head(h.out) = h.out[1]
           /\ Follows(Head(h.out), id) /\ Continued(g, Head(h.out).seq)
           /\ Len(g.out) = Len(h.out) - 1
           /\ \A k \in 1 .. Len(h.out) - 1 : g.out[k] = h.out[k + 1]
           /\ \A k \in 0 .. Len(h.out) - 1 :
                IdAfter(g, Head(h.out).seq, k) = IdAfter(h, id, k + 1)
<1> DEFINE n == Len(h.out)
<1>1. h.out \in Seq(Events)
    BY DEF Handlers
<1>2. n \in Nat /\ n >= 1 /\ DOMAIN h.out = 1 .. n
    BY <1>1, HistoryTypes
<1>3. /\ Tail(h.out) \in Seq(Events) /\ Len(Tail(h.out)) = n - 1 /\ Head(h.out) \in Events
      /\ \A k \in 1 .. n - 1 : Tail(h.out)[k] = h.out[k + 1]
    BY <1>1, HeadTailProperties
<1>4. Head(h.out) = h.out[1]
    BY <1>1
<1>5. /\ g \in Handlers /\ g.out = Tail(h.out) /\ g.at = h.at /\ g.cursor = h.cursor
    BY <1>3 DEF Handlers
<1> HIDE DEF n
<1>6. DOMAIN g.out = 1 .. n - 1
    BY <1>3, <1>5, LenProperties
<1>7. Follows(Head(h.out), id)
    <2>1. 1 \in DOMAIN h.out /\ 1 - 1 = 0
        BY <1>2
    <2> QED BY <1>4, <2>1 DEF Continued, IdAfter
<1>8. ASSUME NEW k \in 0 .. n - 1
      PROVE  IdAfter(g, Head(h.out).seq, k) = IdAfter(h, id, k + 1)
    <2>1. CASE k = 0
        BY <1>4, <2>1 DEF IdAfter
    <2>2. CASE k # 0
        <3>1. k \in 1 .. n - 1 /\ k + 1 # 0
            BY <1>2, <2>2
        <3> QED BY <1>3, <1>5, <2>2, <3>1 DEF IdAfter
    <2> QED BY <2>1, <2>2
<1>9. Continued(g, Head(h.out).seq)
    <2>1. ASSUME NEW k \in 1 .. n - 1
          PROVE  Follows(g.out[k], IdAfter(g, Head(h.out).seq, k - 1))
        <3>1. k + 1 \in DOMAIN h.out /\ k - 1 \in 0 .. n - 1 /\ k - 1 + 1 = k /\ k + 1 - 1 = k
            BY <1>2
        <3>2. Follows(h.out[k + 1], IdAfter(h, id, k))
            BY <3>1 DEF Continued
        <3> QED BY <1>3, <1>5, <1>8, <3>1, <3>2
    <2>2. h.cursor = IdAfter(h, id, n) =>
            g.cursor = IdAfter(g, Head(h.out).seq, Len(g.out))
        <3>1. n - 1 \in 0 .. n - 1 /\ n - 1 + 1 = n /\ Len(g.out) = n - 1
            BY <1>2, <1>3, <1>5
        <3> QED BY <1>5, <1>8, <3>1
    <2>3. h.at # "closed"
        BY DEF Continued
    <2> QED BY <1>5, <1>6, <2>1, <2>2, <2>3 DEF Continued, n
<1> QED BY <1>3, <1>4, <1>5, <1>7, <1>8, <1>9 DEF n

\* Events that continue the cursor are written behind the frames that wait.
LEMMA Writing ==
    ASSUME NEW h \in Handlers, NEW id, Continued(h, id), h.at = "observe",
           NEW e \in Seq(Events),
           \A k \in 1 .. Len(e) : Follows(e[k], IF k = 1 THEN h.cursor ELSE e[k - 1].seq),
           NEW g \in Handlers, g.out = h.out \o e, g.at # "closed",
           g.cursor = IF e = <<>> THEN h.cursor ELSE LastOf(e).seq
    PROVE  /\ Continued(g, id)
           /\ Len(g.out) = Len(h.out) + Len(e)
           /\ \A k \in 0 .. Len(h.out) : IdAfter(g, id, k) = IdAfter(h, id, k)
           /\ \A k \in 1 .. Len(e) : IdAfter(g, id, Len(h.out) + k) = e[k].seq
<1> DEFINE m == Len(h.out)  n == Len(e)
<1>1. h.out \in Seq(Events) /\ h.cursor = IdAfter(h, id, m)
    BY DEF Handlers, Continued
<1>2. m \in Nat /\ DOMAIN h.out = 1 .. m /\ n \in Nat /\ (e = <<>> <=> n = 0)
    BY <1>1, HistoryTypes
<1>3. /\ g.out \in Seq(Events) /\ Len(g.out) = m + n
      /\ \A k \in 1 .. m : g.out[k] = h.out[k]
      /\ \A k \in 1 .. n : g.out[m + k] = e[k]
    BY <1>1, Concatenated
<1>4. DOMAIN g.out = 1 .. m + n
    BY <1>3, HistoryTypes
<1> HIDE DEF m, n
<1>5. \A k \in 1 .. m : g.out[k] = h.out[k]
    BY <1>3
<1>6. \A k \in 1 .. n : g.out[m + k] = e[k]
    BY <1>3
<1>7. \A k \in 0 .. m : IdAfter(g, id, k) = IdAfter(h, id, k)
    <2> SUFFICES ASSUME NEW k \in 0 .. m PROVE IdAfter(g, id, k) = IdAfter(h, id, k)
        OBVIOUS
    <2>1. k = 0 \/ k \in 1 .. m
        BY <1>2
    <2> QED BY <1>5, <2>1 DEF IdAfter
<1>8. \A k \in 1 .. n : IdAfter(g, id, m + k) = e[k].seq
    <2> SUFFICES ASSUME NEW k \in 1 .. n PROVE IdAfter(g, id, m + k) = e[k].seq
        OBVIOUS
    <2>1. m + k # 0
        BY <1>2
    <2> QED BY <1>6, <2>1 DEF IdAfter
<1>9. ASSUME NEW k \in 1 .. m + n
      PROVE  Follows(g.out[k], IdAfter(g, id, k - 1))
    <2>1. CASE k \in 1 .. m
        <3>1. k - 1 \in 0 .. m /\ k \in DOMAIN h.out
            BY <1>2, <2>1
        <3>2. Follows(h.out[k], IdAfter(h, id, k - 1))
            BY <3>1 DEF Continued
        <3> QED BY <1>5, <1>7, <2>1, <3>1, <3>2
    <2>2. CASE k = m + 1
        <3>1. 1 \in 1 .. n /\ k - 1 = m /\ m \in 0 .. m
            BY <1>2, <2>2
        <3>2. Follows(e[1], h.cursor)
            BY <3>1 DEF n
        <3>3. g.out[k] = e[1] /\ IdAfter(g, id, k - 1) = h.cursor
            BY <1>1, <1>6, <1>7, <2>2, <3>1
        <3> QED BY <3>2, <3>3
    <2>3. CASE k > m + 1
        <3>1. /\ k - m \in 1 .. n /\ k - m # 1 /\ k - m - 1 \in 1 .. n
              /\ m + (k - m) = k /\ m + (k - m - 1) = k - 1
            BY <1>2, <2>3
        <3>2. Follows(e[k - m], e[k - m - 1].seq)
            BY <3>1 DEF n
        <3>3. g.out[k] = e[k - m] /\ IdAfter(g, id, k - 1) = e[k - m - 1].seq
            <4>1. g.out[m + (k - m)] = e[k - m]
                BY <1>6, <3>1
            <4>2. IdAfter(g, id, m + (k - m - 1)) = e[k - m - 1].seq
                BY <1>8, <3>1
            <4> QED BY <3>1, <4>1, <4>2
        <3> QED BY <3>2, <3>3
    <2>4. k \in 1 .. m \/ k = m + 1 \/ k > m + 1
        <3>1. m \in Nat /\ n \in Nat
            BY <1>2
        <3> QED BY <3>1
    <2> QED BY <2>1, <2>2, <2>3, <2>4
<1>10. g.cursor = IdAfter(g, id, m + n)
    <2>1. CASE n = 0
        <3>1. m + n = m /\ m \in 0 .. m
            BY <1>2, <2>1
        <3> QED BY <1>1, <1>2, <1>7, <2>1, <3>1
    <2>2. CASE n # 0
        <3>1. n \in 1 .. n /\ LastOf(e) = e[n]
            BY <1>2, <2>2 DEF LastOf, n
        <3> QED BY <1>2, <1>8, <2>2, <3>1
    <2> QED BY <2>1, <2>2
<1>11. Continued(g, id)
    BY <1>3, <1>4, <1>9, <1>10 DEF Continued
<1> QED BY <1>3, <1>7, <1>8, <1>11 DEF m, n

\* Events that were read stay at the handler; it may only be finished with them.
LEMMA SameFrames ==
    ASSUME NEW h \in Handlers, NEW id, Continued(h, id),
           h.at \in {"open", "items", "observe"},
           NEW g, g.out = h.out, g.cursor = h.cursor, g.at # "closed"
    PROVE  Continued(g, id)
BY DEF Continued, IdAfter

-----------------------------------------------------------------------------
(* The invariant of the numbers.                                             *)

LEMMA StreamParts ==
    ASSUME StreamInv
    PROVE  /\ LogOK
           /\ store \in [Ops -> Views] /\ conn \in [Clients -> Handlers]
           /\ reader \in [Clients -> [id : Nat, view : Views]]
           /\ evictions \in Nat /\ drops \in Nat /\ restarts \in Nat /\ faults \in Nat
           /\ \A c \in Clients :
                /\ conn[c] \in Handlers /\ Watches[c] \in Ops
                /\ Continued(conn[c], reader[c].id)
                /\ reader[c] \in [id : Nat, view : Views]
<1>1. log \in Seq(Streams) /\ Len(log) <= OperationLimit
    BY DEF StreamInv, TypeOK, Streams
<1>2. LogOK
    BY <1>1, LogIsOK DEF StreamInv, TypeOK
<1>3. /\ store \in [Ops -> Views] /\ conn \in [Clients -> Handlers]
      /\ reader \in [Clients -> [id : Nat, view : Views]]
      /\ evictions \in Nat /\ drops \in Nat /\ restarts \in Nat /\ faults \in Nat
    BY DEF StreamInv, TypeOK
<1> QED BY <1>2, <1>3, StreamOpsAssumption DEF StreamInv, FramesInv

\* The log is part of the invariant as LogOK.
LEMMA NextLog ==
    ASSUME LogOK'
    PROVE  /\ (log \in Seq([op : Ops, next : Nat, history : Seq(Events), last : Views]))'
           /\ (Len(log) <= OperationLimit)'
           /\ (\A k \in DOMAIN log : Len(log[k].history) \in 1 .. HistoryLimit)'
           /\ LogInv'
<1>1. log' \in Seq(Streams) /\ Len(log') <= OperationLimit
    BY DEF LogOK
<1>2. DOMAIN log' = 1 .. Len(log')
    BY <1>1, LenProperties
<1> QED BY <1>1, <1>2 DEF LogOK, LogInv, Kempt, Streams

\* One handler and its reader change, and leave the numbers in order.
LEMMA OneHandler ==
    ASSUME StreamInv, LogOK',
           (store \in [Ops -> Views])',
           (evictions \in Nat /\ drops \in Nat /\ restarts \in Nat /\ faults \in Nat)',
           NEW c \in Clients, NEW h \in Handlers, NEW r \in [id : Nat, view : Views],
           Continued(h, r.id),
           conn' = [conn EXCEPT ![c] = h],
           reader' = [reader EXCEPT ![c] = r]
    PROVE  StreamInv'
<1>1. /\ conn \in [Clients -> Handlers] /\ reader \in [Clients -> [id : Nat, view : Views]]
      /\ \A d \in Clients : Continued(conn[d], reader[d].id)
    BY StreamParts
<1>2. conn' \in [Clients -> Handlers] /\ reader' \in [Clients -> [id : Nat, view : Views]]
    BY <1>1
<1>3. ASSUME NEW d \in Clients
      PROVE  Continued(conn'[d], reader'[d].id)
    <2>1. CASE d = c
        <3>1. conn'[d] = h /\ reader'[d] = r
            BY <1>1, <2>1
        <3> QED BY <3>1
    <2>2. CASE d # c
        <3>1. conn'[d] = conn[d] /\ reader'[d] = reader[d]
            BY <1>1, <2>2
        <3> QED BY <1>1, <3>1
    <2> QED BY <2>1, <2>2
<1>4. FramesInv'
    BY <1>3 DEF FramesInv
<1>5. TypeOK'
    BY <1>2, NextLog DEF TypeOK
<1> QED BY <1>4, <1>5, NextLog DEF StreamInv

\* Only the handler changes.
LEMMA HandlerAlone ==
    ASSUME StreamInv, NEW c \in Clients, NEW h \in Handlers, Continued(h, reader[c].id),
           conn' = [conn EXCEPT ![c] = h], LogOK',
           UNCHANGED <<store, reader>>,
           (evictions \in Nat /\ drops \in Nat /\ restarts \in Nat /\ faults \in Nat)'
    PROVE  StreamInv'
<1>1. /\ reader \in [Clients -> [id : Nat, view : Views]] /\ store \in [Ops -> Views]
      /\ reader[c] \in [id : Nat, view : Views]
    BY StreamParts
<1>2. reader' = [reader EXCEPT ![c] = reader[c]] /\ store' \in [Ops -> Views]
    BY <1>1
<1> QED BY <1>1, <1>2, OneHandler

LEMMA SameLog ==
    ASSUME StreamInv, UNCHANGED log
    PROVE  LogOK'
<1>1. LogOK
    BY StreamParts
<1> QED BY <1>1 DEF LogOK

LEMMA ConnectKeeps ==
    ASSUME StreamInv, NEW c \in Clients, Connect(c)
    PROVE  StreamInv'
<1> DEFINE h == [Closed EXCEPT !.at = "open", !.cursor = reader[c].id]
<1>1. reader[c].id \in Nat
    BY StreamParts
<1>2. h \in Handlers
    BY <1>1, ClosedType DEF Handlers
<1>3. Continued(h, reader[c].id)
    BY NothingSent
<1>4. conn' = [conn EXCEPT ![c] = h]
    BY DEF Connect
<1>5. UNCHANGED <<store, log, reader, spent>>
    BY DEF Connect
<1> HIDE DEF h
<1> QED BY <1>2, <1>3, <1>4, <1>5, StreamParts, SameLog, HandlerAlone DEF spent

LEMMA ReadRowKeeps ==
    ASSUME StreamInv, NEW c \in Clients, ReadRow(c)
    PROVE  StreamInv'
<1> DEFINE v == store[Watches[c]].version
           h == [conn[c] EXCEPT !.at = "items", !.view.version = v]
<1>1. conn[c] \in Handlers /\ conn \in [Clients -> Handlers] /\ v \in Nat
    BY StreamParts DEF Views
<1>2. h \in Handlers /\ h.out = conn[c].out /\ h.cursor = conn[c].cursor /\ h.at = "items"
    BY <1>1 DEF Handlers, Views
<1>3. Continued(h, reader[c].id)
    BY <1>1, <1>2, StreamParts, SameFrames DEF ReadRow
<1>4. conn' = [conn EXCEPT ![c] = h]
    BY <1>1 DEF ReadRow
<1>5. UNCHANGED <<store, log, reader, spent>>
    BY DEF ReadRow
<1> HIDE DEF h
<1> QED BY <1>2, <1>3, <1>4, <1>5, StreamParts, SameLog, HandlerAlone DEF spent

LEMMA ReadItemsKeeps ==
    ASSUME StreamInv, NEW c \in Clients, ReadItems(c)
    PROVE  StreamInv'
<1> DEFINE v == store[Watches[c]].items
           h == [conn[c] EXCEPT !.at = "observe", !.view.items = v]
<1>1. conn[c] \in Handlers /\ conn \in [Clients -> Handlers] /\ v \in [Items -> Nat]
    BY StreamParts DEF Views
<1>2. h \in Handlers /\ h.out = conn[c].out /\ h.cursor = conn[c].cursor
      /\ h.at = "observe"
    BY <1>1 DEF Handlers, Views
<1>3. Continued(h, reader[c].id)
    BY <1>1, <1>2, StreamParts, SameFrames DEF ReadItems
<1>4. conn' = [conn EXCEPT ![c] = h]
    BY <1>1 DEF ReadItems
<1>5. UNCHANGED <<store, log, reader, spent>>
    BY DEF ReadItems
<1> HIDE DEF h
<1> QED BY <1>2, <1>3, <1>4, <1>5, StreamParts, SameLog, HandlerAlone DEF spent

LEMMA ReadFailsKeeps ==
    ASSUME StreamInv, NEW c \in Clients, ReadFails(c)
    PROVE  StreamInv'
<1> DEFINE h == [conn[c] EXCEPT !.at = IF conn[c].started THEN "failed" ELSE "refused"]
<1>1. conn[c] \in Handlers
    BY StreamParts
<1>2. h \in Handlers /\ h.out = conn[c].out /\ h.cursor = conn[c].cursor
      /\ h.at # "closed"
    BY <1>1 DEF Handlers
<1>3. Continued(h, reader[c].id)
    BY <1>1, <1>2, StreamParts, SameFrames DEF ReadFails
<1>4. conn' = [conn EXCEPT ![c] = h]
    BY DEF ReadFails
<1>5. UNCHANGED <<store, log, reader, evictions, drops, restarts>> /\ faults' = faults + 1
    BY DEF ReadFails
<1> HIDE DEF h
<1>6. (evictions \in Nat /\ drops \in Nat /\ restarts \in Nat /\ faults \in Nat)'
    BY <1>5, StreamParts
<1> QED BY <1>2, <1>3, <1>4, <1>5, <1>6, SameLog, HandlerAlone

LEMMA CloseKeeps ==
    ASSUME StreamInv, NEW c \in Clients, StreamEnds(c) \/ Drop(c)
    PROVE  StreamInv'
<1>1. conn' = [conn EXCEPT ![c] = Closed] /\ UNCHANGED <<store, log, reader>>
    BY DEF StreamEnds, Drop
<1>2. (evictions \in Nat /\ drops \in Nat /\ restarts \in Nat /\ faults \in Nat)'
    BY StreamParts DEF StreamEnds, Drop, spent
<1> QED BY <1>1, <1>2, NothingSent, ClosedType, SameLog, HandlerAlone

LEMMA SaveKeeps ==
    ASSUME StreamInv, NEW o \in Ops, SaveOperation(o)
    PROVE  StreamInv' /\ UNCHANGED reader
<1>1. store \in [Ops -> Views]
    BY StreamParts
<1>2. PICK changed \in SUBSET Items :
        store' = [store EXCEPT ![o] =
                    [version |-> @.version + 1,
                     items |-> [i \in Items |-> IF i \in changed THEN @.version + 1
                                                ELSE @.items[i]]]]
    BY DEF SaveOperation
<1> DEFINE v == [version |-> store[o].version + 1,
                 items |-> [i \in Items |-> IF i \in changed THEN store[o].version + 1
                                            ELSE store[o].items[i]]]
<1>3. v \in Views
    BY <1>1 DEF Views
<1>4. store' = [store EXCEPT ![o] = v]
    BY <1>2
<1> HIDE DEF v
<1>5. store' \in [Ops -> Views]
    BY <1>1, <1>3, <1>4
<1>6. UNCHANGED <<log, conn, reader, spent>>
    BY DEF SaveOperation
<1> QED BY <1>5, <1>6 DEF StreamInv, TypeOK, LogInv, FramesInv, spent

LEMMA ToldType ==
    ASSUME NEW view \in Views, NEW event \in Events
    PROVE  Told(view, event) \in Views
BY DEF Told, Views, Events

LEMMA ReceiveKeeps ==
    ASSUME StreamInv, NEW c \in Clients, Receive(c)
    PROVE  StreamInv'
<1> DEFINE h == [conn[c] EXCEPT !.out = Tail(@)]
           event == Head(conn[c].out)
           r == [id |-> event.seq, view |-> Told(reader[c].view, event)]
<1>1. conn[c] \in Handlers /\ Continued(conn[c], reader[c].id) /\ reader[c].view \in Views
    BY StreamParts
<1>2. h \in Handlers /\ event \in Events /\ Continued(h, event.seq)
    BY <1>1, Receipt DEF Receive
<1>3. r \in [id : Nat, view : Views]
    BY <1>1, <1>2, ToldType DEF Events
<1>4. conn' = [conn EXCEPT ![c] = h] /\ reader' = [reader EXCEPT ![c] = r]
    BY DEF Receive
<1>5. UNCHANGED <<store, log, spent>>
    BY DEF Receive
<1>6. r.id = event.seq
    OBVIOUS
<1> HIDE DEF h, r, event
<1> QED BY <1>2, <1>3, <1>4, <1>5, <1>6, StreamParts, SameLog, OneHandler DEF spent

LEMMA RestartKeeps ==
    ASSUME StreamInv, Restart
    PROVE  StreamInv'
<1>1. log' = <<>> /\ UNCHANGED <<store, reader, evictions, drops, faults>>
      /\ restarts' = restarts + 1
      /\ conn' = [c \in Clients |-> IF conn[c].at = "refused" THEN conn[c] ELSE Closed]
    BY DEF Restart
<1>2. LogOK'
    BY <1>1, StreamBoundsAssumption DEF LogOK
<1>3. conn' \in [Clients -> Handlers]
    BY <1>1, ClosedType, StreamParts
<1>4. FramesInv'
    BY <1>1, NothingSent, StreamParts DEF FramesInv
<1>5. TypeOK'
    BY <1>1, <1>2, <1>3, NextLog, StreamParts DEF TypeOK
<1> QED BY <1>2, <1>4, <1>5, NextLog DEF StreamInv

LEMMA KemptNext ==
    ASSUME NEW s, Kempt(s)
    PROVE  /\ s.history # <<>> /\ s.next = LastOf(s.history).seq /\ s.next > 0
           /\ \A k \in 1 .. Len(s.history) : s.history[k].seq <= s.next
<1> PICK n \in Nat : n = Len(s.history)
    BY HistoryTypes DEF Kempt, Streams
<1>1. /\ s.history \in Seq(Events) /\ n >= 1 /\ s.history # <<>> /\ DOMAIN s.history = 1 .. n
      /\ \A k \in 1 .. n : s.history[k].seq \in Nat
    <2>1. s.history \in Seq(Events) /\ n >= 1
        BY StreamBoundsAssumption DEF Kempt, Streams
    <2>2. s.history # <<>>
        BY <2>1
    <2> QED BY <2>1, <2>2, HistoryTypes
<1>2. s.next = s.history[n].seq /\ s.history[1].seq > 0
    BY <1>1 DEF Kempt, Numbered, LastOf
<1>3. \A j, k \in 1 .. n : j < k => s.history[j].seq < s.history[k].seq
    BY <1>1 DEF Kempt, Numbered, Ordered
<1>4. ASSUME NEW k \in 1 .. n
      PROVE  s.history[k].seq <= s.next
    <2>1. n \in 1 .. n /\ (k = n \/ k < n)
        BY <1>1
    <2>2. k = n \/ s.history[k].seq < s.history[n].seq
        BY <1>3, <2>1
    <2> QED BY <1>1, <1>2, <2>1, <2>2
<1>5. s.next > 0
    <2>1. 1 \in 1 .. n /\ s.history[1].seq <= s.next
        BY <1>1, <1>4
    <2>2. s.next \in Nat
        BY DEF Kempt, Streams
    <2> QED BY <1>1, <1>2, <2>1, <2>2
<1> QED BY <1>1, <1>2, <1>4, <1>5 DEF LastOf

\* What Publish writes: events that continue the cursor, from a stream of the view
\* that was read.
Published(c, s, t, e) ==
    /\ s = Current(Watches[c], conn[c].view) /\ Kempt(s) /\ s.op = Watches[c]
    /\ t = Asked(Watches[c], s, conn[c].cursor) /\ Kempt(t) /\ t.op = Watches[c]
    /\ s.last = conn[c].view /\ t.last = conn[c].view
    /\ e = EventsSince(t, t # s, conn[c].cursor) /\ e \in Seq(Events)
    /\ \A k \in 1 .. Len(e) : Follows(e[k], IF k = 1 THEN conn[c].cursor ELSE e[k - 1].seq)
    /\ e # <<>> => LastOf(e) = LastOf(t.history)
    /\ EndOf(e, t.history)
    /\ \/ /\ t = s /\ conn[c].cursor # NoId
          /\ Known(Watches[c]) /\ ~Unreplayable(s.history, conn[c].cursor)
          /\ e = Newer(s.history, conn[c].cursor)
       \/ e # <<>> /\ LastOf(e).kind = "snapshot" /\ LastOf(e).view = t.last
    /\ t = s \/ AddsSnapshot(t, s)
    /\ log' = LogWith(t)
    /\ conn' = [conn EXCEPT ![c] =
                    [at |-> IF Terminal(Watches[c], conn[c].view) THEN "ended" ELSE "open",
                     started |-> TRUE,
                     cursor |-> IF e = <<>> THEN conn[c].cursor ELSE LastOf(e).seq,
                     view |-> conn[c].view, out |-> conn[c].out \o e]]

LEMMA Rewritten ==
    ASSUME NEW h \in Handlers, NEW at \in {"open", "ended"}, NEW cursor \in Nat,
           NEW out \in Seq(Events)
    PROVE  [h EXCEPT !.at = at, !.started = TRUE, !.cursor = cursor, !.out = out]
            = [at |-> at, started |-> TRUE, cursor |-> cursor, view |-> h.view, out |-> out]
<1> DEFINE g == [h EXCEPT !.at = at, !.started = TRUE, !.cursor = cursor, !.out = out]
<1>1. g \in Handlers
    BY DEF Handlers
<1>2. g.at = at /\ g.cursor = cursor /\ g.view = h.view /\ g.out = out
    BY DEF Handlers
<1>3. g.started = TRUE
    BY DEF Handlers
<1> HIDE DEF g
<1>4. g = [at |-> g.at, started |-> g.started, cursor |-> g.cursor, view |-> g.view,
           out |-> g.out]
    BY <1>1 DEF Handlers
<1> QED BY <1>2, <1>3, <1>4 DEF g

LEMMA Publication ==
    ASSUME StreamInv, NEW c \in Clients, Publish(c)
    PROVE  \E s, t, e : Published(c, s, t, e)
<1> DEFINE o == Watches[c]
           v == conn[c].view
           id == conn[c].cursor
           s == Current(o, v)
           t == Asked(o, s, id)
           e == EventsSince(t, t # s, id)
           g == [at |-> IF Terminal(o, v) THEN "ended" ELSE "open", started |-> TRUE,
                 cursor |-> IF e = <<>> THEN id ELSE LastOf(e).seq,
                 view |-> v, out |-> conn[c].out \o e]
<1>1. /\ LogOK /\ o \in Ops /\ conn[c] \in Handlers /\ v \in Views /\ id \in Nat
      /\ conn \in [Clients -> Handlers]
    BY StreamParts DEF Handlers
<1>2. /\ log' = LogWith(t)
      /\ conn' = [conn EXCEPT
                ![c].at = IF Terminal(o, v) THEN "ended" ELSE "open",
                ![c].started = TRUE,
                ![c].cursor = CursorAfter(c, e),
                ![c].out = @ \o e]
    BY DEF Publish
<1> HIDE DEF s, t, e, g
<1>3. /\ Kempt(s) /\ s.op = o /\ s.last = v
      /\ ~Known(o) => LastOf(s.history).kind = "snapshot" /\ LastOf(s.history).view = v
    BY <1>1, CurrentStream DEF s
<1>4. /\ Kempt(t) /\ t.op = s.op /\ t.last = s.last
      /\ \/ /\ t = s
            /\ id = NoId => ~Known(o)
            /\ id # NoId => Known(o) /\ ~Unreplayable(s.history, id)
         \/ AddsSnapshot(t, s) /\ t # s /\ t.next > id
    BY <1>1, <1>3, AskedStream DEF t
<1>5. t # s \/ id = NoId => /\ LastOf(t.history).kind = "snapshot" /\ t.next > id
                            /\ LastOf(t.history).view = t.last
    <2>1. CASE t # s
        BY <1>4, <2>1 DEF AddsSnapshot
    <2>2. CASE t = s /\ id = NoId
        <3>1. ~Known(o) /\ t.next > 0
            BY <1>4, <2>2, KemptNext
        <3> QED BY <1>3, <2>2, <3>1 DEF NoId
    <2> QED BY <2>1, <2>2
<1>6. t = s /\ id # NoId => ~Unreplayable(t.history, id)
    BY <1>4
<1>7. /\ e \in Seq(Events)
      /\ \A k \in 1 .. Len(e) : Follows(e[k], IF k = 1 THEN id ELSE e[k - 1].seq)
      /\ e # <<>> => LastOf(e) = LastOf(t.history)
      /\ EndOf(e, t.history)
      /\ t # s \/ id = NoId => e # <<>>
    <2>1. (t # s) \in BOOLEAN /\ e = EventsSince(t, t # s, id)
        BY DEF e
    <2> QED BY <1>1, <1>4, <1>5, <1>6, <2>1, ReturnedEvents
<1>8. conn' = [conn EXCEPT ![c] = g]
    <2> DEFINE at == IF Terminal(o, v) THEN "ended" ELSE "open"
               cursor == IF e = <<>> THEN id ELSE LastOf(e).seq
               out == conn[c].out \o e
    <2>1. conn' = [conn EXCEPT ![c] = [@ EXCEPT !.at = at, !.started = TRUE,
                                                !.cursor = cursor, !.out = out]]
        BY <1>1, <1>2 DEF CursorAfter
    <2>2. g = [at |-> at, started |-> TRUE, cursor |-> cursor, view |-> conn[c].view,
               out |-> out]
        BY DEF g
    <2>3. out \in Seq(Events) /\ at \in {"open", "ended"} /\ cursor \in Nat
        BY <1>1, <1>7, Concatenated, EventNumbers DEF Handlers
    <2> HIDE DEF at, cursor, out
    <2>4. g = [conn[c] EXCEPT !.at = at, !.started = TRUE, !.cursor = cursor, !.out = out]
        BY <1>1, <2>2, <2>3, Rewritten
    <2> QED BY <2>1, <2>4
<1>9. t = s /\ id # NoId => e = Newer(s.history, id)
    BY DEF e, EventsSince
<1>10. Published(c, s, t, e)
    <2>1. /\ s = Current(o, v) /\ t = Asked(o, s, id) /\ e = EventsSince(t, t # s, id)
        BY DEF s, t, e
    <2>2. \/ t = s /\ id # NoId /\ Known(o) /\ ~Unreplayable(s.history, id)
             /\ e = Newer(s.history, id)
          \/ e # <<>> /\ LastOf(e).kind = "snapshot" /\ LastOf(e).view = t.last
        BY <1>4, <1>5, <1>7, <1>9
    <2> QED BY <1>2, <1>3, <1>4, <1>7, <1>8, <2>1, <2>2 DEF Published, g
<1> QED BY <1>10

LEMMA PublishKeeps ==
    ASSUME StreamInv, NEW c \in Clients, Publish(c)
    PROVE  StreamInv'
<1>1. PICK s, t, e : Published(c, s, t, e)
    BY Publication
<1> DEFINE g == [at |-> IF Terminal(Watches[c], conn[c].view) THEN "ended" ELSE "open",
                 started |-> TRUE,
                 cursor |-> IF e = <<>> THEN conn[c].cursor ELSE LastOf(e).seq,
                 view |-> conn[c].view, out |-> conn[c].out \o e]
<1>2. conn[c] \in Handlers /\ Continued(conn[c], reader[c].id) /\ LogOK
    BY StreamParts
<1>3. e \in Seq(Events) /\ conn[c].out \in Seq(Events) /\ conn[c].view \in Views
      /\ conn[c].cursor \in Nat
    BY <1>1, <1>2 DEF Published, Handlers
<1>4. e # <<>> => LastOf(e).seq \in Nat
    BY <1>3, EventNumbers
<1>5. g \in Handlers
    <2>1. conn[c].out \o e \in Seq(Events)
        BY <1>3, Concatenated
    <2> QED BY <1>3, <1>4, <2>1 DEF Handlers
<1>6. g.out = conn[c].out \o e /\ g.at # "closed"
      /\ g.cursor = IF e = <<>> THEN conn[c].cursor ELSE LastOf(e).seq
    OBVIOUS
<1>7. conn' = [conn EXCEPT ![c] = g]
    BY <1>1 DEF Published
<1> HIDE DEF g
<1>8. Continued(g, reader[c].id)
    <2>1. conn[c].at = "observe"
        BY DEF Publish
    <2>2. \A k \in 1 .. Len(e) :
            Follows(e[k], IF k = 1 THEN conn[c].cursor ELSE e[k - 1].seq)
        BY <1>1 DEF Published
    <2> QED BY <1>2, <1>3, <1>5, <1>6, <2>1, <2>2, Writing
<1>9. LogOK'
    BY <1>1, <1>2, LogKeeps DEF Published
<1>10. UNCHANGED <<store, reader>>
       /\ (evictions \in Nat /\ drops \in Nat /\ restarts \in Nat /\ faults \in Nat)'
    BY StreamParts DEF Publish
<1> QED BY <1>5, <1>7, <1>8, <1>9, <1>10, HandlerAlone

LEMMA StreamInit ==
    ASSUME Init
    PROVE  StreamInv
<1>1. store \in [Ops -> Views]
    BY DEF Init, FirstView, Views
<1>2. log = <<>> /\ log \in Seq(Streams) /\ Len(log) = 0 /\ DOMAIN log = {}
    BY EmptySeq DEF Init
<1>3. conn \in [Clients -> Handlers]
    BY ClosedType DEF Init
<1>4. reader \in [Clients -> [id : Nat, view : Views]]
    BY DEF Init, NoId, NoView, Views
<1>5. TypeOK
    BY <1>1, <1>2, <1>3, <1>4, StreamBoundsAssumption DEF Init, TypeOK, Streams
<1>6. LogInv
    BY <1>2 DEF LogInv
<1>7. FramesInv
    BY NothingSent DEF Init, FramesInv
<1> QED BY <1>5, <1>6, <1>7 DEF StreamInv

LEMMA StreamStutters ==
    ASSUME StreamInv, UNCHANGED vars
    PROVE  StreamInv'
BY DEF StreamInv, TypeOK, LogInv, FramesInv, vars

LEMMA StreamNext ==
    ASSUME StreamInv, [Next]_vars
    PROVE  StreamInv'
<1>1. ASSUME NEW c \in Clients, Serve(c)
      PROVE  StreamInv'
    BY <1>1, ReadRowKeeps, ReadItemsKeeps, PublishKeeps DEF Serve
<1>2. ASSUME NEW c \in Clients, Browse(c)
      PROVE  StreamInv'
    BY <1>2, ConnectKeeps, ReceiveKeeps, CloseKeeps DEF Browse
<1>3. ASSUME NEW c \in Clients, ReadFails(c) \/ Drop(c)
      PROVE  StreamInv'
    BY <1>3, ReadFailsKeeps, CloseKeeps
<1>4. ASSUME NEW o \in Ops, SaveOperation(o)
      PROVE  StreamInv'
    BY <1>4, SaveKeeps
<1>5. CASE Restart
    BY <1>5, RestartKeeps
<1>6. CASE UNCHANGED vars
    BY <1>6, StreamStutters
<1> QED BY <1>1, <1>2, <1>3, <1>4, <1>5, <1>6 DEF Next

\* A reader changes with the first frame that waits, which follows what he has.
LEMMA FrameFollows ==
    ASSUME StreamInv, [Next]_vars, NEW c \in Clients, reader'[c] # reader[c]
    PROVE  /\ Receive(c) /\ reader'[c].id = Head(conn[c].out).seq
           /\ Follows(Head(conn[c].out), reader[c].id)
<1>1. reader \in [Clients -> [id : Nat, view : Views]]
      /\ conn[c] \in Handlers /\ Continued(conn[c], reader[c].id)
    BY StreamParts
<1>2. \E d \in Clients : Receive(d)
    BY DEF Next, Serve, Browse, vars, spent, Connect, ReadRow, ReadItems, ReadFails,
           Publish, SaveOperation, StreamEnds, Drop, Restart
<1>3. Receive(c)
    <2>1. PICK d \in Clients : Receive(d)
        BY <1>2
    <2>2. d # c => reader'[c] = reader[c]
        BY <1>1, <2>1 DEF Receive
    <2> QED BY <2>1, <2>2
<1>4. reader'[c].id = Head(conn[c].out).seq
    BY <1>1, <1>3 DEF Receive
<1>5. Follows(Head(conn[c].out), reader[c].id)
    BY <1>1, <1>3, Receipt DEF Receive
<1> QED BY <1>3, <1>4, <1>5

THEOREM StreamInvariance == Spec => []StreamInv
<1>1. Init => StreamInv
    BY StreamInit
<1>2. StreamInv /\ [Next]_vars => StreamInv'
    BY StreamNext
<1> QED BY <1>1, <1>2, PTL DEF Spec

\* Every variable has the shape the code gives it; the log holds at most operationLimit
\* streams and a stream at most historyLimit events, whatever the handlers do.
THEOREM TypeCorrectness == Spec => []TypeOK
<1>1. StreamInv => TypeOK
    BY DEF StreamInv
<1> QED BY <1>1, StreamInvariance, PTL

\* The sequence a reader sees only grows: across connections, evicted streams and
\* restarts of the process, which loses the counters of the log.
THEOREM SequenceOrder == Spec => SequencesIncrease
<1>1. StreamInv /\ [Next]_vars =>
        [\A c \in Clients : reader'[c] # reader[c] => reader'[c].id > reader[c].id]_vars
    BY FrameFollows DEF Follows
<1> QED BY <1>1, StreamInvariance, PTL DEF Spec, SequencesIncrease

\* Whoever missed an event is told so by a snapshot: an update is only received right
\* after the event before it.
THEOREM NoGaps == Spec => NoGap
<1>1. StreamInv /\ [Next]_vars =>
        [\A c \in Clients : reader'[c] # reader[c] =>
            LET event == Head(conn[c].out)
            IN  event.kind = "snapshot" \/ event.seq = reader[c].id + 1]_vars
    BY FrameFollows DEF Follows
<1> QED BY <1>1, StreamInvariance, PTL DEF Spec, NoGap

-----------------------------------------------------------------------------
(* Frames that bring a view.                                                 *)

LEMMA NoFrames ==
    ASSUME NEW v \in Views, NEW t \in Views
    PROVE  Brings(v, <<>>, t) <=> v = t
<1>1. DOMAIN <<>> = {}
    OBVIOUS
<1>2. Brings(v, <<>>, t) <=> t.version = v.version /\ \A i \in Items : t.items[i] = v.items[i]
    BY <1>1 DEF Brings
<1>3. ASSUME t.version = v.version, \A i \in Items : t.items[i] = v.items[i]
      PROVE  v = t
    <2>1. v.items \in [Items -> Nat] /\ t.items \in [Items -> Nat]
        BY DEF Views
    <2>2. v.items = t.items
        BY <1>3, <2>1
    <2>3. v = [version |-> v.version, items |-> v.items]
          /\ t = [version |-> t.version, items |-> t.items]
        BY DEF Views
    <2> QED BY <1>3, <2>2, <2>3
<1> QED BY <1>2, <1>3

\* A snapshot at the end brings its view, whatever is known before.
LEMMA SnapshotBrings ==
    ASSUME NEW v, NEW f \in Seq(Events), f # <<>>, LastOf(f).kind = "snapshot"
    PROVE  Brings(v, f, LastOf(f).view)
<1> PICK n \in Nat : n = Len(f)
    BY HistoryTypes
<1>1. DOMAIN f = 1 .. n /\ n \in 1 .. n /\ LastOf(f) = f[n]
    BY HistoryTypes DEF LastOf
<1>2. \A i \in Items : Tells(f[n], i)
    BY <1>1 DEF Tells
<1>3. ASSUME NEW i \in Items, NEW k \in 1 .. n, \A l \in 1 .. n : l > k => ~Tells(f[l], i)
      PROVE  k = n
    BY <1>1, <1>2, <1>3
<1> QED BY <1>1, <1>2, <1>3 DEF Brings

\* So do the events for a changed view, to whoever knows the view before.
LEMMA BatchBrings ==
    ASSUME NEW s \in Streams, NEW view \in Views
    PROVE  Brings(s.last, Batch(s, view), view)
<1> DEFINE n == Cardinality(Changed(s.last, view))  e == Batch(s, view)
<1>1. s.last \in Views
    BY DEF Streams
<1>2. /\ n \in Nat
      /\ \A i \in Changed(s.last, view) : \E k \in 1 .. n : Nth(Changed(s.last, view), k) = i
    BY <1>1, ChangedItems
<1>3. /\ e \in Seq(Events) /\ Len(e) = n + 1 /\ DOMAIN e = 1 .. n + 1 /\ e # <<>>
      /\ n + 1 \in 1 .. n + 1
    <2>1. e \in Seq(Events) /\ Len(e) = n + 1 /\ e # <<>>
        BY BatchContinues DEF Continues
    <2> HIDE DEF n, e
    <2> QED BY <1>2, <2>1, HistoryTypes
<1>4. \A k \in 1 .. n + 1 : e[k].view = view
    BY DEF Batch
<1>5. ASSUME NEW i \in Items, \A k \in 1 .. n + 1 : ~Tells(e[k], i)
      PROVE  view.items[i] = s.last.items[i]
    <2> SUFFICES ASSUME i \in Changed(s.last, view)
                 PROVE  FALSE
        BY DEF Changed
    <2>1. PICK k \in 1 .. n : Nth(Changed(s.last, view), k) = i
        BY <1>2
    <2>2. k + 1 \in 1 .. n + 1 /\ k + 1 # 1 /\ k + 1 - 1 = k
        BY <1>2
    <2>3. e[k + 1].kind = "item" /\ e[k + 1].item = i
        BY <2>1, <2>2 DEF Batch
    <2> QED BY <1>5, <2>2, <2>3 DEF Tells
<1> HIDE DEF n, e
<1>6. LastOf(e).view = view
    BY <1>3, <1>4 DEF LastOf
<1> QED BY <1>3, <1>4, <1>5, <1>6 DEF Brings, e

LEMMA BringsOn ==
    ASSUME NEW v, NEW t, NEW u, NEW f \in Seq(Events), NEW g \in Seq(Events),
           Brings(v, f, t), Brings(t, g, u)
    PROVE  Brings(v, f \o g, u)
<1> DEFINE b == f \o g
<1> PICK m \in Nat : m = Len(f)
    BY HistoryTypes
<1> PICK n \in Nat : n = Len(g)
    BY HistoryTypes
<1>1. /\ b \in Seq(Events) /\ Len(b) = m + n
      /\ \A k \in 1 .. m : b[k] = f[k]
      /\ \A k \in 1 .. n : b[m + k] = g[k]
      /\ \A k \in 1 .. m + n : k \in 1 .. m \/ (k - m \in 1 .. n /\ k = m + (k - m))
    BY Concatenated
<1>2. /\ DOMAIN f = 1 .. m /\ DOMAIN g = 1 .. n /\ (f = <<>> <=> m = 0) /\ (g = <<>> <=> n = 0)
      /\ DOMAIN b = 1 .. m + n /\ (b = <<>> <=> m + n = 0)
    BY <1>1, HistoryTypes
<1>3. CASE n = 0
    <2>1. b = f
        BY <1>2, <1>3, ConcatEmptySeq
    <2>2. u.version = t.version /\ \A i \in Items : u.items[i] = t.items[i]
        BY <1>2, <1>3 DEF Brings
    <2> QED BY <2>1, <2>2 DEF Brings
<1>4. CASE n # 0
    <2>1. LastOf(b) = LastOf(g) /\ b # <<>>
        <3>1. n \in 1 .. n /\ m + n # 0
            BY <1>4
        <3> QED BY <1>1, <1>2, <3>1 DEF LastOf
    <2>2. u.version = LastOf(b).view.version
        BY <1>2, <1>4, <2>1 DEF Brings
    <2> HIDE DEF b
    <2>3. ASSUME NEW i \in Items, NEW k \in 1 .. m + n, Tells(b[k], i),
                 \A l \in 1 .. m + n : l > k => ~Tells(b[l], i)
          PROVE  u.items[i] = b[k].view.items[i]
        <3>1. CASE k \in 1 .. m
            <4>1. ASSUME NEW l \in 1 .. n
                  PROVE  ~Tells(g[l], i)
                <5>1. m + l \in 1 .. m + n /\ m + l > k
                    BY <3>1
                <5> QED BY <1>1, <2>3, <5>1
            <4>2. \A l \in 1 .. m : l > k => ~Tells(f[l], i)
                <5>1. \A l \in 1 .. m : l \in 1 .. m + n
                    OBVIOUS
                <5> QED BY <1>1, <2>3, <5>1
            <4>3. u.items[i] = t.items[i]
                BY <1>2, <4>1 DEF Brings
            <4>4. t.items[i] = f[k].view.items[i]
                <5>1. Tells(f[k], i)
                    BY <1>1, <2>3, <3>1
                <5> QED BY <1>2, <3>1, <4>2, <5>1 DEF Brings
            <4> QED BY <1>1, <3>1, <4>3, <4>4
        <3>2. CASE k - m \in 1 .. n /\ k = m + (k - m)
            <4> PICK j \in 1 .. n : j = k - m /\ k = m + j
                BY <3>2
            <4>1. ASSUME NEW l \in 1 .. n, l > j
                  PROVE  ~Tells(g[l], i)
                <5>1. m + l \in 1 .. m + n /\ m + l > k
                    BY <4>1
                <5> QED BY <1>1, <2>3, <5>1
            <4>2. b[k] = g[j]
                BY <1>1
            <4>3. Tells(g[j], i)
                BY <2>3, <4>2
            <4>4. u.items[i] = g[j].view.items[i]
                BY <1>2, <4>1, <4>3 DEF Brings
            <4> QED BY <4>2, <4>4
        <3> QED BY <1>1, <3>1, <3>2
    <2>4. ASSUME NEW i \in Items, \A k \in 1 .. m + n : ~Tells(b[k], i)
          PROVE  u.items[i] = v.items[i]
        <3>1. \A k \in 1 .. m : ~Tells(f[k], i)
            <4>1. \A k \in 1 .. m : k \in 1 .. m + n
                OBVIOUS
            <4> QED BY <1>1, <2>4, <4>1
        <3>2. \A k \in 1 .. n : ~Tells(g[k], i)
            <4>1. \A k \in 1 .. n : m + k \in 1 .. m + n
                OBVIOUS
            <4> QED BY <1>1, <2>4, <4>1
        <3> QED BY <1>2, <3>1, <3>2 DEF Brings
    <2> QED BY <1>2, <2>1, <2>2, <2>3, <2>4 DEF Brings, b
<1> QED BY <1>3, <1>4

\* The first frame is told, the others bring the rest.
LEMMA BringsAfterHead ==
    ASSUME NEW v \in Views, NEW t, NEW f \in Seq(Events), f # <<>>, Brings(v, f, t)
    PROVE  Brings(Told(v, Head(f)), Tail(f), t)
<1> DEFINE g == Tail(f)  w == Told(v, Head(f))
<1> PICK n \in Nat : n = Len(f)
    BY HistoryTypes
<1>1. n >= 1 /\ DOMAIN f = 1 .. n /\ Head(f) = f[1] /\ f[1] \in Events
    BY HistoryTypes
<1>2. /\ g \in Seq(Events) /\ Len(g) = n - 1
      /\ \A k \in 1 .. n - 1 : g[k] = f[k + 1]
    BY HeadTailProperties
<1>3. DOMAIN g = 1 .. n - 1 /\ (g = <<>> <=> n - 1 = 0)
    BY <1>2, HistoryTypes
<1>4. w.version = f[1].view.version
    BY <1>1 DEF Told
<1>5. ASSUME NEW i \in Items
      PROVE  w.items[i] = IF Tells(f[1], i) THEN f[1].view.items[i] ELSE v.items[i]
    <2>1. v.items \in [Items -> Nat]
        BY DEF Views
    <2>2. f[1].kind \in {"snapshot", "operation", "item"}
        BY <1>1 DEF Events
    <2> QED BY <1>1, <2>1, <2>2 DEF Told, Tells
<1> HIDE DEF g, w
<1>6. t.version = IF g = <<>> THEN w.version ELSE LastOf(g).view.version
    <2>1. t.version = f[n].view.version
        BY DEF Brings, LastOf
    <2>2. CASE n = 1
        BY <1>3, <1>4, <2>1, <2>2
    <2>3. CASE n # 1
        <3>1. n - 1 \in 1 .. n - 1 /\ n - 1 + 1 = n /\ n - 1 # 0
            BY <1>1, <2>3
        <3>2. LastOf(g) = f[n]
            BY <1>2, <3>1 DEF LastOf
        <3> QED BY <1>3, <2>1, <3>1, <3>2
    <2> QED BY <2>2, <2>3
<1>7. ASSUME NEW i \in Items, NEW k \in 1 .. n - 1, Tells(g[k], i),
             \A l \in 1 .. n - 1 : l > k => ~Tells(g[l], i)
      PROVE  t.items[i] = g[k].view.items[i]
    <2>1. k + 1 \in 1 .. n /\ g[k] = f[k + 1]
        BY <1>2
    <2>2. ASSUME NEW l \in 1 .. n, l > k + 1
          PROVE  ~Tells(f[l], i)
        <3>1. l - 1 \in 1 .. n - 1 /\ l - 1 > k /\ l - 1 + 1 = l
            BY <2>2
        <3> QED BY <1>2, <1>7, <3>1
    <2> QED BY <1>1, <1>7, <2>1, <2>2 DEF Brings
<1>8. ASSUME NEW i \in Items, \A k \in 1 .. n - 1 : ~Tells(g[k], i)
      PROVE  t.items[i] = w.items[i]
    <2>1. ASSUME NEW l \in 1 .. n, l > 1
          PROVE  ~Tells(f[l], i)
        <3>1. l - 1 \in 1 .. n - 1 /\ l - 1 + 1 = l
            BY <2>1
        <3> QED BY <1>2, <1>8, <3>1
    <2>2. 1 \in 1 .. n /\ \A l \in 1 .. n : l = 1 \/ l > 1
        BY <1>1
    <2>3. CASE Tells(f[1], i)
        BY <1>1, <1>5, <2>1, <2>2, <2>3 DEF Brings
    <2>4. CASE ~Tells(f[1], i)
        <3>1. \A l \in 1 .. n : ~Tells(f[l], i)
            BY <2>1, <2>2, <2>4
        <3> QED BY <1>1, <1>5, <2>4, <3>1 DEF Brings
    <2> QED BY <2>3, <2>4
<1> QED BY <1>3, <1>6, <1>7, <1>8 DEF Brings, g, w

-----------------------------------------------------------------------------
(* What a reader missed.                                                     *)

\* Events that left the history do not matter to a reader who knows them.
LEMMA NewerWhenTrimmed ==
    ASSUME NEW g \in Seq(Events), Ordered(g), g # <<>>, NEW id \in Nat,
           ~(id < Trimmed(g)[1].seq - 1)
    PROVE  /\ Newer(Trimmed(g), id) = Newer(g, id)
           /\ ~(id < g[1].seq - 1)
<1> DEFINE h == Trimmed(g)
<1>1. PICK n \in Nat : n = Len(g)
    BY HistoryTypes
<1>2. PICK d \in Nat : /\ d < n /\ h \in Seq(Events) /\ Len(h) = n - d
                       /\ \A k \in 1 .. n - d : h[k] = g[d + k]
    <2>1. /\ Dropped(g) \in 0 .. Len(g) /\ Dropped(g) < Len(g)
          /\ h \in Seq(Events) /\ Len(h) = Len(g) - Dropped(g)
          /\ \A k \in 1 .. Len(g) - Dropped(g) : h[k] = g[Dropped(g) + k]
        BY TrimmedHistory
    <2> HIDE DEF h
    <2>2. /\ Dropped(g) \in Nat /\ Dropped(g) < n
          /\ h \in Seq(Events) /\ Len(h) = n - Dropped(g)
          /\ \A k \in 1 .. n - Dropped(g) : h[k] = g[Dropped(g) + k]
        BY <1>1, <2>1
    <2> QED BY <2>2
<1>3. ~(id < h[1].seq - 1)
    OBVIOUS
<1> HIDE DEF h
<1>4. \A k \in 1 .. n : g[k].seq \in Nat
    BY <1>1, HistoryTypes
<1>5. \A j, k \in 1 .. n : j < k => g[j].seq < g[k].seq
    BY <1>1, HistoryTypes DEF Ordered
<1>6. PICK p \in 0 .. n : p = Seen(g, id) /\ \A k \in 1 .. n : g[k].seq <= id <=> k <= p
    BY <1>1, SeenCuts
<1>7. h[1] = g[d + 1] /\ d + 1 \in 1 .. n /\ 1 \in 1 .. n
    <2>1. d + 1 \in 1 .. n /\ 1 \in 1 .. n - d /\ 1 \in 1 .. n
        BY <1>2
    <2> QED BY <1>2, <2>1
<1>8. d = 0 \/ (d \in 1 .. n /\ g[d].seq < h[1].seq)
    <2>1. d = 0 \/ (d \in 1 .. n /\ d < d + 1)
        BY <1>2
    <2> QED BY <1>5, <1>7, <2>1
<1>9. d <= p
    <2>1. CASE d = 0
        BY <2>1
    <2>2. CASE d # 0
        <3>1. d \in 1 .. n /\ g[d].seq \in Nat /\ h[1].seq \in Nat /\ g[d].seq < h[1].seq
            BY <1>4, <1>7, <1>8, <2>2
        <3>2. g[d].seq <= id
            BY <1>3, <3>1
        <3> QED BY <1>6, <3>1, <3>2
    <2> QED BY <2>1, <2>2
<1>10. ~(id < g[1].seq - 1)
    <2>1. g[1].seq \in Nat /\ h[1].seq \in Nat
        BY <1>4, <1>7
    <2>2. d + 1 = 1 \/ 1 < d + 1
        OBVIOUS
    <2>3. g[1].seq <= h[1].seq
        BY <1>5, <1>7, <2>1, <2>2
    <2> QED BY <1>3, <2>1, <2>3
<1>11. Ordered(h)
    <2>1. DOMAIN h = 1 .. n - d
        BY <1>2, HistoryTypes
    <2>2. ASSUME NEW j \in 1 .. n - d, NEW k \in 1 .. n - d, j < k
          PROVE  h[j].seq < h[k].seq
        <3>1. d + j \in 1 .. n /\ d + k \in 1 .. n /\ d + j < d + k
            BY <2>2
        <3> QED BY <1>2, <1>5, <3>1
    <2> QED BY <2>1, <2>2 DEF Ordered
<1>12. Seen(h, id) = p - d
    <2>1. p - d \in 0 .. Len(h)
        BY <1>2, <1>9
    <2>2. ASSUME NEW k \in 1 .. Len(h)
          PROVE  h[k].seq <= id <=> k <= p - d
        <3>1. k \in 1 .. n - d /\ d + k \in 1 .. n
            BY <1>2
        <3>2. h[k].seq <= id <=> d + k <= p
            BY <1>2, <1>6, <3>1
        <3> QED BY <3>1, <3>2
    <2> QED BY <1>2, <1>11, <2>1, <2>2, SeenIs
<1>13. /\ Newer(h, id) \in Seq(Events) /\ Len(Newer(h, id)) = n - p
       /\ \A k \in 1 .. n - p : Newer(h, id)[k] = g[p + k]
    <2>1. /\ Newer(h, id) \in Seq(Events)
          /\ Len(Newer(h, id)) = Len(h) - Seen(h, id)
          /\ \A k \in 1 .. Len(h) - Seen(h, id) : Newer(h, id)[k] = h[Seen(h, id) + k]
        BY <1>2, <1>11, NewerEvents
    <2>2. Len(h) - Seen(h, id) = n - p
        BY <1>2, <1>12
    <2>3. ASSUME NEW k \in 1 .. n - p
          PROVE  Newer(h, id)[k] = g[p + k]
        <3>1. p - d + k \in 1 .. n - d /\ d + (p - d + k) = p + k
            BY <1>9
        <3>2. h[p - d + k] = g[p + k]
            BY <1>2, <3>1
        <3> QED BY <1>12, <2>1, <2>2, <3>2
    <2> QED BY <2>1, <2>2, <2>3
<1>14. /\ Newer(g, id) \in Seq(Events) /\ Len(Newer(g, id)) = n - p
       /\ \A k \in 1 .. n - p : Newer(g, id)[k] = g[p + k]
    BY <1>1, <1>6, NewerEvents
<1>15. Newer(h, id) = Newer(g, id)
    <2>1. /\ Len(Newer(h, id)) = Len(Newer(g, id))
          /\ \A k \in 1 .. Len(Newer(h, id)) : Newer(h, id)[k] = Newer(g, id)[k]
        BY <1>13, <1>14
    <2> QED BY <1>13, <1>14, <2>1, SeqEqual
<1> QED BY <1>10, <1>15 DEF h

\* Events with larger numbers are what a reader misses last.
LEMMA NewerWhenContinued ==
    ASSUME NEW q \in Seq(Events), NEW e \in Seq(Events), Ordered(q), Ordered(q \o e),
           NEW id \in Nat, \A k \in 1 .. Len(e) : e[k].seq > id
    PROVE  Newer(q \o e, id) = Newer(q, id) \o e
<1> DEFINE g == q \o e
<1>1. PICK m \in Nat : m = Len(q)
    BY HistoryTypes
<1>2. PICK n \in Nat : n = Len(e)
    BY HistoryTypes
<1>3. /\ g \in Seq(Events) /\ Len(g) = m + n
      /\ \A k \in 1 .. m : g[k] = q[k]
      /\ \A k \in 1 .. n : g[m + k] = e[k]
    BY <1>1, <1>2, Concatenated
<1>4. Ordered(g)
    OBVIOUS
<1> HIDE DEF g
<1>5. PICK p \in 0 .. m : p = Seen(q, id) /\ \A k \in 1 .. m : q[k].seq <= id <=> k <= p
    BY <1>1, SeenCuts
<1>6. \A k \in 1 .. n : ~(e[k].seq <= id)
    <2>1. \A k \in 1 .. n : e[k].seq \in Nat /\ e[k].seq > id
        BY <1>2, HistoryTypes
    <2> QED BY <2>1
<1>7. ASSUME NEW k \in 1 .. m + n
      PROVE  g[k].seq <= id <=> k <= p
    <2>1. CASE k \in 1 .. m
        BY <1>3, <1>5, <2>1
    <2>2. CASE k \notin 1 .. m
        <3>1. k - m \in 1 .. n /\ m + (k - m) = k /\ ~(k <= p)
            BY <2>2
        <3>2. g[k] = e[k - m]
            BY <1>3, <3>1
        <3> QED BY <1>6, <3>1, <3>2
    <2> QED BY <2>1, <2>2
<1>8. Seen(g, id) = p
    <2>1. p \in 0 .. Len(g) /\ \A k \in 1 .. Len(g) : g[k].seq <= id <=> k <= p
        BY <1>3, <1>7
    <2> QED BY <1>3, <1>4, <2>1, SeenIs
<1>9. PICK l \in Nat : l = m - p
    OBVIOUS
<1>10. /\ Newer(g, id) \in Seq(Events) /\ Len(Newer(g, id)) = l + n
       /\ \A k \in 1 .. l + n : Newer(g, id)[k] = g[p + k]
    <2>1. /\ Newer(g, id) \in Seq(Events)
          /\ Len(Newer(g, id)) = Len(g) - Seen(g, id)
          /\ \A k \in 1 .. Len(g) - Seen(g, id) : Newer(g, id)[k] = g[Seen(g, id) + k]
        BY <1>3, <1>4, NewerEvents
    <2>2. Len(g) - Seen(g, id) = l + n
        BY <1>3, <1>8, <1>9
    <2> QED BY <1>8, <2>1, <2>2
<1> DEFINE r == Newer(q, id)
<1>11. /\ r \in Seq(Events) /\ Len(r) = l
       /\ \A k \in 1 .. l : r[k] = q[p + k]
    BY <1>1, <1>5, <1>9, NewerEvents
<1> HIDE DEF r
<1>12. /\ r \o e \in Seq(Events) /\ Len(r \o e) = l + n
       /\ \A k \in 1 .. l : (r \o e)[k] = r[k]
       /\ \A k \in 1 .. n : (r \o e)[l + k] = e[k]
    BY <1>2, <1>11, Concatenated
<1>13. ASSUME NEW k \in 1 .. l + n
       PROVE  g[p + k] = (r \o e)[k]
    <2>1. CASE k \in 1 .. l
        <3>1. p + k \in 1 .. m
            BY <1>9, <2>1
        <3> QED BY <1>3, <1>11, <1>12, <2>1, <3>1
    <2>2. CASE k \notin 1 .. l
        <3>1. k - l \in 1 .. n /\ l + (k - l) = k /\ m + (k - l) = p + k
            BY <1>9, <2>2
        <3>2. g[p + k] = e[k - l] /\ (r \o e)[k] = e[k - l]
            BY <1>3, <1>12, <3>1
        <3> QED BY <3>2
    <2> QED BY <2>1, <2>2
<1>14. Newer(g, id) = r \o e
    <2>1. /\ Len(Newer(g, id)) = Len(r \o e)
          /\ \A k \in 1 .. Len(Newer(g, id)) : Newer(g, id)[k] = (r \o e)[k]
        BY <1>10, <1>12, <1>13
    <2> QED BY <1>10, <1>12, <2>1, SeqEqual
<1> QED BY <1>14 DEF g, r

\* A reader that can be sent what he missed after a stream went on, could be before,
\* and then misses the new events too.
LEMMA NewerOfExtension ==
    ASSUME NEW s \in Streams, Numbered(s), s.history # <<>>,
           NEW e \in Seq(Events), Continues(e, s.next),
           NEW id \in Nat, id <= s.next,
           NEW h, h = Extended(s, e).history, ~(id < h[1].seq - 1)
    PROVE  /\ Newer(h, id) = Newer(s.history, id) \o e
           /\ ~(id < s.history[1].seq - 1)
<1> DEFINE q == s.history  g == q \o e
<1>1. q \in Seq(Events) /\ Ordered(q) /\ 1 \in 1 .. Len(q) /\ s.next \in Nat
    BY HistoryTypes DEF Streams, Numbered
<1>2. /\ g \in Seq(Events) /\ Ordered(g) /\ Len(g) = Len(q) + Len(e)
      /\ \A k \in 1 .. Len(q) : g[k] = q[k]
      /\ \A k \in 1 .. Len(e) : e[k].seq > s.next
    BY Continuation
<1>3. h = Trimmed(g)
    BY DEF Extended, Streams
<1>4. \A k \in 1 .. Len(e) : e[k].seq > id
    <2>1. \A k \in 1 .. Len(e) : e[k].seq \in Nat /\ e[k].seq > s.next
        BY <1>2, HistoryTypes
    <2> QED BY <1>1, <2>1
<1>5. Newer(g, id) = Newer(q, id) \o e
    BY <1>1, <1>2, <1>4, NewerWhenContinued
<1>6. g # <<>> /\ g[1] = q[1]
    <2>1. q # <<>>
        OBVIOUS
    <2>2. g[1] = q[1]
        BY <1>1, <1>2
    <2> QED BY <1>1, <2>1, <2>2, ConcatSimplifications
<1> HIDE DEF g, q
<1>7. Newer(h, id) = Newer(g, id) /\ ~(id < g[1].seq - 1)
    BY <1>2, <1>3, <1>6, NewerWhenTrimmed
<1> QED BY <1>5, <1>6, <1>7 DEF q

\* Frames that are the end of a history, and what follows one of them there.
LEMMA FramesAndRest ==
    ASSUME NEW x \in Seq(Events), NEW e \in Seq(Events), NEW h \in Seq(Events),
           Ordered(h), EndOf(e, h), NEW j \in 1 .. Len(e)
    PROVE  SubSeq(x \o e, 1, Len(x) + j) \o Newer(h, e[j].seq) = x \o e
<1>1. PICK a \in Nat : a = Len(x)
    BY HistoryTypes
<1>2. PICK n \in Nat : n = Len(e)
    BY HistoryTypes
<1>3. PICK m \in Nat : m = Len(h)
    BY HistoryTypes
<1>4. n <= m /\ j \in 1 .. n /\ \A k \in 1 .. n : e[k] = h[m - n + k]
    BY <1>2, <1>3 DEF EndOf
<1>5. DOMAIN h = 1 .. m /\ \A k \in 1 .. m : h[k].seq \in Nat
    BY <1>3, HistoryTypes
<1>6. \A k, l \in 1 .. m : k < l => h[k].seq < h[l].seq
    BY <1>5 DEF Ordered
<1>7. m - n + j \in 1 .. m
    BY <1>4
<1>8. PICK p \in 1 .. m : p = m - n + j
    BY <1>7
<1>9. e[j] = h[p] /\ h[p].seq \in Nat
    BY <1>4, <1>5, <1>8
<1>10. ASSUME NEW k \in 1 .. m
       PROVE  h[k].seq <= h[p].seq <=> k <= p
    <2>1. h[k].seq \in Nat /\ h[p].seq \in Nat
        BY <1>5
    <2>2. CASE k < p
        BY <1>6, <2>1, <2>2
    <2>3. CASE k = p
        BY <2>1, <2>3
    <2>4. CASE p < k
        <3>1. h[p].seq < h[k].seq /\ ~(k <= p)
            BY <1>6, <2>4
        <3> QED BY <2>1, <3>1
    <2> QED BY <2>2, <2>3, <2>4
<1>11. Seen(h, e[j].seq) = p
    <2>1. p \in 0 .. Len(h) /\ \A k \in 1 .. Len(h) : h[k].seq <= e[j].seq <=> k <= p
        BY <1>3, <1>9, <1>10
    <2> QED BY <1>9, <2>1, SeenIs
<1> DEFINE b == x \o e  r == Newer(h, e[j].seq)
<1>12. m - p = n - j
    BY <1>4, <1>8
<1>13. /\ r \in Seq(Events) /\ Len(r) = n - j
       /\ \A k \in 1 .. n - j : r[k] = h[p + k]
    <2>1. /\ r \in Seq(Events)
          /\ Len(r) = Len(h) - Seen(h, e[j].seq)
          /\ \A k \in 1 .. Len(h) - Seen(h, e[j].seq) : r[k] = h[Seen(h, e[j].seq) + k]
        BY <1>9, NewerEvents
    <2>2. Len(h) - Seen(h, e[j].seq) = n - j
        BY <1>3, <1>11, <1>12
    <2> HIDE DEF r
    <2> QED BY <1>11, <2>1, <2>2
<1>14. /\ b \in Seq(Events) /\ Len(b) = a + n
       /\ \A k \in 1 .. n : b[a + k] = e[k]
    BY <1>1, <1>2, Concatenated
<1> HIDE DEF b, r
<1> DEFINE t == SubSeq(b, a + j + 1, a + n)
<1>15. /\ t \in Seq(Events) /\ Len(t) = n - j
       /\ \A k \in 1 .. n - j : t[k] = b[a + (j + k)]
    <2>1. \A k \in 1 .. a + n : b[k] \in Events
        BY <1>14, HistoryTypes
    <2>2. /\ a + j + 1 \in Int /\ a + n \in Int
          /\ \A k \in a + j + 1 .. a + n : b[k] \in Events
        BY <1>4, <2>1
    <2>3. /\ t \in Seq(Events)
          /\ Len(t) = IF a + j + 1 <= a + n THEN a + n - (a + j + 1) + 1 ELSE 0
          /\ \A k \in 1 .. a + n - (a + j + 1) + 1 : t[k] = b[a + j + 1 + k - 1]
        BY <2>2, SubSeqProperties
    <2>4. /\ (IF a + j + 1 <= a + n THEN a + n - (a + j + 1) + 1 ELSE 0) = n - j
          /\ a + n - (a + j + 1) + 1 = n - j
        BY <1>4
    <2>5. \A k \in 1 .. n - j : a + j + 1 + k - 1 = a + (j + k)
        BY <1>4
    <2> HIDE DEF t
    <2> QED BY <2>3, <2>4, <2>5
<1>16. ASSUME NEW k \in 1 .. n - j
       PROVE  r[k] = t[k]
    <2>1. j + k \in 1 .. n /\ m - n + (j + k) = p + k
        BY <1>4, <1>8
    <2>2. b[a + (j + k)] = e[j + k] /\ e[j + k] = h[p + k]
        BY <1>4, <1>14, <2>1
    <2> HIDE DEF t
    <2> QED BY <1>13, <1>15, <2>2
<1>17. r = t
    <2> HIDE DEF t
    <2>1. Len(r) = Len(t) /\ \A k \in 1 .. Len(r) : r[k] = t[k]
        BY <1>13, <1>15, <1>16
    <2> QED BY <1>13, <1>15, <2>1, SeqEqual
<1>18. SubSeq(b, 1, a + j) \o t = SubSeq(b, 1, a + n)
    <2>1. /\ 1 \in 1 .. Len(b) + 1 /\ a + j \in 1 - 1 .. Len(b)
          /\ a + n \in a + j .. Len(b)
        BY <1>4, <1>14
    <2> QED BY <1>14, <2>1, ConcatAdjacentSubSeq
<1>19. SubSeq(b, 1, a + n) = b
    BY <1>14, SubSeqFull
<1> QED BY <1>1, <1>17, <1>18, <1>19 DEF b, r

\* Frames and missed events that brought the view of a stream bring what is observed
\* in it next.
LEMMA ObservedBrings ==
    ASSUME NEW r, Kempt(r), NEW view \in Views, NEW s, s = Observed(r, view),
           NEW id \in Nat, id <= r.next, ~Unreplayable(s.history, id),
           NEW v, NEW x \in Seq(Events),
           ~Unreplayable(r.history, id) => Brings(v, x \o Newer(r.history, id), r.last)
    PROVE  Brings(v, x \o Newer(s.history, id), view)
<1>1. /\ r \in Streams /\ Numbered(r) /\ r.history # <<>> /\ r.next = LastOf(r.history).seq
      /\ r.history \in Seq(Events) /\ Ordered(r.history) /\ r.next \in Nat
    BY KemptNext DEF Kempt, Streams, Numbered
<1>2. CASE view = r.last
    BY <1>2 DEF Observed
<1>3. CASE view # r.last
    <2> DEFINE q == [r EXCEPT !.last = view]  e == Batch(r, view)
    <2>1. /\ q \in Streams /\ Numbered(q) /\ q.next = r.next /\ q.history = r.history
        BY <1>1 DEF Streams, Numbered
    <2>2. e \in Seq(Events) /\ Continues(e, r.next) /\ Brings(r.last, e, view)
        BY <1>1, BatchContinues, BatchBrings
    <2>3. s = Extended(q, e)
        BY <1>3 DEF Observed
    <2> HIDE DEF q, e
    <2>4. ~(id < s.history[1].seq - 1)
        BY DEF Unreplayable
    <2>5. /\ Newer(s.history, id) = Newer(r.history, id) \o e
          /\ ~(id < r.history[1].seq - 1)
        BY <1>1, <2>1, <2>2, <2>3, <2>4, NewerOfExtension
    <2>6. ~Unreplayable(r.history, id)
        BY <1>1, <2>5 DEF Unreplayable
    <2>7. Newer(r.history, id) \in Seq(Events)
        BY <1>1, NewerEvents
    <2>8. Brings(v, (x \o Newer(r.history, id)) \o e, view)
        <3>1. x \o Newer(r.history, id) \in Seq(Events)
            BY <2>7, Concatenated
        <3> QED BY <2>2, <2>6, <3>1, BringsOn
    <2>9. (x \o Newer(r.history, id)) \o e = x \o (Newer(r.history, id) \o e)
        BY <2>2, <2>7, ConcatAssociative
    <2> QED BY <2>5, <2>8, <2>9
<1> QED BY <1>2, <1>3

\* With a snapshot at the end it does not matter what was known before.
LEMMA AskedBrings ==
    ASSUME NEW s, Kempt(s), NEW t, AddsSnapshot(t, s),
           NEW id \in Nat, id <= s.next, ~Unreplayable(t.history, id),
           NEW v, NEW x \in Seq(Events)
    PROVE  Brings(v, x \o Newer(t.history, id), t.last)
<1> DEFINE e == LastOf(t.history)
<1>1. /\ s \in Streams /\ Numbered(s) /\ s.history # <<>>
      /\ s.history \in Seq(Events) /\ Ordered(s.history)
    BY KemptNext DEF Kempt, Streams, Numbered
<1>2. /\ e \in Events /\ e.kind = "snapshot" /\ e.view = t.last
      /\ Continues(<<e>>, s.next) /\ t = Extended(s, <<e>>)
    BY DEF AddsSnapshot
<1>3. ~(id < t.history[1].seq - 1)
    BY DEF Unreplayable
<1> HIDE DEF e
<1>4. <<e>> \in Seq(Events) /\ LastOf(<<e>>) = e
    BY <1>2, OneEvent
<1>5. Newer(t.history, id) = Newer(s.history, id) \o <<e>>
    BY <1>1, <1>2, <1>3, <1>4, NewerOfExtension
<1>6. Newer(s.history, id) \in Seq(Events)
    BY <1>1, NewerEvents
<1> DEFINE y == x \o Newer(s.history, id)
<1>7. y \in Seq(Events) /\ y \o <<e>> = x \o (Newer(s.history, id) \o <<e>>)
    BY <1>4, <1>6, Concatenated, ConcatAssociative
<1> HIDE DEF y
<1>8. y \o <<e>> \in Seq(Events) /\ y \o <<e>> # <<>> /\ LastOf(y \o <<e>>) = e
    <2>1. /\ y \o <<e>> \in Seq(Events) /\ Len(y \o <<e>>) = Len(y) + 1
          /\ (y \o <<e>>)[Len(y) + 1] = e
        <3>1. y \o <<e>> = Append(y, e)
            BY <1>2, <1>7, AppendIsConcat
        <3> QED BY <1>2, <1>7, <3>1, AppendProperties
    <2>2. y \o <<e>> # <<>>
        BY <1>7, <2>1, HistoryTypes
    <2> QED BY <2>1, <2>2 DEF LastOf
<1>9. Brings(v, y \o <<e>>, e.view)
    BY <1>2, <1>8, SnapshotBrings
<1> QED BY <1>2, <1>5, <1>7, <1>9

\* The streams of the other operations stay as they are, unless one is evicted.
LEMMA OtherStreams ==
    ASSUME LogOK, NEW t, Kempt(t), log' = LogWith(t), ~Evicts(t.op), NEW o \in Ops
    PROVE  /\ o = t.op => Known(o)' /\ StreamOf(o)' = t
           /\ o # t.op => /\ Known(o)' <=> Known(o)
                          /\ Known(o) => StreamOf(o)' = StreamOf(o)
<1>1. LogOK'
    BY LogKeeps
<1>2. /\ log' \in Seq(Streams) /\ Len(log') \in 1 .. OperationLimit /\ log'[Len(log')] = t
      /\ \E f \in [1 .. Len(log') - 1 -> 1 .. Len(log)] :
            /\ \A k \in 1 .. Len(log') - 1 : log'[k] = log[f[k]] /\ log[f[k]].op # t.op
            /\ \A j, k \in 1 .. Len(log') - 1 : f[j] = f[k] => j = k
            /\ ~Evicts(t.op) =>
                \A j \in 1 .. Len(log) : log[j].op # t.op =>
                    \E k \in 1 .. Len(log') - 1 : f[k] = j
    BY LogAfterCall
<1>3. PICK n \in Nat : n = Len(log') /\ n >= 1
    BY <1>2, StreamBoundsAssumption
<1>4. PICK f \in [1 .. n - 1 -> 1 .. Len(log)] :
        /\ \A k \in 1 .. n - 1 : log'[k] = log[f[k]] /\ log[f[k]].op # t.op
        /\ \A j \in 1 .. Len(log) : log[j].op # t.op => \E k \in 1 .. n - 1 : f[k] = j
    BY <1>2, <1>3
<1>5. DOMAIN log' = 1 .. n /\ DOMAIN log = 1 .. Len(log) /\ log'[n] = t /\ n \in 1 .. n
    BY <1>2, <1>3, LenProperties DEF LogOK
<1>6. \A j, k \in 1 .. n : log'[j].op = log'[k].op => j = k
    BY <1>1, <1>3 DEF LogOK
<1>7. ASSUME NEW k \in 1 .. n, log'[k].op = o
      PROVE  Known(o)' /\ StreamOf(o)' = log'[k]
    <2>1. Known(o)'
        BY <1>5, <1>7 DEF Known
    <2>2. PlaceOf(o)' \in 1 .. n /\ log'[PlaceOf(o)'].op = o
        BY <1>5, <1>7 DEF PlaceOf
    <2>3. PlaceOf(o)' = k
        BY <1>6, <1>7, <2>2
    <2> QED BY <2>1, <2>3 DEF StreamOf
<1>8. CASE o = t.op
    BY <1>5, <1>7, <1>8
<1>9. CASE o # t.op
    <2>1. ASSUME Known(o)
          PROVE  Known(o)' /\ StreamOf(o)' = StreamOf(o)
        <3>1. /\ PlaceOf(o) \in 1 .. Len(log) /\ StreamOf(o) = log[PlaceOf(o)]
              /\ StreamOf(o).op = o
            BY <2>1, KnownStream
        <3>2. PICK k \in 1 .. n - 1 : f[k] = PlaceOf(o)
            BY <1>4, <1>9, <3>1
        <3>3. k \in 1 .. n /\ log'[k] = StreamOf(o)
            BY <1>3, <1>4, <3>1, <3>2
        <3> QED BY <1>7, <3>1, <3>3
    <2>2. ASSUME Known(o)'
          PROVE  Known(o)
        <3>1. PICK k \in 1 .. n : log'[k].op = o
            BY <1>5, <2>2 DEF Known
        <3>2. k \in 1 .. n - 1
            <4>1. k # n
                BY <1>5, <1>9, <3>1
            <4> QED BY <1>3, <4>1
        <3>3. f[k] \in 1 .. Len(log) /\ log[f[k]].op = o
            BY <1>4, <3>1, <3>2
        <3> QED BY <1>5, <3>3 DEF Known
    <2> QED BY <1>9, <2>1, <2>2
<1> QED BY <1>8, <1>9

-----------------------------------------------------------------------------
(* The invariant of a stream that is kept.                                   *)

\* The first frames of those that wait.
LEMMA FirstFrames ==
    ASSUME NEW f \in Seq(Events), NEW k \in 0 .. Len(f)
    PROVE  /\ SubSeq(f, 1, k) \in Seq(Events) /\ SubSeq(f, 1, 0) = <<>>
           /\ SubSeq(f, 1, Len(f)) = f
           /\ \A e \in Seq(Events) : SubSeq(f \o e, 1, k) = SubSeq(f, 1, k)
<1>1. PICK n \in Nat : n = Len(f)
    BY HistoryTypes
<1>2. k \in 0 .. n /\ \A j \in 1 .. n : f[j] \in Events
    BY <1>1, HistoryTypes
<1>3. SubSeq(f, 1, k) \in Seq(Events)
    <2>1. 1 \in Int /\ k \in Int /\ \A j \in 1 .. k : f[j] \in Events
        BY <1>2
    <2> QED BY <2>1, SubSeqProperties
<1>4. SubSeq(f, 1, 0) = <<>>
    BY SubSeqEmpty
<1>5. SubSeq(f, 1, Len(f)) = f
    BY SubSeqFull
<1>6. ASSUME NEW e \in Seq(Events)
      PROVE  SubSeq(f \o e, 1, k) = SubSeq(f, 1, k)
    <2>1. CASE k = 0
        <3>1. SubSeq(f \o e, 1, 0) = <<>>
            BY SubSeqEmpty
        <3> QED BY <1>4, <2>1, <3>1
    <2>2. CASE k # 0
        <3>1. 1 \in 1 .. Len(f) /\ k \in 1 .. Len(f)
            BY <1>1, <1>2, <2>2
        <3> QED BY <3>1, SubSeqOfConcat1
    <2> QED BY <2>1, <2>2
<1> QED BY <1>3, <1>4, <1>5, <1>6

LEMMA LastOfConcat ==
    ASSUME NEW f \in Seq(Events), NEW e \in Seq(Events), e # <<>>
    PROVE  f \o e \in Seq(Events) /\ f \o e # <<>> /\ LastOf(f \o e) = LastOf(e)
<1>1. PICK m \in Nat : m = Len(f)
    BY HistoryTypes
<1>2. PICK n \in Nat : n = Len(e) /\ n \in 1 .. n
    BY HistoryTypes
<1>3. /\ f \o e \in Seq(Events) /\ Len(f \o e) = m + n
      /\ \A k \in 1 .. n : (f \o e)[m + k] = e[k]
    BY <1>1, <1>2, Concatenated
<1>4. f \o e # <<>>
    BY ConcatSimplifications
<1> QED BY <1>2, <1>3, <1>4 DEF LastOf

LEMMA PrefixLength ==
    ASSUME NEW f \in Seq(Events), NEW k \in 0 .. Len(f)
    PROVE  /\ Len(SubSeq(f, 1, k)) = k
           /\ \A j \in 1 .. k : SubSeq(f, 1, k)[j] = f[j]
<1>1. PICK n \in Nat : n = Len(f)
    BY HistoryTypes
<1>2. k \in 0 .. n /\ \A j \in 1 .. n : f[j] \in Events
    BY <1>1, HistoryTypes
<1>3. 1 \in Int /\ k \in Int /\ \A j \in 1 .. k : f[j] \in Events
    BY <1>2
<1>4. /\ Len(SubSeq(f, 1, k)) = IF 1 <= k THEN k - 1 + 1 ELSE 0
      /\ \A j \in 1 .. k - 1 + 1 : SubSeq(f, 1, k)[j] = f[1 + j - 1]
    BY <1>3, SubSeqProperties
<1>5. /\ (IF 1 <= k THEN k - 1 + 1 ELSE 0) = k /\ k - 1 + 1 = k
      /\ \A j \in 1 .. k : 1 + j - 1 = j
    BY <1>2
<1> QED BY <1>4, <1>5

\* Whoever got a frame waits for one frame less.
LEMMA TailPrefix ==
    ASSUME NEW f \in Seq(Events), f # <<>>, NEW k \in 0 .. Len(f) - 1
    PROVE  SubSeq(f, 2, k + 1) = SubSeq(Tail(f), 1, k)
<1>1. PICK n \in Nat : n = Len(f) /\ n >= 1
    BY HistoryTypes
<1>2. k \in 0 .. n - 1 /\ \A j \in 1 .. n : f[j] \in Events
    BY <1>1, HistoryTypes
<1>3. /\ Tail(f) \in Seq(Events) /\ Len(Tail(f)) = n - 1
      /\ \A j \in 1 .. n - 1 : Tail(f)[j] = f[j + 1]
    BY <1>1, HeadTailProperties
<1>4. /\ SubSeq(Tail(f), 1, k) \in Seq(Events) /\ Len(SubSeq(Tail(f), 1, k)) = k
      /\ \A j \in 1 .. k : SubSeq(Tail(f), 1, k)[j] = Tail(f)[j]
    BY <1>2, <1>3, FirstFrames, PrefixLength
<1>5. /\ SubSeq(f, 2, k + 1) \in Seq(Events)
      /\ Len(SubSeq(f, 2, k + 1)) = k
      /\ \A j \in 1 .. k : SubSeq(f, 2, k + 1)[j] = f[j + 1]
    <2>1. 2 \in Int /\ k + 1 \in Int /\ \A j \in 2 .. k + 1 : f[j] \in Events
        BY <1>2
    <2>2. /\ SubSeq(f, 2, k + 1) \in Seq(Events)
          /\ Len(SubSeq(f, 2, k + 1)) = IF 2 <= k + 1 THEN k + 1 - 2 + 1 ELSE 0
          /\ \A j \in 1 .. k + 1 - 2 + 1 : SubSeq(f, 2, k + 1)[j] = f[2 + j - 1]
        BY <2>1, SubSeqProperties
    <2>3. /\ (IF 2 <= k + 1 THEN k + 1 - 2 + 1 ELSE 0) = k /\ k + 1 - 2 + 1 = k
          /\ \A j \in 1 .. k : 2 + j - 1 = j + 1
        BY <1>2
    <2> QED BY <2>2, <2>3
<1>6. /\ Len(SubSeq(f, 2, k + 1)) = Len(SubSeq(Tail(f), 1, k))
      /\ \A j \in 1 .. Len(SubSeq(f, 2, k + 1)) :
            SubSeq(f, 2, k + 1)[j] = SubSeq(Tail(f), 1, k)[j]
    <2>1. \A j \in 1 .. k : j \in 1 .. n - 1
        BY <1>2
    <2> QED BY <1>3, <1>4, <1>5, <2>1
<1> QED BY <1>4, <1>5, <1>6, SeqEqual

LEMMA TailOfConcat ==
    ASSUME NEW f \in Seq(Events), f # <<>>, NEW x \in Seq(Events)
    PROVE  /\ f \o x \in Seq(Events) /\ f \o x # <<>>
           /\ Head(f \o x) = Head(f) /\ Tail(f \o x) = Tail(f) \o x
<1>1. PICK n \in Nat : n = Len(f) /\ n >= 1
    BY HistoryTypes
<1>2. PICK m \in Nat : m = Len(x)
    BY HistoryTypes
<1> DEFINE b == f \o x
<1>3. /\ b \in Seq(Events) /\ Len(b) = n + m
      /\ \A k \in 1 .. n : b[k] = f[k]
      /\ \A k \in 1 .. m : b[n + k] = x[k]
    BY <1>1, <1>2, Concatenated
<1>4. b # <<>>
    BY <1>1, ConcatSimplifications
<1> HIDE DEF b
<1>5. Head(b) = Head(f)
    <2>1. Head(b) = b[1] /\ Head(f) = f[1] /\ 1 \in 1 .. n
        BY <1>1, <1>3
    <2> QED BY <1>3, <2>1
<1>6. /\ Tail(b) \in Seq(Events) /\ Len(Tail(b)) = n + m - 1
      /\ \A k \in 1 .. n + m - 1 : Tail(b)[k] = b[k + 1]
    BY <1>3, <1>4, HeadTailProperties
<1>7. PICK l \in Nat : l = n - 1 /\ l + m = n + m - 1
    BY <1>1
<1>8. /\ Tail(f) \in Seq(Events) /\ Len(Tail(f)) = l
      /\ \A k \in 1 .. l : Tail(f)[k] = f[k + 1]
    BY <1>1, <1>7, HeadTailProperties
<1>9. /\ Tail(f) \o x \in Seq(Events) /\ Len(Tail(f) \o x) = l + m
      /\ \A k \in 1 .. l : (Tail(f) \o x)[k] = Tail(f)[k]
      /\ \A k \in 1 .. m : (Tail(f) \o x)[l + k] = x[k]
    BY <1>2, <1>8, Concatenated
<1>10. ASSUME NEW k \in 1 .. l + m
      PROVE  b[k + 1] = (Tail(f) \o x)[k]
    <2>1. CASE k \in 1 .. l
        <3>1. k + 1 \in 1 .. n
            BY <1>7, <2>1
        <3> QED BY <1>3, <1>8, <1>9, <2>1, <3>1
    <2>2. CASE k \notin 1 .. l
        <3>1. k + 1 - n \in 1 .. m /\ n + (k + 1 - n) = k + 1 /\ l + (k + 1 - n) = k
            BY <1>7, <2>2
        <3>2. b[k + 1] = x[k + 1 - n] /\ (Tail(f) \o x)[k] = x[k + 1 - n]
            BY <1>3, <1>9, <3>1
        <3> QED BY <3>2
    <2> QED BY <2>1, <2>2
<1>11. Tail(b) = Tail(f) \o x
    <2>1. /\ Len(Tail(b)) = Len(Tail(f) \o x)
          /\ \A k \in 1 .. Len(Tail(b)) : Tail(b)[k] = (Tail(f) \o x)[k]
        BY <1>6, <1>9, <1>10, <1>7
    <2> QED BY <1>6, <1>9, <2>1, SeqEqual
<1> QED BY <1>3, <1>4, <1>5, <1>11 DEF b

LEMMA CatchesUpNext ==
    ASSUME NEW c \in Clients, NEW k, NEW i, NEW s, i = IdAfter(conn'[c], reader'[c].id, k),
           s = StreamOf(Watches[c])',
           i # NoId => Known(Watches[c])' /\ i <= s.next,
           i # NoId /\ Known(Watches[c])' /\ ~Unreplayable(s.history, i) =>
                Brings(reader'[c].view, SubSeq(conn'[c].out, 1, k) \o Newer(s.history, i),
                       s.last)
    PROVE  CatchesUp(c, k)'
BY DEF CatchesUp, Replayable, IdAfter, StreamOf

\* Neither the log nor a reader changes, and a handler only moves on or is closed.
LEMMA QuietKept ==
    ASSUME StreamInv, StreamInv', KeptInv,
           UNCHANGED <<log, reader, evictions, restarts>>,
           \A c \in Clients :
                /\ conn'[c].out = conn[c].out \/ conn'[c].out = <<>>
                /\ conn'[c].started /\ conn'[c].at \in {"open", "ended"} =>
                        /\ conn'[c].out = conn[c].out /\ conn'[c].view = conn[c].view
                        /\ conn[c].started /\ conn[c].at \in {"open", "ended"}
    PROVE  KeptInv'
<1> SUFFICES ASSUME Kept, NEW c \in Clients
             PROVE  /\ \A k \in 0 .. Len(conn'[c].out) : CatchesUp(c, k)'
                    /\ conn'[c].started /\ conn'[c].at \in {"open", "ended"} =>
                            Brings(reader'[c].view, conn'[c].out, conn'[c].view)
    BY DEF KeptInv, Kept
<1>1. /\ \A k \in 0 .. Len(conn[c].out) : CatchesUp(c, k)
      /\ conn[c].started /\ conn[c].at \in {"open", "ended"} =>
                Brings(reader[c].view, conn[c].out, conn[c].view)
    BY DEF KeptInv
<1>2. conn[c].out \in Seq(Events) /\ Len(conn[c].out) \in Nat
    BY StreamParts, HistoryTypes DEF Handlers
<1>3. ASSUME NEW k \in 0 .. Len(conn'[c].out)
      PROVE  CatchesUp(c, k)'
    <2>1. CASE conn'[c].out = conn[c].out
        BY <1>1, <2>1 DEF CatchesUp, IdAfter, Replayable, Known, StreamOf, PlaceOf
    <2>2. CASE conn'[c].out = <<>>
        <3>1. k = 0 /\ 0 \in 0 .. Len(conn[c].out)
            BY <1>2, <2>2
        <3>2. CatchesUp(c, 0)
            BY <1>1, <3>1
        <3>3. SubSeq(conn[c].out, 1, 0) = <<>> /\ SubSeq(conn'[c].out, 1, 0) = <<>>
            BY SubSeqEmpty
        <3> QED BY <3>1, <3>2, <3>3
                DEF CatchesUp, IdAfter, Replayable, Known, StreamOf, PlaceOf
    <2> QED BY <2>1, <2>2
<1> QED BY <1>1, <1>3

LEMMA HandlerStepsKept ==
    ASSUME StreamInv, StreamInv', KeptInv, NEW c \in Clients,
           Connect(c) \/ ReadRow(c) \/ ReadItems(c) \/ ReadFails(c)
            \/ StreamEnds(c) \/ Drop(c)
    PROVE  KeptInv'
<1>1. conn \in [Clients -> Handlers]
    BY StreamParts
<1>2. UNCHANGED <<log, reader, evictions, restarts>>
    BY DEF Connect, ReadRow, ReadItems, ReadFails, StreamEnds, Drop, spent
<1>3. ASSUME NEW d \in Clients, d # c
      PROVE  conn'[d] = conn[d]
    BY <1>1, <1>3 DEF Connect, ReadRow, ReadItems, ReadFails, StreamEnds, Drop
<1>4. \/ conn'[c].out = conn[c].out /\ conn'[c].at \in {"items", "observe", "failed", "refused"}
      \/ conn'[c].out = <<>> /\ ~conn'[c].started
    <2>1. conn[c] \in Handlers
        BY <1>1
    <2>2. CASE Connect(c)
        BY <1>1, <2>2 DEF Connect, Closed
    <2>3. CASE ReadRow(c)
        BY <1>1, <2>1, <2>3 DEF ReadRow, Handlers
    <2>4. CASE ReadItems(c)
        BY <1>1, <2>1, <2>4 DEF ReadItems, Handlers
    <2>5. CASE ReadFails(c)
        BY <1>1, <2>1, <2>5 DEF ReadFails, Handlers
    <2>6. CASE StreamEnds(c) \/ Drop(c)
        BY <1>1, <2>6 DEF StreamEnds, Drop, Closed
    <2> QED BY <2>2, <2>3, <2>4, <2>5, <2>6
<1>5. ASSUME NEW d \in Clients
      PROVE  /\ conn'[d].out = conn[d].out \/ conn'[d].out = <<>>
             /\ conn'[d].started /\ conn'[d].at \in {"open", "ended"} =>
                    /\ conn'[d].out = conn[d].out /\ conn'[d].view = conn[d].view
                    /\ conn[d].started /\ conn[d].at \in {"open", "ended"}
    <2>1. CASE d = c
        BY <1>4, <2>1
    <2>2. CASE d # c
        <3>1. conn'[d] = conn[d]
            BY <1>3, <2>2
        <3> QED BY <3>1
    <2> QED BY <2>1, <2>2
<1> QED BY <1>2, <1>5, QuietKept

\* A frame moves from those that wait to what the reader knows.
LEMMA ReceiveKept ==
    ASSUME StreamInv, KeptInv, NEW c \in Clients, Receive(c)
    PROVE  KeptInv'
<1> DEFINE h == conn[c]  g == conn'[c]  id == reader[c].id  event == Head(h.out)
<1>1. /\ conn \in [Clients -> Handlers] /\ reader \in [Clients -> [id : Nat, view : Views]]
      /\ h \in Handlers /\ Continued(h, id) /\ reader[c].view \in Views
    BY StreamParts
<1>2. /\ h.out # <<>> /\ UNCHANGED <<log, evictions, restarts>>
      /\ g = [h EXCEPT !.out = Tail(@)]
      /\ reader'[c] = [id |-> event.seq, view |-> Told(reader[c].view, event)]
      /\ \A d \in Clients : d # c => conn'[d] = conn[d] /\ reader'[d] = reader[d]
    BY <1>1 DEF Receive, spent
<1>3. h.out \in Seq(Events)
    BY <1>1 DEF Handlers
<1>4. PICK n \in Nat : n = Len(h.out) /\ n >= 1
    <2>1. h.out # <<>>
        BY <1>2
    <2> QED BY <1>3, <2>1, HistoryTypes
<1>5. /\ g.out = Tail(h.out) /\ g.at = h.at /\ g.started = h.started /\ g.view = h.view
      /\ Len(g.out) = n - 1 /\ g.out \in Seq(Events)
      /\ \A k \in 0 .. n - 1 : IdAfter(g, event.seq, k) = IdAfter(h, id, k + 1)
    <2>1. /\ g \in Handlers /\ Len(g.out) = n - 1
          /\ \A k \in 0 .. n - 1 : IdAfter(g, event.seq, k) = IdAfter(h, id, k + 1)
        BY <1>1, <1>2, <1>4, Receipt
    <2>2. g.out = Tail(h.out) /\ g.at = h.at /\ g.started = h.started /\ g.view = h.view
        BY <1>1, <1>2 DEF Handlers
    <2> QED BY <2>1, <2>2 DEF Handlers
<1>6. /\ reader'[c].id = event.seq /\ reader'[c].view = Told(reader[c].view, event)
      /\ event = h.out[1]
    BY <1>2, <1>3
<1> SUFFICES ASSUME Kept, NEW d \in Clients
             PROVE  /\ \A k \in 0 .. Len(conn'[d].out) : CatchesUp(d, k)'
                    /\ conn'[d].started /\ conn'[d].at \in {"open", "ended"} =>
                            Brings(reader'[d].view, conn'[d].out, conn'[d].view)
    BY <1>2 DEF KeptInv, Kept
<1>7. /\ \A k \in 0 .. Len(conn[d].out) : CatchesUp(d, k)
      /\ conn[d].started /\ conn[d].at \in {"open", "ended"} =>
                Brings(reader[d].view, conn[d].out, conn[d].view)
    BY DEF KeptInv
<1>8. CASE d # c
    <2>1. conn'[d] = conn[d] /\ reader'[d] = reader[d]
        BY <1>2, <1>8
    <2>2. \A k \in 0 .. Len(conn[d].out) : CatchesUp(d, k)'
        BY <1>2, <1>7, <2>1 DEF CatchesUp, IdAfter, Replayable, Known, StreamOf, PlaceOf
    <2> QED BY <1>7, <2>1, <2>2
<1>9. CASE d = c
    <2> DEFINE o == Watches[c]
    <2>1. ASSUME NEW k \in 0 .. n - 1
          PROVE  CatchesUp(c, k)'
        <3>1. PICK i : i = IdAfter(h, id, k + 1)
            OBVIOUS
        <3> DEFINE f == SubSeq(h.out, 1, k + 1)
                   x == Newer(StreamOf(o).history, i)
        <3>2. k + 1 \in 0 .. n /\ k + 1 \in 1 .. n /\ 1 \in 1 .. n
            BY <1>4
        <3>3. CatchesUp(c, k + 1)
            BY <1>4, <1>7, <1>9, <3>2
        <3>4. /\ i # NoId => Known(o) /\ i <= StreamOf(o).next
              /\ Replayable(o, i) => Brings(reader[c].view, f \o x, StreamOf(o).last)
            BY <3>3, <3>1 DEF CatchesUp
        <3>5. IdAfter(conn'[c], reader'[c].id, k) = i
            BY <1>5, <1>6, <3>1
        <3>6. i \in Nat
            BY <1>3, <1>4, <3>2, <3>1, HistoryTypes DEF IdAfter
        <3>7. ASSUME Replayable(o, i)
              PROVE  Brings(reader'[c].view, SubSeq(g.out, 1, k) \o x, StreamOf(o).last)
            <4>1. StreamOf(o).history \in Seq(Events) /\ Ordered(StreamOf(o).history)
                BY <3>7, StreamParts, KnownStream DEF Replayable, Kempt, Streams, Numbered
            <4>2. x \in Seq(Events) /\ f \in Seq(Events)
                BY <1>3, <1>4, <3>2, <3>6, <4>1, NewerEvents, FirstFrames
            <4>3. Head(f) = event /\ Tail(f) = SubSeq(h.out, 2, k + 1) /\ Len(f) = k + 1
                <5>1. Head(f) = h.out[1] /\ Tail(f) = SubSeq(h.out, 1 + 1, k + 1)
                    <6>1. 1 \in 1 .. Len(h.out) /\ k + 1 \in 1 .. Len(h.out)
                        BY <1>4, <3>2
                    <6> QED BY <1>3, <6>1, HeadTailOfSubSeq
                <5>2. Len(f) = k + 1
                    BY <1>3, <1>4, <3>2, PrefixLength DEF f
                <5> QED BY <1>6, <5>1, <5>2
            <4>4. Tail(f) = SubSeq(g.out, 1, k)
                BY <1>2, <1>3, <1>4, <1>5, <4>3, TailPrefix
            <4> HIDE DEF f, x
            <4>5. /\ f \o x \in Seq(Events) /\ f \o x # <<>>
                  /\ Head(f \o x) = Head(f) /\ Tail(f \o x) = Tail(f) \o x
                <5>1. f # <<>>
                    BY <4>2, <4>3, HistoryTypes
                <5> QED BY <4>2, <5>1, TailOfConcat
            <4>6. Brings(Told(reader[c].view, event), Tail(f) \o x, StreamOf(o).last)
                BY <1>1, <3>4, <3>7, <4>3, <4>5, BringsAfterHead
            <4> QED BY <1>6, <4>4, <4>6
        <3>8. /\ Known(o)' <=> Known(o)
              /\ StreamOf(o)' = StreamOf(o)
              /\ Replayable(o, i)' <=> Replayable(o, i)
            <4>1. log' = log
                BY <1>2
            <4> QED BY <4>1 DEF Known, StreamOf, PlaceOf, Replayable
        <3> PICK r : r = StreamOf(o)
            OBVIOUS
        <3>9. i # NoId => Known(o)' /\ i <= r.next
            BY <3>4, <3>8
        <3>10. i # NoId /\ Known(o)' /\ ~Unreplayable(r.history, i) =>
                Brings(reader'[c].view, SubSeq(conn'[c].out, 1, k) \o Newer(r.history, i),
                       r.last)
            BY <3>7, <3>8 DEF Replayable
        <3>11. StreamOf(o)' = r
            BY <3>8
        <3> QED BY <3>5, <3>9, <3>10, <3>11, CatchesUpNext
    <2>2. ASSUME g.started /\ g.at \in {"open", "ended"}
          PROVE  Brings(reader'[c].view, g.out, g.view)
        <3>1. Brings(reader[c].view, h.out, h.view)
            BY <1>5, <1>7, <1>9, <2>2
        <3> QED BY <1>1, <1>2, <1>3, <1>5, <1>6, <3>1, BringsAfterHead
    <2> QED BY <1>5, <1>9, <2>1, <2>2
<1> QED BY <1>8, <1>9

\* What a handler has written when EventsSince has answered.
LEMMA WrittenHandler ==
    ASSUME StreamInv, NEW c \in Clients, Publish(c), NEW s, NEW t, NEW e,
           Published(c, s, t, e)
    PROVE  /\ conn[c].out \in Seq(Events) /\ conn[c].view \in Views /\ conn[c].cursor \in Nat
           /\ conn[c].cursor = IdAfter(conn[c], reader[c].id, Len(conn[c].out))
           /\ conn'[c].out = conn[c].out \o e /\ conn'[c].view = conn[c].view
           /\ conn'[c].at \in {"open", "ended"}
           /\ Len(conn'[c].out) = Len(conn[c].out) + Len(e)
           /\ \A k \in 0 .. Len(conn[c].out) :
                IdAfter(conn'[c], reader[c].id, k) = IdAfter(conn[c], reader[c].id, k)
           /\ \A k \in 1 .. Len(e) :
                IdAfter(conn'[c], reader[c].id, Len(conn[c].out) + k) = e[k].seq
           /\ \A d \in Clients : d # c => conn'[d] = conn[d]
<1> DEFINE h == conn[c]  g == conn'[c]
<1>1. /\ conn \in [Clients -> Handlers] /\ h \in Handlers /\ Continued(h, reader[c].id)
      /\ h.at = "observe"
    BY StreamParts DEF Publish
<1>2. StreamInv'
    BY PublishKeeps
<1>3. g \in Handlers
    BY <1>2 DEF StreamInv, TypeOK
<1>4. conn' = [conn EXCEPT ![c] =
                [at |-> IF Terminal(Watches[c], conn[c].view) THEN "ended" ELSE "open",
                 started |-> TRUE,
                 cursor |-> IF e = <<>> THEN conn[c].cursor ELSE LastOf(e).seq,
                 view |-> conn[c].view, out |-> conn[c].out \o e]]
    BY DEF Published
<1>5. /\ g.at \in {"open", "ended"} /\ g.at # "closed" /\ g.out = h.out \o e
      /\ g.view = h.view /\ g.cursor = IF e = <<>> THEN h.cursor ELSE LastOf(e).seq
      /\ \A d \in Clients : d # c => conn'[d] = conn[d]
    BY <1>1, <1>4
<1>6. /\ e \in Seq(Events)
      /\ \A k \in 1 .. Len(e) : Follows(e[k], IF k = 1 THEN h.cursor ELSE e[k - 1].seq)
    BY DEF Published
<1>7. /\ Len(g.out) = Len(h.out) + Len(e)
      /\ \A k \in 0 .. Len(h.out) : IdAfter(g, reader[c].id, k) = IdAfter(h, reader[c].id, k)
      /\ \A k \in 1 .. Len(e) : IdAfter(g, reader[c].id, Len(h.out) + k) = e[k].seq
    BY <1>1, <1>3, <1>5, <1>6, Writing
<1>8. h.cursor = IdAfter(h, reader[c].id, Len(h.out))
    BY <1>1 DEF Continued
<1> QED BY <1>1, <1>5, <1>7, <1>8 DEF Handlers

\* With all the frames that then wait the reader has the view that was observed.
LEMMA PublishBrings ==
    ASSUME StreamInv, KeptInv, Kept, NEW c \in Clients, Publish(c), NEW s, NEW t, NEW e,
           Published(c, s, t, e)
    PROVE  Brings(reader[c].view, conn[c].out \o e, conn[c].view)
<1> DEFINE o == Watches[c]  x == conn[c].out  id == conn[c].cursor  v == reader[c].view
<1>1. /\ x \in Seq(Events) /\ conn[c].view \in Views /\ id \in Nat
      /\ id = IdAfter(conn[c], reader[c].id, Len(x))
    BY WrittenHandler
<1>2. /\ e \in Seq(Events) /\ t.last = conn[c].view /\ s = Current(o, conn[c].view)
      /\ \/ t = s /\ id # NoId /\ Known(o) /\ ~Unreplayable(s.history, id)
              /\ e = Newer(s.history, id)
         \/ e # <<>> /\ LastOf(e).kind = "snapshot" /\ LastOf(e).view = t.last
    BY DEF Published
<1>3. CASE e # <<>> /\ LastOf(e).kind = "snapshot" /\ LastOf(e).view = t.last
    <2>1. x \o e \in Seq(Events) /\ x \o e # <<>> /\ LastOf(x \o e) = LastOf(e)
        BY <1>1, <1>2, <1>3, LastOfConcat
    <2> QED BY <1>2, <1>3, <2>1, SnapshotBrings
<1>4. CASE id # NoId /\ Known(o) /\ ~Unreplayable(s.history, id) /\ e = Newer(s.history, id)
    <2> PICK r : r = StreamOf(o)
        OBVIOUS
    <2>1. Kempt(r)
        BY <1>4, StreamParts, KnownStream
    <2>2. s = Observed(r, conn[c].view)
        BY <1>2, <1>4 DEF Current
    <2>3. CatchesUp(c, Len(x))
        <3>1. Len(x) \in 0 .. Len(x)
            BY <1>1, HistoryTypes
        <3> QED BY <3>1 DEF KeptInv
    <2>4. /\ id <= r.next
          /\ Replayable(o, id) => Brings(v, SubSeq(x, 1, Len(x)) \o Newer(r.history, id), r.last)
        BY <1>1, <1>4, <2>3 DEF CatchesUp
    <2>5. SubSeq(x, 1, Len(x)) = x
        BY <1>1, SubSeqFull
    <2>6. ~Unreplayable(r.history, id) => Brings(v, x \o Newer(r.history, id), r.last)
        BY <1>4, <2>4, <2>5 DEF Replayable
    <2> QED BY <1>1, <1>4, <2>1, <2>2, <2>4, <2>6, ObservedBrings
<1> QED BY <1>2, <1>3, <1>4

\* A connection that would have caught up before still does.
LEMMA StillCatchesUp ==
    ASSUME StreamInv, NEW c \in Clients, Publish(c), NEW s, NEW t, NEW e,
           Published(c, s, t, e), ~Evicts(Watches[c]),
           NEW d \in Clients, NEW k, CatchesUp(d, k),
           NEW i \in Nat, i = IdAfter(conn[d], reader[d].id, k),
           NEW x \in Seq(Events), x = SubSeq(conn[d].out, 1, k),
           IdAfter(conn'[d], reader'[d].id, k) = i, SubSeq(conn'[d].out, 1, k) = x
    PROVE  CatchesUp(d, k)'
<1> DEFINE o == Watches[c]  p == Watches[d]
<1>1. LogOK /\ o \in Ops /\ p \in Ops /\ conn[c] \in Handlers /\ reader' = reader
    BY StreamParts DEF Publish
<1>2. /\ s = Current(o, conn[c].view) /\ Kempt(s) /\ s.last = conn[c].view
      /\ Kempt(t) /\ t.op = o /\ t.last = conn[c].view
      /\ t = s \/ AddsSnapshot(t, s)
      /\ log' = LogWith(t) /\ conn[c].view \in Views
    BY <1>1 DEF Published, Handlers
<1>3. /\ p = o => Known(p)' /\ StreamOf(p)' = t
      /\ p # o => /\ Known(p)' <=> Known(p)
                  /\ Known(p) => StreamOf(p)' = StreamOf(p)
    BY <1>1, <1>2, OtherStreams
<1>4. /\ i # NoId => Known(p) /\ i <= StreamOf(p).next
      /\ Replayable(p, i) => Brings(reader[d].view, x \o Newer(StreamOf(p).history, i),
                                    StreamOf(p).last)
    BY DEF CatchesUp
<1>5. CASE i = NoId
    <2> PICK r : r = StreamOf(p)'
        OBVIOUS
    <2> QED BY <1>5, CatchesUpNext
<1>6. CASE i # NoId
    <2> PICK r : r = StreamOf(p)
        OBVIOUS
    <2>1. Known(p) /\ i <= r.next /\ Kempt(r) /\ r.next \in Nat
        BY <1>1, <1>4, <1>6, KnownStream DEF Kempt, Streams
    <2>2. ~Unreplayable(r.history, i) =>
            Brings(reader[d].view, x \o Newer(r.history, i), r.last)
        BY <1>4, <1>6, <2>1 DEF Replayable
    <2>3. CASE p # o
        <3>1. Known(p)' /\ StreamOf(p)' = r
            BY <1>3, <2>1, <2>3
        <3> QED BY <1>1, <2>1, <2>2, <3>1, CatchesUpNext
    <2>4. CASE p = o
        <3>1. Known(p)' /\ StreamOf(p)' = t
            BY <1>3, <2>4
        <3>2. s = Observed(r, conn[c].view) /\ s.next >= r.next /\ s.next \in Nat
            <4>1. s.next \in Nat
                BY <1>2 DEF Kempt, Streams
            <4> QED BY <1>1, <1>2, <2>1, <2>4, <4>1, CurrentStream DEF Current
        <3>3. i <= s.next /\ i <= t.next
            <4>1. i <= s.next
                BY <2>1, <3>2
            <4>2. t = s \/ t.next > s.next
                BY <1>2 DEF AddsSnapshot
            <4>3. t.next \in Nat
                BY <1>2 DEF Kempt, Streams
            <4> QED BY <3>2, <4>1, <4>2, <4>3
        <3>4. ASSUME ~Unreplayable(t.history, i)
              PROVE  Brings(reader[d].view, x \o Newer(t.history, i), t.last)
            <4>1. CASE t = s
                BY <1>2, <2>1, <2>2, <3>2, <3>4, <4>1, ObservedBrings
            <4>2. CASE AddsSnapshot(t, s)
                BY <1>2, <3>3, <3>4, <4>2, AskedBrings
            <4> QED BY <1>2, <4>1, <4>2
        <3> QED BY <1>1, <3>1, <3>3, <3>4, CatchesUpNext
    <2> QED BY <2>3, <2>4
<1> QED BY <1>5, <1>6

LEMMA PublishKept ==
    ASSUME StreamInv, KeptInv, NEW c \in Clients, Publish(c)
    PROVE  KeptInv'
<1> SUFFICES ASSUME Kept', NEW d \in Clients
             PROVE  /\ \A k \in 0 .. Len(conn'[d].out) : CatchesUp(d, k)'
                    /\ conn'[d].started /\ conn'[d].at \in {"open", "ended"} =>
                            Brings(reader'[d].view, conn'[d].out, conn'[d].view)
    BY DEF KeptInv
<1>1. Kept /\ ~Evicts(Watches[c]) /\ reader' = reader
    BY StreamParts DEF Publish, Kept
<1>2. PICK s, t, e : Published(c, s, t, e)
    BY Publication
<1>3. /\ \A k \in 0 .. Len(conn[d].out) : CatchesUp(d, k)
      /\ conn[d].started /\ conn[d].at \in {"open", "ended"} =>
                Brings(reader[d].view, conn[d].out, conn[d].view)
    BY <1>1 DEF KeptInv
<1>4. ASSUME NEW k \in 0 .. Len(conn[d].out),
             IdAfter(conn'[d], reader[d].id, k) = IdAfter(conn[d], reader[d].id, k),
             SubSeq(conn'[d].out, 1, k) = SubSeq(conn[d].out, 1, k)
      PROVE  CatchesUp(d, k)'
    <2>1. conn[d].out \in Seq(Events) /\ reader[d].id \in Nat
        BY StreamParts DEF Handlers
    <2> PICK x : x = SubSeq(conn[d].out, 1, k)
        OBVIOUS
    <2> PICK i : i = IdAfter(conn[d], reader[d].id, k)
        OBVIOUS
    <2>2. x \in Seq(Events)
        BY <2>1, FirstFrames
    <2>3. i \in Nat
        <3>1. k = 0 \/ k \in 1 .. Len(conn[d].out)
            BY <2>1, HistoryTypes
        <3> QED BY <2>1, <3>1, HistoryTypes DEF IdAfter
    <2>4. CatchesUp(d, k)
        BY <1>3
    <2>5. IdAfter(conn'[d], reader'[d].id, k) = i /\ SubSeq(conn'[d].out, 1, k) = x
        BY <1>1, <1>4
    <2> QED BY <1>1, <1>2, <2>2, <2>3, <2>4, <2>5, StillCatchesUp
<1>5. CASE d # c
    <2>1. conn'[d] = conn[d]
        BY <1>2, <1>5, WrittenHandler
    <2>2. \A k \in 0 .. Len(conn'[d].out) : CatchesUp(d, k)'
        BY <1>4, <2>1
    <2> QED BY <1>1, <1>3, <2>1, <2>2
<1>6. CASE d = c
    <2> PICK x : x = conn[c].out
        OBVIOUS
    <2>1. PICK m \in Nat : m = Len(x)
        BY <1>2, WrittenHandler, HistoryTypes
    <2>2. PICK n \in Nat : n = Len(e) /\ e \in Seq(Events)
        BY <1>2, HistoryTypes DEF Published
    <2>3. /\ x \in Seq(Events) /\ conn'[c].out = x \o e /\ conn'[c].view = conn[c].view
          /\ Len(conn'[c].out) = m + n
          /\ \A k \in 0 .. m :
                IdAfter(conn'[c], reader[c].id, k) = IdAfter(conn[c], reader[c].id, k)
          /\ \A k \in 1 .. n : IdAfter(conn'[c], reader[c].id, m + k) = e[k].seq
        BY <1>2, <2>1, <2>2, WrittenHandler
    <2>4. Brings(reader[c].view, x \o e, conn[c].view)
        BY <1>1, <1>2, PublishBrings
    <2>5. ASSUME NEW k \in 0 .. m
          PROVE  CatchesUp(c, k)'
        <3>1. SubSeq(x \o e, 1, k) = SubSeq(x, 1, k)
            BY <2>1, <2>2, <2>3, FirstFrames
        <3> QED BY <1>4, <1>6, <2>1, <2>3, <3>1
    <2>6. ASSUME NEW j \in 1 .. n
          PROVE  CatchesUp(c, m + j)'
        <3>1. /\ Kempt(t) /\ t.op = Watches[c] /\ t.last = conn[c].view
              /\ EndOf(e, t.history) /\ log' = LogWith(t)
            BY <1>2 DEF Published
        <3>2. /\ t.history \in Seq(Events) /\ Ordered(t.history) /\ t.next \in Nat
              /\ \A k \in 1 .. Len(t.history) : t.history[k].seq <= t.next
            BY <3>1, KemptNext DEF Kempt, Streams, Numbered
        <3>3. e[j].seq <= t.next
            <4>1. PICK l \in Nat : l = Len(t.history)
                BY <3>2, HistoryTypes
            <4>2. n <= l /\ e[j] = t.history[l - n + j]
                BY <2>2, <3>1, <4>1 DEF EndOf
            <4>3. l - n + j \in 1 .. l
                BY <4>2
            <4> QED BY <3>2, <4>1, <4>2, <4>3
        <3>4. Known(Watches[c])' /\ StreamOf(Watches[c])' = t
            BY <1>1, <3>1, StreamParts, OtherStreams
        <3>5. SubSeq(x \o e, 1, m + j) \o Newer(t.history, e[j].seq) = x \o e
            BY <2>1, <2>2, <2>3, <3>1, <3>2, FramesAndRest
        <3>6. IdAfter(conn'[c], reader'[c].id, m + j) = e[j].seq
            BY <1>1, <2>3
        <3> PICK i : i = e[j].seq
            OBVIOUS
        <3>7. Brings(reader'[c].view, SubSeq(conn'[c].out, 1, m + j) \o Newer(t.history, i),
                     t.last)
            BY <1>1, <2>3, <2>4, <3>1, <3>5
        <3> QED BY <3>3, <3>4, <3>6, <3>7, CatchesUpNext
    <2>7. ASSUME NEW k \in 0 .. m + n
          PROVE  CatchesUp(c, k)'
        <3>1. k \in 0 .. m \/ (k - m \in 1 .. n /\ k = m + (k - m))
            OBVIOUS
        <3> QED BY <2>5, <2>6, <3>1
    <2> QED BY <1>1, <1>6, <2>3, <2>4, <2>7
<1> QED BY <1>5, <1>6

LEMMA KeptNext ==
    ASSUME StreamInv, KeptInv, [Next]_vars
    PROVE  KeptInv'
<1>1. StreamInv'
    BY StreamNext
<1>2. ASSUME NEW c \in Clients, Serve(c) \/ Browse(c) \/ ReadFails(c) \/ Drop(c)
      PROVE  KeptInv'
    BY <1>1, <1>2, HandlerStepsKept, ReceiveKept, PublishKept DEF Serve, Browse
<1>3. ASSUME NEW o \in Ops, SaveOperation(o)
      PROVE  KeptInv'
    <2>1. UNCHANGED <<log, conn, reader, evictions, restarts>>
        BY <1>3 DEF SaveOperation, spent
    <2> QED BY <1>1, <2>1, QuietKept
<1>4. CASE Restart
    <2>1. ~Kept'
        BY <1>4, StreamParts DEF Restart, Kept
    <2> QED BY <2>1 DEF KeptInv
<1>5. CASE UNCHANGED vars
    <2>1. UNCHANGED <<log, conn, reader, evictions, restarts>>
        BY <1>5 DEF vars
    <2> QED BY <1>1, <2>1, QuietKept
<1> QED BY <1>2, <1>3, <1>4, <1>5 DEF Next

LEMMA KeptInit ==
    ASSUME Init
    PROVE  KeptInv
<1> SUFFICES ASSUME NEW c \in Clients
             PROVE  /\ \A k \in 0 .. Len(conn[c].out) : CatchesUp(c, k)
                    /\ ~conn[c].started
    BY DEF KeptInv
<1>1. conn[c].out = <<>> /\ ~conn[c].started /\ reader[c].id = NoId
    BY DEF Init, Closed
<1>2. ASSUME NEW k \in 0 .. Len(conn[c].out)
      PROVE  CatchesUp(c, k)
    <2>1. k = 0
        BY <1>1
    <2> QED BY <1>1, <2>1 DEF CatchesUp, IdAfter, Replayable
<1> QED BY <1>1, <1>2

\* While the stream of an operation is kept, a reader who has every frame written to him
\* has exactly the view that his handler observed last: however the reads of several
\* handlers are ordered, and wherever his earlier connections broke.
THEOREM ReadersAreCurrent == Spec => []ReaderIsCurrent
<1>1. Init => StreamInv /\ KeptInv
    BY StreamInit, KeptInit
<1>2. StreamInv /\ KeptInv /\ [Next]_vars => StreamInv' /\ KeptInv'
    BY StreamNext, KeptNext
<1>3. StreamInv /\ KeptInv => ReaderIsCurrent
    <2> SUFFICES ASSUME StreamInv, KeptInv, Kept, NEW c \in Clients, conn[c].started,
                        conn[c].at \in {"open", "ended"}, conn[c].out = <<>>
                 PROVE  reader[c].view = conn[c].view
        BY DEF ReaderIsCurrent
    <2>1. Brings(reader[c].view, <<>>, conn[c].view)
        BY DEF KeptInv
    <2> QED BY <2>1, StreamParts, NoFrames DEF Handlers
<1> QED BY <1>1, <1>2, <1>3, PTL DEF Spec

-----------------------------------------------------------------------------
(* What the handlers read.                                                   *)

\* One handler changes, and what is known of it stays true.
LEMMA TruthfulAlone ==
    ASSUME StreamInv, ReadInv, NEW c \in Clients, NEW h \in Handlers,
           conn' = [conn EXCEPT ![c] = h], UNCHANGED store,
           Truthful(Watches[c], h, store[Watches[c]])
    PROVE  ReadInv'
<1>1. conn \in [Clients -> Handlers]
    BY StreamParts
<1>2. \A d \in Clients : conn'[d] = IF d = c THEN h ELSE conn[d]
    BY <1>1
<1>3. \A d \in Clients : Truthful(Watches[d], conn[d], store[Watches[d]])
    BY DEF ReadInv
<1>4. \A d \in Clients : Truthful(Watches[d], conn'[d], store[Watches[d]])
    BY <1>2, <1>3
<1>5. ASSUME NEW d \in Clients
      PROVE  Truthful(Watches[d], conn[d], store[Watches[d]])'
    <2>1. Truthful(Watches[d], conn'[d], store'[Watches[d]])
        BY <1>4
    <2> QED BY <2>1 DEF Truthful, Terminal
<1>6. (\A o \in Ops : store[o].version <= Final[o])'
    BY DEF ReadInv
<1> QED BY <1>5, <1>6 DEF ReadInv

\* A handler that neither reads nor has ended.
LEMMA IdleTruthful ==
    ASSUME NEW o, NEW h, NEW v, h.at \notin {"items", "observe", "ended"}
    PROVE  Truthful(o, h, v)
BY DEF Truthful

LEMMA ReadRowReads ==
    ASSUME StreamInv, ReadInv, NEW c \in Clients, ReadRow(c)
    PROVE  ReadInv'
<1> DEFINE o == Watches[c]
           h == [conn[c] EXCEPT !.at = "items", !.view.version = store[o].version]
<1>1. conn[c] \in Handlers /\ conn \in [Clients -> Handlers] /\ store[o].version \in Nat
    BY StreamParts DEF Views
<1>2. h \in Handlers /\ h.at = "items" /\ h.view.version = store[o].version
    BY <1>1 DEF Handlers, Views
<1>3. conn' = [conn EXCEPT ![c] = h] /\ UNCHANGED store
    BY <1>1 DEF ReadRow
<1> HIDE DEF h
<1>4. Truthful(o, h, store[o])
    BY <1>2 DEF Truthful, Terminal
<1> QED BY <1>2, <1>3, <1>4, TruthfulAlone

LEMMA ReadItemsReads ==
    ASSUME StreamInv, ReadInv, NEW c \in Clients, ReadItems(c)
    PROVE  ReadInv'
<1> DEFINE o == Watches[c]
           h == [conn[c] EXCEPT !.at = "observe", !.view.items = store[o].items]
<1>1. /\ conn[c] \in Handlers /\ conn \in [Clients -> Handlers] /\ store[o] \in Views
      /\ conn[c].at = "items"
    BY StreamParts DEF ReadItems
<1>2. h \in Handlers /\ h.at = "observe"
      /\ h.view.version = conn[c].view.version /\ h.view.items = store[o].items
    BY <1>1 DEF Handlers, Views
<1>3. conn' = [conn EXCEPT ![c] = h] /\ UNCHANGED store
    BY <1>1 DEF ReadItems
<1> HIDE DEF h
<1>4. Truthful(o, conn[c], store[o])
    BY DEF ReadInv
<1>5. Terminal(o, h.view) => h.view = store[o]
    <2> SUFFICES ASSUME Terminal(o, h.view) PROVE h.view = store[o]
        OBVIOUS
    <2>1. Terminal(o, conn[c].view)
        BY <1>2 DEF Terminal
    <2>2. Terminal(o, store[o])
        BY <1>1, <1>4, <2>1 DEF Truthful
    <2>3. h.view.version = store[o].version
        BY <2>2 DEF Terminal
    <2>4. h.view \in Views
        BY <1>2 DEF Handlers
    <2> QED BY <1>1, <1>2, <2>3, <2>4 DEF Views
<1>6. Truthful(o, h, store[o])
    BY <1>2, <1>5 DEF Truthful
<1> QED BY <1>2, <1>3, <1>6, TruthfulAlone

LEMMA PublishReads ==
    ASSUME StreamInv, ReadInv, NEW c \in Clients, Publish(c)
    PROVE  ReadInv'
<1> DEFINE o == Watches[c]
<1>1. PICK s, t, e : Published(c, s, t, e)
    BY Publication
<1>2. StreamInv' /\ UNCHANGED store
    BY PublishKeeps DEF Publish
<1> PICK h : h = conn'[c]
    OBVIOUS
<1>3. h \in Handlers
    BY <1>2 DEF StreamInv, TypeOK
<1>4. conn[c] \in Handlers /\ conn \in [Clients -> Handlers] /\ conn[c].at = "observe"
    BY StreamParts DEF Publish
<1>5. /\ h.at = IF Terminal(o, conn[c].view) THEN "ended" ELSE "open"
      /\ h.started = TRUE /\ h.view = conn[c].view
      /\ conn' = [conn EXCEPT ![c] = h]
    BY <1>1, <1>4 DEF Published
<1>6. Truthful(o, conn[c], store[o])
    BY DEF ReadInv
<1>7. Truthful(o, h, store[o])
    <2>1. CASE Terminal(o, conn[c].view)
        BY <1>4, <1>5, <1>6, <2>1 DEF Truthful
    <2>2. CASE ~Terminal(o, conn[c].view)
        BY <1>5, <2>2, IdleTruthful
    <2> QED BY <2>1, <2>2
<1> QED BY <1>2, <1>3, <1>5, <1>7, TruthfulAlone

\* A finished operation is not saved, so what was read of it stays true.
LEMMA SaveReads ==
    ASSUME StreamInv, ReadInv, NEW o \in Ops, SaveOperation(o)
    PROVE  ReadInv'
<1>1. store \in [Ops -> Views] /\ UNCHANGED conn
    BY StreamParts DEF SaveOperation
<1>2. /\ store[o].version \in Nat /\ Final[o] \in Nat /\ store[o].version < Final[o]
      /\ store'[o].version = store[o].version + 1
      /\ \A p \in Ops : p # o => store'[p] = store[p]
    BY <1>1, StreamOpsAssumption DEF SaveOperation, Views
<1>3. ASSUME NEW p \in Ops
      PROVE  store'[p].version <= Final[p]
    <2>1. CASE p = o
        BY <1>2, <2>1
    <2>2. CASE p # o
        BY <1>2, <2>2 DEF ReadInv
    <2> QED BY <2>1, <2>2
<1>4. ASSUME NEW c \in Clients
      PROVE  Truthful(Watches[c], conn'[c], store'[Watches[c]])
    <2>1. Truthful(Watches[c], conn[c], store[Watches[c]]) /\ Watches[c] \in Ops
        BY StreamParts DEF ReadInv
    <2>2. CASE Watches[c] # o
        <3>1. store'[Watches[c]] = store[Watches[c]]
            BY <1>2, <2>1, <2>2
        <3> QED BY <1>1, <2>1, <3>1
    <2>3. CASE Watches[c] = o
        <3>1. ~Terminal(o, store[o])
            BY <1>2 DEF Terminal
        <3>2. conn[c].at \in {"items", "observe", "ended"} => ~Terminal(o, conn[c].view)
            BY <2>1, <2>3, <3>1 DEF Truthful
        <3>3. conn[c].at # "ended"
            BY <2>1, <2>3, <3>2 DEF Truthful
        <3> QED BY <1>1, <2>3, <3>2, <3>3 DEF Truthful
    <2> QED BY <2>2, <2>3
<1>5. ASSUME NEW c \in Clients
      PROVE  Truthful(Watches[c], conn[c], store[Watches[c]])'
    BY <1>4 DEF Truthful, Terminal
<1> QED BY <1>3, <1>5 DEF ReadInv

\* The other steps of a handler leave it idle, or do not change what it has read.
LEMMA OthersRead ==
    ASSUME StreamInv, ReadInv, NEW c \in Clients,
           Connect(c) \/ Receive(c) \/ ReadFails(c) \/ StreamEnds(c) \/ Drop(c)
    PROVE  ReadInv'
<1>1. conn[c] \in Handlers /\ conn \in [Clients -> Handlers] /\ reader[c].id \in Nat
    BY StreamParts
<1>2. CASE Connect(c)
    <2> DEFINE h == [Closed EXCEPT !.at = "open", !.cursor = reader[c].id]
    <2>1. h \in Handlers /\ h.at = "open"
        BY <1>1, ClosedType DEF Handlers
    <2>2. conn' = [conn EXCEPT ![c] = h] /\ UNCHANGED store
        BY <1>2 DEF Connect
    <2> HIDE DEF h
    <2>3. Truthful(Watches[c], h, store[Watches[c]])
        BY <2>1, IdleTruthful
    <2> QED BY <2>1, <2>2, <2>3, TruthfulAlone
<1>3. CASE Receive(c)
    <2> DEFINE h == [conn[c] EXCEPT !.out = Tail(@)]
    <2>1. conn' = [conn EXCEPT ![c] = h] /\ UNCHANGED store
        BY <1>3 DEF Receive
    <2>2. h \in Handlers
        BY <1>1, <1>3, StreamParts, Receipt DEF Receive
    <2>3. h.at = conn[c].at /\ h.started = conn[c].started /\ h.view = conn[c].view
        BY <1>1 DEF Handlers
    <2> HIDE DEF h
    <2>4. Truthful(Watches[c], conn[c], store[Watches[c]])
        BY DEF ReadInv
    <2>5. Truthful(Watches[c], h, store[Watches[c]])
        BY <2>3, <2>4 DEF Truthful
    <2> QED BY <2>1, <2>2, <2>5, TruthfulAlone
<1>4. CASE ReadFails(c)
    <2> DEFINE h == [conn[c] EXCEPT !.at = IF conn[c].started THEN "failed" ELSE "refused"]
    <2>1. h \in Handlers /\ h.at \notin {"items", "observe", "ended"}
        BY <1>1 DEF Handlers
    <2>2. conn' = [conn EXCEPT ![c] = h] /\ UNCHANGED store
        BY <1>4 DEF ReadFails
    <2> HIDE DEF h
    <2>3. Truthful(Watches[c], h, store[Watches[c]])
        BY <2>1, IdleTruthful
    <2> QED BY <2>1, <2>2, <2>3, TruthfulAlone
<1>5. CASE StreamEnds(c) \/ Drop(c)
    <2>1. conn' = [conn EXCEPT ![c] = Closed] /\ UNCHANGED store
        BY <1>5 DEF StreamEnds, Drop
    <2>2. Truthful(Watches[c], Closed, store[Watches[c]])
        BY IdleTruthful DEF Closed
    <2> QED BY <2>1, <2>2, ClosedType, TruthfulAlone
<1> QED BY <1>2, <1>3, <1>4, <1>5

LEMMA RestartReads ==
    ASSUME StreamInv, ReadInv, Restart
    PROVE  ReadInv'
<1>1. /\ UNCHANGED store
      /\ \A c \in Clients : conn'[c] = conn[c] \/ conn'[c] = Closed
    BY DEF Restart
<1>2. ASSUME NEW c \in Clients
      PROVE  Truthful(Watches[c], conn'[c], store[Watches[c]])
    <2>1. Truthful(Watches[c], Closed, store[Watches[c]])
        BY IdleTruthful DEF Closed
    <2>2. Truthful(Watches[c], conn[c], store[Watches[c]])
        BY DEF ReadInv
    <2> QED BY <1>1, <2>1, <2>2
<1>3. ASSUME NEW c \in Clients
      PROVE  Truthful(Watches[c], conn[c], store[Watches[c]])'
    BY <1>1, <1>2 DEF Truthful, Terminal
<1> QED BY <1>1, <1>3 DEF ReadInv

LEMMA ReadNext ==
    ASSUME StreamInv, ReadInv, [Next]_vars
    PROVE  ReadInv'
<1>1. ASSUME NEW c \in Clients, Serve(c) \/ Browse(c) \/ ReadFails(c) \/ Drop(c)
      PROVE  ReadInv'
    BY <1>1, ReadRowReads, ReadItemsReads, PublishReads, OthersRead DEF Serve, Browse
<1>2. ASSUME NEW o \in Ops, SaveOperation(o)
      PROVE  ReadInv'
    BY <1>2, SaveReads
<1>3. CASE Restart
    BY <1>3, RestartReads
<1>4. CASE UNCHANGED vars
    BY <1>4 DEF vars, ReadInv, Truthful, Terminal
<1> QED BY <1>1, <1>2, <1>3, <1>4 DEF Next

LEMMA ReadInit ==
    ASSUME Init
    PROVE  ReadInv
<1>1. \A o \in Ops : store[o].version = 1 /\ Final[o] \in Nat \ {0}
    BY StreamOpsAssumption DEF Init, FirstView
<1>2. \A c \in Clients : conn[c] = Closed
    BY DEF Init
<1>3. \A o \in Ops : store[o].version <= Final[o]
    BY <1>1
<1>4. \A c \in Clients : Truthful(Watches[c], conn[c], store[Watches[c]])
    BY <1>2, IdleTruthful DEF Closed
<1> QED BY <1>3, <1>4 DEF ReadInv

\* A stream that has ended has left its reader with the stored result, when the log has
\* kept the stream: terminal means final, whichever reads of other handlers came between
\* the row and the items, and whatever the reader missed is sent again.
THEOREM EndsAreFinal == Spec => []EndIsFinal
<1>1. Init => StreamInv /\ KeptInv /\ ReadInv
    BY StreamInit, KeptInit, ReadInit
<1>2. StreamInv /\ KeptInv /\ ReadInv /\ [Next]_vars => StreamInv' /\ KeptInv' /\ ReadInv'
    BY StreamNext, KeptNext, ReadNext
<1>3. StreamInv /\ KeptInv /\ ReadInv => EndIsFinal
    <2> SUFFICES ASSUME StreamInv, KeptInv, ReadInv, Kept, NEW c \in Clients,
                        conn[c].at = "ended", conn[c].out = <<>>
                 PROVE  reader[c].view = store[Watches[c]]
        BY DEF EndIsFinal, EndShowsFinal
    <2>1. conn[c].started /\ conn[c].view = store[Watches[c]]
        BY DEF ReadInv, Truthful
    <2>2. Brings(reader[c].view, <<>>, conn[c].view)
        BY <2>1 DEF KeptInv
    <2> QED BY <2>1, <2>2, StreamParts, NoFrames DEF Handlers
<1> QED BY <1>1, <1>2, <1>3, PTL DEF Spec

-----------------------------------------------------------------------------
(* The page: the frames of its event sources.                                *)

\* The oldest stream leaves the log.
LEMMA TailKeeps ==
    ASSUME LogOK, log # <<>>, log' = Tail(log)
    PROVE  LogOK' /\ \A k \in 1 .. Len(log') : \E j \in 1 .. Len(log) : log'[k] = log[j]
<1> PICK n \in Nat : n = Len(log)
    BY LenProperties DEF LogOK
<1>1. log \in Seq(Streams) /\ n <= OperationLimit /\ n >= 1
    BY EmptySeq DEF LogOK
<1>2. /\ log' \in Seq(Streams) /\ Len(log') = n - 1
      /\ \A k \in 1 .. n - 1 : log'[k] = log[k + 1]
    BY <1>1, HeadTailProperties
<1>3. ASSUME NEW k \in 1 .. n - 1
      PROVE  k + 1 \in 1 .. n /\ log'[k] = log[k + 1] /\ Kempt(log'[k])
    <2>1. k + 1 \in 1 .. n
        BY <1>1
    <2> QED BY <1>2, <2>1 DEF LogOK
<1>4. ASSUME NEW j \in 1 .. n - 1, NEW k \in 1 .. n - 1, log'[j].op = log'[k].op
      PROVE  j = k
    <2>1. log[j + 1].op = log[k + 1].op /\ j + 1 \in 1 .. n /\ k + 1 \in 1 .. n
        BY <1>3, <1>4
    <2>2. j + 1 = k + 1
        BY <2>1 DEF LogOK
    <2> QED BY <2>2
<1>5. n - 1 <= OperationLimit
    BY <1>1, StreamBoundsAssumption
<1> QED BY <1>2, <1>3, <1>4, <1>5 DEF LogOK

LEMMA EvictKeeps ==
    ASSUME StreamInv, OthersEvict
    PROVE  StreamInv'
<1>1. /\ log # <<>> /\ log' = Tail(log) /\ evictions' = evictions + 1
      /\ UNCHANGED <<store, conn, reader, drops, restarts, faults>>
    BY DEF OthersEvict
<1>2. LogOK'
    BY <1>1, StreamParts, TailKeeps
<1>3. FramesInv'
    BY <1>1 DEF FramesInv, StreamInv
<1>4. TypeOK'
    BY <1>1, <1>2, NextLog, StreamParts DEF TypeOK
<1> QED BY <1>2, <1>3, <1>4, NextLog DEF StreamInv

\* Requests for the list do not touch the streams.
LEMMA ListKeeps ==
    ASSUME StreamInv, UNCHANGED <<store, log, conn, reader, evictions, drops, restarts>>,
           faults' = faults \/ faults' = faults + 1
    PROVE  StreamInv'
<1>1. faults' \in Nat
    BY StreamParts
<1> QED BY <1>1 DEF StreamInv, TypeOK, LogInv, FramesInv

LEMMA DismissKeeps ==
    ASSUME StreamInv, NEW closed, Dismiss(closed), UNCHANGED <<store, log, spent>>
    PROVE  StreamInv'
<1> DEFINE none == [id |-> NoId, view |-> NoView]
<1>1. /\ conn' = [o \in Clients |-> IF o \in closed THEN Closed ELSE conn[o]]
      /\ reader' = [o \in Clients |-> IF o \in closed THEN none ELSE reader[o]]
    BY DEF Dismiss
<1>2. none \in [id : Nat, view : Views] /\ none.id = NoId
    BY DEF NoId, NoView, Views
<1> HIDE DEF none
<1>3. /\ conn' \in [Clients -> Handlers]
      /\ reader' \in [Clients -> [id : Nat, view : Views]]
    BY <1>1, <1>2, ClosedType, StreamParts
<1>4. ASSUME NEW c \in Clients
      PROVE  Continued(conn'[c], reader'[c].id)
    BY <1>1, NothingSent, StreamParts
<1>5. FramesInv'
    BY <1>4 DEF FramesInv
<1>6. LogOK'
    BY SameLog
<1>7. TypeOK'
    BY <1>3, <1>6, NextLog, StreamParts DEF TypeOK, spent
<1> QED BY <1>5, <1>6, <1>7, NextLog DEF StreamInv

\* An event source gets its next frame.
Heard(o) ==
    /\ conn[o].out # <<>>
    /\ conn' = [conn EXCEPT ![o].out = Tail(@)]
    /\ reader' = [reader EXCEPT ![o].id = Head(conn[o].out).seq]
    /\ UNCHANGED <<store, log, spent>>

LEMMA HeardKeeps ==
    ASSUME StreamInv, NEW o \in Clients, Heard(o)
    PROVE  StreamInv'
<1> DEFINE h == [conn[o] EXCEPT !.out = Tail(@)]
           event == Head(conn[o].out)
           r == [reader[o] EXCEPT !.id = event.seq]
<1>1. /\ conn[o] \in Handlers /\ Continued(conn[o], reader[o].id)
      /\ reader[o] \in [id : Nat, view : Views] /\ store \in [Ops -> Views]
    BY StreamParts
<1>2. h \in Handlers /\ event \in Events /\ Continued(h, event.seq)
    BY <1>1, Receipt DEF Heard
<1>3. r \in [id : Nat, view : Views] /\ r.id = event.seq
    BY <1>1, <1>2 DEF Events
<1>4. conn' = [conn EXCEPT ![o] = h] /\ reader' = [reader EXCEPT ![o] = r]
    BY DEF Heard
<1>5. UNCHANGED <<store, log, spent>>
    BY DEF Heard
<1> HIDE DEF h, r, event
<1>6. LogOK' /\ store' \in [Ops -> Views]
    BY <1>1, <1>5, SameLog
<1>7. (evictions \in Nat /\ drops \in Nat /\ restarts \in Nat /\ faults \in Nat)'
    BY <1>5, StreamParts DEF spent
<1> QED BY <1>2, <1>3, <1>4, <1>6, <1>7, OneHandler

\* A frame that makes the operation finished closes its event source.
LEMMA HearIs ==
    ASSUME NEW o \in Ops, Hear(o)
    PROVE  \/ Heard(o)
           \/ Dismiss({o}) /\ UNCHANGED <<store, log, spent>>
BY DEF Hear, Heard

\* Of the steps of EventStream those of the server stay.
LEMMA ServerStepIs ==
    ASSUME NEW o \in Ops, ServerSteps(o)
    PROVE  o \in Clients /\ Next
<1>1. o \in Clients
    BY CacheAssumption
<1> QED BY <1>1 DEF ServerSteps, Next, Browse

LEMMA PageStreams ==
    ASSUME StreamInv, [CacheNext]_cacheVars
    PROVE  StreamInv'
<1>1. CASE List \/ ListFails
    <2>1. UNCHANGED <<store, log, conn, reader, evictions, drops, restarts>>
        BY <1>1 DEF List, Poll, ListRow, ListItems, ListArrives, ListFails, spent
    <2>2. faults' = faults \/ faults' = faults + 1
        BY <1>1 DEF List, Poll, ListRow, ListItems, ListArrives, ListFails, spent
    <2> QED BY <2>1, <2>2, ListKeeps
<1>2. CASE Effect
    <2>1. Dismiss(sources \ target') /\ UNCHANGED <<store, log, spent>>
        BY <1>2 DEF Effect
    <2> QED BY <2>1, DismissKeeps
<1>3. CASE RestartApi
    BY <1>3, RestartKeeps DEF RestartApi
<1>4. CASE OthersEvict
    BY <1>4, EvictKeeps
<1>5. ASSUME NEW o \in Ops, Hear(o)
      PROVE  StreamInv'
    <2>1. o \in Clients
        BY CacheAssumption
    <2>2. Heard(o) \/ (Dismiss({o}) /\ UNCHANGED <<store, log, spent>>)
        BY <1>5, HearIs
    <2> QED BY <2>1, <2>2, HeardKeeps, DismissKeeps
<1>6. ASSUME NEW o \in Ops, ServerSteps(o)
      PROVE  StreamInv'
    BY <1>6, ServerStepIs, StreamNext
<1>7. CASE UNCHANGED cacheVars
    <2>1. UNCHANGED vars
        BY <1>7 DEF cacheVars, vars
    <2> QED BY <2>1, StreamStutters
<1> QED BY <1>1, <1>2, <1>3, <1>4, <1>5, <1>6, <1>7 DEF CacheNext

LEMMA PageStreamInit ==
    ASSUME CacheInit
    PROVE  StreamInv
BY StreamInit DEF CacheInit

\* Every frame is new to its event source, and an update comes right after the frame
\* before it, so that none is discarded: also when other pages take streams out of the
\* log, and when the page closes sources and opens them again.
THEOREM FramesComeInOrder == CacheSpec => FramesFollow
<1>1. CacheInit => StreamInv
    BY PageStreamInit
<1>2. StreamInv /\ [CacheNext]_cacheVars => StreamInv'
    BY PageStreams
<1>3. StreamInv /\ [CacheNext]_cacheVars =>
        [\A o \in Ops : Hear(o) =>
            LET event == Head(conn[o].out)
            IN  /\ event.seq > reader[o].id
                /\ event.kind = "snapshot" \/ event.seq = reader[o].id + 1]_cacheVars
    <2> SUFFICES ASSUME StreamInv, NEW o \in Ops, Hear(o)
                 PROVE  Follows(Head(conn[o].out), reader[o].id)
        BY DEF Follows
    <2>1. o \in Clients /\ conn[o].out # <<>>
        BY CacheAssumption DEF Hear
    <2>2. conn[o] \in Handlers /\ Continued(conn[o], reader[o].id)
        BY <2>1, StreamParts
    <2> QED BY <2>1, <2>2, Receipt
<1> QED BY <1>1, <1>2, <1>3, PTL DEF CacheSpec, FramesFollow

-----------------------------------------------------------------------------
(* The page: what handlers read and events show.                             *)

\* Handlers that only close know nothing.
LEMMA ClosedReads ==
    ASSUME ReadInv, UNCHANGED store,
           \A c \in Clients : conn'[c] = conn[c] \/ conn'[c] = Closed
    PROVE  ReadInv'
<1>1. ASSUME NEW c \in Clients
      PROVE  Truthful(Watches[c], conn'[c], store[Watches[c]])
    <2>1. Truthful(Watches[c], Closed, store[Watches[c]])
        BY IdleTruthful DEF Closed
    <2>2. Truthful(Watches[c], conn[c], store[Watches[c]])
        BY DEF ReadInv
    <2> QED BY <2>1, <2>2
<1>2. ASSUME NEW c \in Clients
      PROVE  Truthful(Watches[c], conn[c], store[Watches[c]])'
    BY <1>1 DEF Truthful, Terminal
<1> QED BY <1>2 DEF ReadInv

LEMMA HeardReads ==
    ASSUME StreamInv, ReadInv, NEW o \in Clients, Heard(o)
    PROVE  ReadInv'
<1> DEFINE h == [conn[o] EXCEPT !.out = Tail(@)]
<1>1. conn' = [conn EXCEPT ![o] = h] /\ UNCHANGED store
    BY DEF Heard
<1>2. conn[o] \in Handlers
    BY StreamParts
<1>3. h \in Handlers
    BY <1>2, StreamParts, Receipt DEF Heard
<1>4. h.at = conn[o].at /\ h.started = conn[o].started /\ h.view = conn[o].view
    BY <1>2 DEF Handlers
<1> HIDE DEF h
<1>5. Truthful(Watches[o], conn[o], store[Watches[o]])
    BY DEF ReadInv
<1>6. Truthful(Watches[o], h, store[Watches[o]])
    BY <1>4, <1>5 DEF Truthful
<1> QED BY <1>1, <1>3, <1>6, TruthfulAlone

LEMMA PageReads ==
    ASSUME StreamInv, ReadInv, [CacheNext]_cacheVars
    PROVE  ReadInv'
<1>1. CASE List \/ ListFails \/ OthersEvict \/ UNCHANGED cacheVars
    <2>1. UNCHANGED <<store, conn>>
        BY <1>1 DEF List, Poll, ListRow, ListItems, ListArrives, ListFails, OthersEvict,
                    cacheVars
    <2> QED BY <2>1, ClosedReads
<1>2. ASSUME NEW closed, Dismiss(closed), UNCHANGED store
      PROVE  ReadInv'
    BY <1>2, ClosedReads DEF Dismiss
<1>3. CASE Effect
    BY <1>2, <1>3 DEF Effect
<1>4. CASE RestartApi
    BY <1>4, RestartReads DEF RestartApi
<1>5. ASSUME NEW o \in Ops, Hear(o)
      PROVE  ReadInv'
    <2>1. o \in Clients
        BY CacheAssumption
    <2>2. Heard(o) \/ (Dismiss({o}) /\ UNCHANGED store)
        BY <1>5, HearIs
    <2> QED BY <1>2, <2>1, <2>2, HeardReads
<1>6. ASSUME NEW o \in Ops, ServerSteps(o)
      PROVE  ReadInv'
    BY <1>6, ServerStepIs, ReadNext
<1> QED BY <1>1, <1>3, <1>4, <1>5, <1>6 DEF CacheNext

LEMMA ShownTail ==
    ASSUME NEW q \in Seq(Events), q # <<>>
    PROVE  Shown(Tail(q)) \subseteq Shown(q)
<1> PICK n \in Nat : n = Len(q)
    BY HistoryTypes
<1>1. n >= 1 /\ DOMAIN q = 1 .. n
    BY HistoryTypes
<1>2. /\ Tail(q) \in Seq(Events) /\ Len(Tail(q)) = n - 1
      /\ \A k \in 1 .. n - 1 : Tail(q)[k] = q[k + 1]
    BY HeadTailProperties
<1>3. DOMAIN Tail(q) = 1 .. n - 1
    BY <1>2, LenProperties
<1>4. \A k \in 1 .. n - 1 : k + 1 \in 1 .. n
    BY <1>1
<1> QED BY <1>1, <1>2, <1>3, <1>4 DEF Shown

LEMMA ShownPart ==
    ASSUME NEW p, NEW q, \A k \in DOMAIN p : \E j \in DOMAIN q : p[k] = q[j]
    PROVE  Shown(p) \subseteq Shown(q)
<1> SUFFICES ASSUME NEW k \in DOMAIN p
             PROVE  \E j \in DOMAIN q : p[k].view = q[j].view
    BY DEF Shown
<1> QED OBVIOUS

LEMMA ShownNone == Shown(<<>>) = {}
<1>1. DOMAIN <<>> = {}
    OBVIOUS
<1> QED BY <1>1 DEF Shown

LEMMA ShownConcat ==
    ASSUME NEW p \in Seq(Events), NEW q \in Seq(Events)
    PROVE  Shown(p \o q) \subseteq Shown(p) \cup Shown(q)
<1> SUFFICES ASSUME NEW k \in DOMAIN (p \o q)
             PROVE  (p \o q)[k].view \in Shown(p) \cup Shown(q)
    BY DEF Shown
<1> PICK m \in Nat : m = Len(p)
    BY HistoryTypes
<1> PICK n \in Nat : n = Len(q)
    BY HistoryTypes
<1>1. DOMAIN p = 1 .. m /\ DOMAIN q = 1 .. n
    BY HistoryTypes
<1>2. /\ p \o q \in Seq(Events) /\ Len(p \o q) = m + n
      /\ \A j \in 1 .. m : (p \o q)[j] = p[j]
      /\ \A j \in 1 .. n : (p \o q)[m + j] = q[j]
      /\ \A j \in 1 .. m + n :
            j \in 1 .. m \/ (j - m \in 1 .. n /\ j = m + (j - m))
    BY Concatenated
<1>3. k \in 1 .. m + n
    BY <1>2, LenProperties
<1>4. CASE k \in 1 .. m
    BY <1>1, <1>2, <1>4 DEF Shown
<1>5. CASE k - m \in 1 .. n /\ k = m + (k - m)
    <2>1. (p \o q)[k] = q[k - m]
        BY <1>2, <1>5
    <2> QED BY <1>1, <1>5, <2>1 DEF Shown
<1> QED BY <1>2, <1>3, <1>4, <1>5

\* Trimming forgets views, and does not bring any.
LEMMA ShownExtended ==
    ASSUME NEW s, s.history \in Seq(Events), NEW e \in Seq(Events),
           NEW t, t = Extended(s, e), t.history = Trimmed(s.history \o e)
    PROVE  Shown(t.history) \subseteq Shown(s.history) \cup Shown(e)
<1> PICK h : h = s.history \o e
    OBVIOUS
<1>1. h \in Seq(Events) /\ Shown(h) \subseteq Shown(s.history) \cup Shown(e)
    BY Concatenated, ShownConcat
<1> PICK n \in Nat : n = Len(h)
    BY <1>1, HistoryTypes
<1> PICK d : d = Dropped(h)
    OBVIOUS
<1>2. /\ d \in 0 .. n /\ Trimmed(h) \in Seq(Events) /\ Len(Trimmed(h)) = n - d
      /\ \A k \in 1 .. n - d : Trimmed(h)[k] = h[d + k]
    BY <1>1, TrimmedHistory
<1>3. DOMAIN h = 1 .. n /\ DOMAIN Trimmed(h) = 1 .. n - d
    BY <1>1, <1>2, HistoryTypes
<1>4. \A k \in 1 .. n - d : d + k \in 1 .. n
    BY <1>2
<1>5. Shown(Trimmed(h)) \subseteq Shown(h)
    <2> PICK q : q = Trimmed(h)
        OBVIOUS
    <2>1. \A k \in DOMAIN q : \E j \in DOMAIN h : q[k] = h[j]
        BY <1>2, <1>3, <1>4
    <2>2. ASSUME NEW k \in DOMAIN q
          PROVE  q[k].view \in Shown(h)
        <3>1. PICK j \in DOMAIN h : q[k] = h[j]
            BY <2>1
        <3> QED BY <3>1 DEF Shown
    <2>3. Shown(q) \subseteq Shown(h)
        BY <2>2 DEF Shown
    <2> QED BY <2>3
<1> QED BY <1>1, <1>5

LEMMA ExtendedHistory ==
    ASSUME NEW s \in Streams, NEW e
    PROVE  Extended(s, e).history = Trimmed(s.history \o e)
BY DEF Extended, Streams

\* A snapshot shows the view that was observed.
LEMMA ShownSnapshot ==
    ASSUME NEW s \in Streams, NEW t, AddsSnapshot(t, s)
    PROVE  Shown(t.history) \subseteq Shown(s.history) \cup {s.last}
<1> PICK e : e = LastOf(t.history)
    OBVIOUS
<1>1. e \in Events /\ e.view = s.last /\ t = Extended(s, <<e>>)
    BY DEF AddsSnapshot
<1>2. <<e>> \in Seq(Events) /\ s.history \in Seq(Events)
    BY <1>1, OneEvent DEF Streams
<1>3. Shown(t.history) \subseteq Shown(s.history) \cup Shown(<<e>>)
    BY <1>1, <1>2, ExtendedHistory, ShownExtended
<1>4. Shown(<<e>>) = {s.last}
    BY <1>1 DEF Shown
<1> QED BY <1>3, <1>4

LEMMA ShownObserved ==
    ASSUME NEW s, Kempt(s), NEW view \in Views
    PROVE  Shown(Observed(s, view).history) \subseteq Shown(s.history) \cup {view}
<1>1. CASE view = s.last
    BY <1>1 DEF Observed
<1>2. CASE view # s.last
    <2> DEFINE r == [s EXCEPT !.last = view]  e == Batch(s, view)
    <2>1. s \in Streams
        BY DEF Kempt
    <2>2. r \in Streams /\ r.history = s.history
        BY <2>1 DEF Streams
    <2>3. e \in Seq(Events)
        BY <2>1, BatchContinues
    <2>4. Observed(s, view) = Extended(r, e)
        BY <1>2 DEF Observed
    <2>5. Shown(e) \subseteq {view}
        BY DEF Shown, Batch
    <2> HIDE DEF r, e
    <2>6. r.history \in Seq(Events)
        BY <2>2 DEF Streams
    <2>7. Shown(Extended(r, e).history) \subseteq Shown(r.history) \cup Shown(e)
        BY <2>2, <2>3, <2>6, ExtendedHistory, ShownExtended
    <2> QED BY <2>2, <2>4, <2>5, <2>7
<1> QED BY <1>1, <1>2

\* What Publish leaves in the history of its stream.
LEMMA ShownPublished ==
    ASSUME StreamInv, NEW c \in Clients, NEW s, NEW t, NEW e, Published(c, s, t, e)
    PROVE  /\ \A view \in Shown(t.history) :
                \/ view = conn[c].view
                \/ Known(Watches[c]) /\ view \in Shown(StreamOf(Watches[c]).history)
           /\ Shown(e) \subseteq Shown(t.history)
<1> DEFINE o == Watches[c]  v == conn[c].view
<1>1. LogOK /\ o \in Ops /\ v \in Views
    BY StreamParts DEF Handlers
<1>2. /\ s = Current(o, v) /\ Kempt(s) /\ s.last = v /\ Kempt(t)
      /\ t = s \/ AddsSnapshot(t, s)
      /\ EndOf(e, t.history) /\ e \in Seq(Events)
    BY DEF Published
<1>3. s \in Streams /\ t.history \in Seq(Events)
    BY <1>2 DEF Kempt, Streams
<1>4. Shown(t.history) \subseteq Shown(s.history) \cup {v}
    BY <1>2, <1>3, ShownSnapshot
<1> DEFINE Old(view) == view = v \/ (Known(o) /\ view \in Shown(StreamOf(o).history))
<1>5. ASSUME Known(o)
      PROVE  \A view \in Shown(t.history) : Old(view)
    <2> PICK r : r = StreamOf(o)
        OBVIOUS
    <2>1. Kempt(r) /\ s = Observed(r, v)
        BY <1>1, <1>2, <1>5, KnownStream DEF Current
    <2>2. Shown(s.history) \subseteq Shown(r.history) \cup {v}
        BY <1>1, <2>1, ShownObserved
    <2> QED BY <1>4, <1>5, <2>2
<1>6. ASSUME ~Known(o)
      PROVE  \A view \in Shown(t.history) : Old(view)
    <2> DEFINE n == [NewStream(o) EXCEPT !.last = v]
    <2>1. n = [op |-> o, next |-> 0, history |-> <<>>, last |-> v]
        BY DEF NewStream
    <2>2. n \in Streams /\ Numbered(n)
        <3>1. <<>> \in Seq(Events)
            BY EmptySeq
        <3> HIDE DEF n
        <3>2. n \in Streams
            BY <1>1, <2>1, <3>1 DEF Streams
        <3> QED BY <2>1, <3>2 DEF Numbered, Ordered, Linked
    <2>3. s = WithSnapshot(n, FALSE, 0)
        BY <1>2, <1>6 DEF Current
    <2>4. n.last = v /\ n.history = <<>>
        BY <2>1
    <2> HIDE DEF n
    <2>5. \E reset \in BOOLEAN : s = WithSnapshot(n, reset, 0)
        BY <2>3
    <2>6. AddsSnapshot(s, n)
        BY <2>2, <2>5, SnapshotExtends
    <2>7. Shown(s.history) \subseteq {v}
        BY <2>2, <2>4, <2>6, ShownSnapshot, ShownNone
    <2> QED BY <1>4, <2>7
<1>7. Shown(e) \subseteq Shown(t.history)
    <2> PICK h : h = t.history
        OBVIOUS
    <2> PICK m \in Nat : m = Len(e)
        BY <1>2, HistoryTypes
    <2> PICK n \in Nat : n = Len(h)
        BY <1>3, HistoryTypes
    <2>1. DOMAIN e = 1 .. m /\ DOMAIN h = 1 .. n
        BY <1>2, <1>3, HistoryTypes
    <2>2. m <= n /\ \A k \in 1 .. m : e[k] = h[n - m + k]
        BY <1>2 DEF EndOf
    <2>3. \A k \in 1 .. m : n - m + k \in 1 .. n
        BY <2>2
    <2>4. \A k \in DOMAIN e : \E j \in DOMAIN h : e[k] = h[j]
        BY <2>1, <2>2, <2>3
    <2> QED BY <2>4, ShownPart
<1> QED BY <1>5, <1>6, <1>7

\* What was the final view of an operation is not saved again.
StaysSettled ==
    \A o \in Ops : \A view : Settled(o, view, store[o]) => Settled(o, view, store'[o])

LEMMA SavedStaysSettled ==
    ASSUME StreamInv, NEW p \in Ops, SaveOperation(p)
    PROVE  /\ StaysSettled
           /\ \A o \in Ops : Terminal(o, store[o]) => store'[o] = store[o]
<1>1. store \in [Ops -> Views] /\ store[p].version \in Nat /\ Final[p] \in Nat
    BY StreamParts, StreamOpsAssumption DEF Views
<1>2. ~Terminal(p, store[p])
    BY <1>1 DEF SaveOperation, Terminal
<1>3. \A o \in Ops : o # p => store'[o] = store[o]
    BY <1>1 DEF SaveOperation
<1>4. \A view : Settled(p, view, store[p]) => Settled(p, view, store'[p])
    BY <1>2 DEF Settled
<1> QED BY <1>2, <1>3, <1>4 DEF StaysSettled

LEMMA EventsStay ==
    ASSUME StreamInv, StreamInv', EventsInv, StaysSettled,
           \A k \in 1 .. Len(log') : \E j \in 1 .. Len(log) : log'[k] = log[j],
           \A c \in Clients : Shown(conn'[c].out) \subseteq Shown(conn[c].out)
    PROVE  EventsInv'
<1>1. log' \in Seq(Streams) /\ DOMAIN log' = 1 .. Len(log')
    <2>1. log' \in Seq(Streams)
        BY DEF StreamInv, TypeOK, Streams
    <2> QED BY <2>1, LenProperties
<1>2. LogOK /\ DOMAIN log = 1 .. Len(log)
    <2>1. LogOK
        BY StreamParts
    <2> QED BY <2>1, LenProperties DEF LogOK
<1>3. ASSUME NEW k \in 1 .. Len(log'), NEW view \in Shown(log'[k].history)
      PROVE  Settled(log'[k].op, view, store'[log'[k].op])
    <2>1. PICK j \in 1 .. Len(log) : log'[k] = log[j]
        OBVIOUS
    <2>2. log[j].op \in Ops
        BY <1>2 DEF LogOK, Kempt, Streams
    <2>3. Settled(log[j].op, view, store[log[j].op])
        BY <1>2, <2>1 DEF EventsInv
    <2> QED BY <2>1, <2>2, <2>3 DEF StaysSettled
<1>4. ASSUME NEW c \in Clients, NEW view \in Shown(conn'[c].out)
      PROVE  Settled(Watches[c], view, store'[Watches[c]])
    <2>1. Watches[c] \in Ops /\ view \in Shown(conn[c].out)
        BY StreamParts
    <2>2. Settled(Watches[c], view, store[Watches[c]])
        BY <2>1 DEF EventsInv
    <2> QED BY <2>1, <2>2 DEF StaysSettled
<1> QED BY <1>1, <1>3, <1>4 DEF EventsInv

LEMMA SameStoreSettles ==
    ASSUME UNCHANGED store
    PROVE  StaysSettled
BY DEF StaysSettled

LEMMA PublishSettles ==
    ASSUME StreamInv, ReadInv, EventsInv, NEW c \in Clients, Publish(c)
    PROVE  EventsInv'
<1>1. PICK s, t, e : Published(c, s, t, e)
    BY Publication
<1> DEFINE o == Watches[c]
<1>2. /\ LogOK /\ o \in Ops /\ conn[c] \in Handlers /\ conn[c].at = "observe"
      /\ conn \in [Clients -> Handlers] /\ UNCHANGED store
    BY StreamParts DEF Publish
<1>3. /\ \A view \in Shown(t.history) :
            \/ view = conn[c].view
            \/ Known(o) /\ view \in Shown(StreamOf(o).history)
      /\ Shown(e) \subseteq Shown(t.history)
    BY <1>1, ShownPublished
<1>4. ASSUME NEW view \in Shown(t.history)
      PROVE  Settled(o, view, store[o])
    <2>1. CASE view = conn[c].view
        <3>1. Truthful(o, conn[c], store[o])
            BY DEF ReadInv
        <3> QED BY <1>2, <2>1, <3>1 DEF Truthful, Settled
    <2>2. CASE Known(o) /\ view \in Shown(StreamOf(o).history)
        <3>1. /\ PlaceOf(o) \in 1 .. Len(log) /\ StreamOf(o) = log[PlaceOf(o)]
              /\ StreamOf(o).op = o
            BY <1>2, <2>2, KnownStream
        <3>2. DOMAIN log = 1 .. Len(log)
            BY <1>2, LenProperties DEF LogOK
        <3> PICK k \in DOMAIN log : StreamOf(o) = log[k]
            BY <3>1, <3>2
        <3>3. log[k].op = o /\ view \in Shown(log[k].history)
            BY <2>2, <3>1
        <3> QED BY <3>3 DEF EventsInv
    <2> QED BY <1>3, <2>1, <2>2
<1>5. /\ Kempt(t) /\ t.op = o /\ log' = LogWith(t) /\ e \in Seq(Events)
      /\ conn'[c].out = conn[c].out \o e
      /\ \A d \in Clients : d # c => conn'[d] = conn[d]
    BY <1>1, <1>2, WrittenHandler DEF Published
<1>6. /\ log' \in Seq(Streams) /\ Len(log') \in 1 .. OperationLimit /\ log'[Len(log')] = t
      /\ \A k \in 1 .. Len(log') - 1 : \E j \in 1 .. Len(log) : log'[k] = log[j]
    <2>1. /\ log' \in Seq(Streams) /\ Len(log') \in 1 .. OperationLimit
          /\ log'[Len(log')] = t
          /\ \E f \in [1 .. Len(log') - 1 -> 1 .. Len(log)] :
                \A k \in 1 .. Len(log') - 1 : log'[k] = log[f[k]] /\ log[f[k]].op # t.op
        <3> PICK l : l = log'
            OBVIOUS
        <3>1. /\ l \in Seq(Streams) /\ Len(l) \in 1 .. OperationLimit /\ l[Len(l)] = t
              /\ \E f \in [1 .. Len(l) - 1 -> 1 .. Len(log)] :
                    /\ \A k \in 1 .. Len(l) - 1 : l[k] = log[f[k]] /\ log[f[k]].op # t.op
                    /\ \A j, k \in 1 .. Len(l) - 1 : f[j] = f[k] => j = k
            BY <1>2, <1>5, LogAfterCall
        <3> QED BY <3>1
    <2>2. PICK f \in [1 .. Len(log') - 1 -> 1 .. Len(log)] :
            \A k \in 1 .. Len(log') - 1 : log'[k] = log[f[k]] /\ log[f[k]].op # t.op
        BY <2>1
    <2>3. \A k \in 1 .. Len(log') - 1 : f[k] \in 1 .. Len(log) /\ log'[k] = log[f[k]]
        BY <2>2
    <2> QED BY <2>1, <2>3
<1>7. DOMAIN log' = 1 .. Len(log') /\ DOMAIN log = 1 .. Len(log)
    BY <1>2, <1>6, LenProperties DEF LogOK
<1>8. ASSUME NEW k \in 1 .. Len(log'), NEW view \in Shown(log'[k].history)
      PROVE  Settled(log'[k].op, view, store[log'[k].op])
    <2>1. CASE k = Len(log')
        BY <1>4, <1>5, <1>6, <1>8, <2>1
    <2>2. CASE k # Len(log')
        <3>1. k \in 1 .. Len(log') - 1
            BY <1>6, <2>2, StreamBoundsAssumption
        <3>2. PICK j \in 1 .. Len(log) : log'[k] = log[j]
            BY <1>6, <3>1
        <3> QED BY <1>7, <1>8, <3>2 DEF EventsInv
    <2> QED BY <2>1, <2>2
<1>9. ASSUME NEW d \in Clients, NEW view \in Shown(conn'[d].out)
      PROVE  Settled(Watches[d], view, store[Watches[d]])
    <2>1. CASE d = c
        <3>1. Shown(conn'[c].out) \subseteq Shown(conn[c].out) \cup Shown(e)
            BY <1>2, <1>5, ShownConcat DEF Handlers
        <3>2. view \in Shown(conn[c].out) \/ view \in Shown(t.history)
            BY <1>3, <1>9, <2>1, <3>1
        <3> QED BY <1>4, <2>1, <3>2 DEF EventsInv
    <2>2. CASE d # c
        BY <1>5, <1>9, <2>2 DEF EventsInv
    <2> QED BY <2>1, <2>2
<1> QED BY <1>2, <1>7, <1>8, <1>9 DEF EventsInv

\* No frame of another step shows what was not shown before.
LEMMA ServerShows ==
    ASSUME StreamInv, NEW o \in Clients,
           \/ ReadRow(o) \/ ReadItems(o) \/ ReadFails(o) \/ Drop(o) \/ StreamEnds(o)
           \/ Connect(o)
    PROVE  /\ UNCHANGED <<store, log>>
           /\ \A c \in Clients : Shown(conn'[c].out) \subseteq Shown(conn[c].out)
<1>1. conn \in [Clients -> Handlers] /\ conn[o] \in Handlers
    BY StreamParts
<1>2. UNCHANGED <<store, log>> /\ \A c \in Clients : c # o => conn'[c] = conn[c]
    BY <1>1 DEF ReadRow, ReadItems, ReadFails, Drop, StreamEnds, Connect
<1>3. conn'[o].out = conn[o].out \/ conn'[o].out = <<>>
    <2>1. CASE ReadRow(o) \/ ReadItems(o) \/ ReadFails(o)
        BY <1>1, <2>1 DEF ReadRow, ReadItems, ReadFails, Handlers
    <2>2. CASE Drop(o) \/ StreamEnds(o)
        BY <1>1, <2>2 DEF Drop, StreamEnds, Closed
    <2>3. CASE Connect(o)
        <3>1. conn'[o] = [Closed EXCEPT !.at = "open", !.cursor = reader[o].id]
            BY <1>1, <2>3 DEF Connect
        <3> QED BY <3>1 DEF Closed
    <2> QED BY <2>1, <2>2, <2>3
<1> QED BY <1>2, <1>3, ShownNone

LEMMA DismissShows ==
    ASSUME NEW closed, Dismiss(closed)
    PROVE  \A c \in Clients : Shown(conn'[c].out) \subseteq Shown(conn[c].out)
<1>1. \A c \in Clients : conn'[c] = conn[c] \/ conn'[c] = Closed
    BY DEF Dismiss
<1> QED BY <1>1, ShownNone DEF Closed

LEMMA HeardShows ==
    ASSUME StreamInv, NEW o \in Clients, Heard(o)
    PROVE  \A c \in Clients : Shown(conn'[c].out) \subseteq Shown(conn[c].out)
<1>1. conn \in [Clients -> Handlers] /\ conn[o] \in Handlers
    BY StreamParts
<1>2. /\ \A c \in Clients : c # o => conn'[c] = conn[c]
      /\ conn'[o].out = Tail(conn[o].out) /\ conn[o].out # <<>>
    BY <1>1 DEF Heard, Handlers
<1> QED BY <1>1, <1>2, ShownTail DEF Handlers

LEMMA EventsNext ==
    ASSUME StreamInv, ReadInv, EventsInv, [CacheNext]_cacheVars
    PROVE  EventsInv'
<1>1. StreamInv'
    BY PageStreams
<1>2. ASSUME UNCHANGED <<store, log>>,
             \A c \in Clients : Shown(conn'[c].out) \subseteq Shown(conn[c].out)
      PROVE  EventsInv'
    BY <1>1, <1>2, EventsStay, SameStoreSettles
<1>3. CASE List \/ ListFails \/ UNCHANGED cacheVars
    <2>1. UNCHANGED <<store, log, conn>>
        BY <1>3 DEF List, Poll, ListRow, ListItems, ListArrives, ListFails, cacheVars
    <2> QED BY <1>2, <2>1
<1>4. CASE Effect
    <2>1. Dismiss(sources \ target') /\ UNCHANGED <<store, log>>
        BY <1>4 DEF Effect
    <2> QED BY <1>2, <2>1, DismissShows
<1>5. CASE RestartApi
    <2>1. log' = <<>> /\ UNCHANGED store
          /\ \A c \in Clients : conn'[c] = conn[c] \/ conn'[c] = Closed
        BY <1>5 DEF RestartApi, Restart
    <2>2. \A c \in Clients : Shown(conn'[c].out) \subseteq Shown(conn[c].out)
        BY <2>1, ShownNone DEF Closed
    <2>3. Len(log') = 0
        BY <2>1
    <2>4. \A k \in 1 .. Len(log') : \E j \in 1 .. Len(log) : log'[k] = log[j]
        BY <2>3
    <2> QED BY <1>1, <2>1, <2>2, <2>4, EventsStay, SameStoreSettles
<1>6. CASE OthersEvict
    <2>1. log # <<>> /\ log' = Tail(log) /\ UNCHANGED <<store, conn>>
        BY <1>6 DEF OthersEvict
    <2>2. \A k \in 1 .. Len(log') : \E j \in 1 .. Len(log) : log'[k] = log[j]
        BY <2>1, StreamParts, TailKeeps
    <2> QED BY <1>1, <2>1, <2>2, EventsStay, SameStoreSettles
<1>7. ASSUME NEW o \in Ops, Hear(o)
      PROVE  EventsInv'
    <2>1. o \in Clients /\ UNCHANGED <<store, log>>
        BY <1>7, CacheAssumption DEF Hear
    <2>2. Heard(o) \/ Dismiss({o})
        BY <1>7, HearIs
    <2> QED BY <1>2, <2>1, <2>2, HeardShows, DismissShows
<1>8. ASSUME NEW o \in Ops, ServerSteps(o)
      PROVE  EventsInv'
    <2>1. o \in Clients
        BY CacheAssumption
    <2>2. CASE Publish(o)
        BY <2>1, <2>2, PublishSettles
    <2>3. CASE SaveOperation(o)
        <3>1. UNCHANGED <<log, conn>> /\ StaysSettled
            BY <2>3, SavedStaysSettled DEF SaveOperation
        <3> QED BY <1>1, <3>1, EventsStay
    <2>4. CASE \/ ReadRow(o) \/ ReadItems(o) \/ ReadFails(o) \/ Drop(o) \/ StreamEnds(o)
               \/ Connect(o)
        BY <1>2, <2>1, <2>4, ServerShows
    <2> QED BY <1>8, <2>2, <2>3, <2>4 DEF ServerSteps, Serve
<1> QED BY <1>3, <1>4, <1>5, <1>6, <1>7, <1>8 DEF CacheNext

-----------------------------------------------------------------------------
(* The page: its list and the results it shows.                              *)

Fetches == [at : {"none", "row", "items", "answer"}, op : Ops \cup {0},
            list : [Ops -> Views]]

LEMMA OpsNumbered ==
    /\ Cardinality(Ops) \in Nat /\ Cardinality(Ops) >= 1
    /\ \A o : o \in Ops <=> o \in 1 .. Cardinality(Ops)
    /\ Cardinality(Ops) \in Ops
    /\ IsFiniteSet(Ops)
<1> PICK n : n = Cardinality(Ops)
    OBVIOUS
<1>1. n \in Nat \ {0} /\ Ops = 1 .. n
    BY CacheAssumption
<1>2. n \in Nat /\ n >= 1 /\ n \in 1 .. n
    BY <1>1
<1>3. IsFiniteSet(Ops)
    BY <1>1, <1>2, FS_Interval
<1> QED BY <1>1, <1>2, <1>3

\* Of the active operations that are chosen each has another number of newer ones.
LEMMA FewAreSelected ==
    ASSUME NEW list
    PROVE  /\ Selected(list) \subseteq Active(list) /\ Active(list) \subseteq Ops
           /\ IsFiniteSet(Selected(list)) /\ Cardinality(Selected(list)) <= MaxStreams
<1> PICK A : A = Active(list)
    OBVIOUS
<1> DEFINE above(o) == {p \in A : p > o}
           S == {o \in A : Cardinality(above(o)) < MaxStreams}
           f == [o \in S |-> Cardinality(above(o))]
<1>1. S = Selected(list) /\ A \subseteq Ops
    BY DEF Selected, Active
<1>2. A \subseteq Nat /\ IsFiniteSet(A) /\ MaxStreams \in Nat
    BY <1>1, OpsNumbered, FS_Subset, CacheAssumption
<1>3. ASSUME NEW o \in A
      PROVE  IsFiniteSet(above(o)) /\ Cardinality(above(o)) \in Nat
    BY <1>2, FS_Subset, FS_CardinalityType
<1>4. ASSUME NEW o \in A, NEW p \in A, o < p
      PROVE  Cardinality(above(p)) < Cardinality(above(o))
    <2>1. o \in Nat /\ p \in Nat /\ \A q \in A : q \in Nat
        BY <1>2
    <2>2. \A q \in A : q > p => q > o
        BY <1>4, <2>1
    <2>3. above(p) \in SUBSET above(o) /\ p \in above(o) /\ p \notin above(p)
        <3>1. above(p) \in SUBSET above(o)
            BY <2>2
        <3>2. p > o /\ ~(p > p)
            BY <1>4, <2>1
        <3> QED BY <3>1, <3>2
    <2>4. Cardinality(above(p)) <= Cardinality(above(o))
          /\ (Cardinality(above(o)) = Cardinality(above(p)) => above(o) = above(p))
        BY <1>3, <2>3, FS_Subset
    <2>5. Cardinality(above(p)) \in Nat /\ Cardinality(above(o)) \in Nat
        BY <1>3
    <2>6. Cardinality(above(p)) # Cardinality(above(o))
        BY <2>3, <2>4
    <2> HIDE DEF above
    <2> QED BY <2>4, <2>5, <2>6
<1>5. f \in Injection(S, 0 .. MaxStreams - 1)
    <2>1. f \in [S -> 0 .. MaxStreams - 1]
        <3>1. \A o \in S : Cardinality(above(o)) \in 0 .. MaxStreams - 1
            BY <1>2, <1>3
        <3> QED BY <3>1
    <2>2. ASSUME NEW o \in S, NEW p \in S, f[o] = f[p]
          PROVE  o = p
        <3>1. o \in Nat /\ p \in Nat /\ Cardinality(above(o)) = Cardinality(above(p))
            BY <1>2, <2>2
        <3>2. ~(o < p) /\ ~(p < o)
            <4>1. Cardinality(above(o)) \in Nat /\ Cardinality(above(p)) \in Nat
                BY <1>3
            <4> QED BY <1>4, <3>1, <4>1
        <3> QED BY <3>1, <3>2
    <2> QED BY <2>1, <2>2 DEF Injection, IsInjective
<1>6. IsFiniteSet(0 .. MaxStreams - 1) /\ Cardinality(0 .. MaxStreams - 1) = MaxStreams
    <2>1. 0 \in Int /\ MaxStreams - 1 \in Int
        BY <1>2
    <2>2. Cardinality(0 .. MaxStreams - 1) = IF 0 > MaxStreams - 1 THEN 0
                                              ELSE MaxStreams - 1 - 0 + 1
        BY <2>1, FS_Interval
    <2> QED BY <1>2, <2>1, <2>2, FS_Interval
<1> HIDE DEF S, f
<1>7. IsFiniteSet(S) /\ Cardinality(S) <= MaxStreams
    BY <1>5, <1>6, FS_Injection
<1>8. S \subseteq A
    BY DEF S
<1> QED BY <1>1, <1>7, <1>8

\* No view is none, so it is not the terminal one.
LEMMA NothingTerminal ==
    ASSUME NEW o \in Ops
    PROVE  ~Terminal(o, NoView) /\ NoView \in Views
BY StreamOpsAssumption DEF Terminal, NoView, Views

LEMMA Requests ==
    /\ NoFetch \in Fetches /\ NoFetch.at = "none"
    /\ NewFetch \in Fetches /\ NewFetch.at = "row" /\ NewFetch.op \in Ops
    /\ \A o \in Ops : ~Terminal(o, NewFetch.list[o]) /\ ~(NewFetch.op < o)
<1>1. NoList \in [Ops -> Views] /\ \A o \in Ops : NoList[o] = NoView
    BY NothingTerminal DEF NoList
<1>2. NoFetch = [at |-> "none", op |-> 0, list |-> NoList]
      /\ NewFetch = [at |-> "row", op |-> Cardinality(Ops), list |-> NoList]
    BY DEF NoFetch, NewFetch
<1>3. NewFetch.op = Cardinality(Ops) /\ Cardinality(Ops) \in Ops
      /\ \A o \in Ops : ~(Cardinality(Ops) < o)
    <2>1. \A o \in Ops : o \in 1 .. Cardinality(Ops)
        BY OpsNumbered
    <2> PICK n \in Nat : n = Cardinality(Ops)
        BY OpsNumbered
    <2>2. \A o \in Ops : ~(n < o)
        BY <2>1
    <2> QED BY <1>2, <2>2, OpsNumbered
<1> QED BY <1>1, <1>2, <1>3, NothingTerminal DEF Fetches

\* The request reads the row of the operation it is at.
LEMMA RowRequested ==
    ASSUME StreamInv, PageType, ListRow
    PROVE  /\ fetch' \in Fetches /\ fetch.at = "row" /\ fetch.op \in Ops
           /\ fetch'.at = "items" /\ fetch'.op = fetch.op
           /\ fetch'.list[fetch.op].version = store[fetch.op].version
           /\ \A o \in Ops : o # fetch.op => fetch'.list[o] = fetch.list[o]
           /\ UNCHANGED <<store, log, conn, reader, spent, cache, target, sources>>
<1> DEFINE p == fetch.op
<1>1. fetch \in Fetches /\ fetch.at = "row" /\ p \in Ops
    BY DEF PageType, Fetches, ListRow
<1>2. fetch.list \in [Ops -> Views] /\ store[p].version \in Nat
    BY <1>1, StreamParts DEF Fetches, Views
<1>3. fetch' = [fetch EXCEPT !.at = "items",
                             !.list[p].version = store[p].version]
    BY DEF ListRow
<1> DEFINE l == [fetch.list EXCEPT ![p].version = store[p].version]
<1>4. l \in [Ops -> Views] /\ l[p].version = store[p].version
      /\ \A o \in Ops : o # p => l[o] = fetch.list[o]
    BY <1>1, <1>2 DEF Views
<1>5. fetch' = [fetch EXCEPT !.at = "items", !.list = l]
    BY <1>1, <1>3 DEF Fetches
<1> HIDE DEF l
<1>6. fetch' \in Fetches /\ fetch'.at = "items" /\ fetch'.op = p /\ fetch'.list = l
    BY <1>1, <1>4, <1>5 DEF Fetches
<1>7. UNCHANGED <<store, log, conn, reader, spent, cache, target, sources>>
    BY DEF ListRow
<1> QED BY <1>1, <1>4, <1>6, <1>7

LEMMA ItemsRequested ==
    ASSUME StreamInv, PageType, ListItems
    PROVE  /\ fetch' \in Fetches /\ fetch.at = "items" /\ fetch.op \in Ops
           /\ fetch'.at \in {"row", "answer"} /\ fetch'.op = fetch.op - 1
           /\ fetch'.at = "row" => fetch'.op \in Ops
           /\ fetch'.at = "answer" <=> fetch.op = 1
           /\ fetch'.list[fetch.op].items = store[fetch.op].items
           /\ fetch'.list[fetch.op].version = fetch.list[fetch.op].version
           /\ \A o \in Ops : o # fetch.op => fetch'.list[o] = fetch.list[o]
           /\ UNCHANGED <<store, log, conn, reader, spent, cache, target, sources>>
<1> DEFINE p == fetch.op
           l == [fetch.list EXCEPT ![p].items = store[p].items]
<1>1. fetch \in Fetches /\ fetch.at = "items" /\ p \in Ops
    BY DEF PageType, Fetches, ListItems
<1>2. fetch.list \in [Ops -> Views] /\ store[p].items \in [Items -> Nat]
    BY <1>1, StreamParts DEF Fetches, Views
<1>3. fetch' = [at |-> IF p = 1 THEN "answer" ELSE "row", op |-> p - 1, list |-> l]
    BY DEF ListItems
<1>4. l \in [Ops -> Views] /\ l[p].items = store[p].items
      /\ l[p].version = fetch.list[p].version
      /\ \A o \in Ops : o # p => l[o] = fetch.list[o]
    BY <1>1, <1>2 DEF Views
<1> HIDE DEF l
<1>5. p - 1 \in Ops \cup {0} /\ (p # 1 => p - 1 \in Ops)
    <2> PICK n \in Nat : n = Cardinality(Ops)
        BY OpsNumbered
    <2>1. p \in 1 .. n
        BY <1>1, OpsNumbered
    <2> PICK q : q = p
        OBVIOUS
    <2>2. q \in 1 .. n
        BY <2>1
    <2>3. q - 1 = 0 \/ q - 1 \in 1 .. n
        BY <2>2
    <2>4. q # 1 => q - 1 \in 1 .. n
        BY <2>2
    <2> QED BY <2>3, <2>4, OpsNumbered
<1>6. fetch' \in Fetches
    BY <1>3, <1>4, <1>5 DEF Fetches
<1>7. UNCHANGED <<store, log, conn, reader, spent, cache, target, sources>>
    BY DEF ListItems
<1> QED BY <1>1, <1>3, <1>4, <1>5, <1>6, <1>7

\* A frame at an event source of the page.
HeardAs(o, event, view) ==
    /\ o \in sources /\ conn[o].out # <<>> /\ event = Head(conn[o].out) /\ event \in Events
    /\ event.view \in Shown(conn[o].out)
    /\ view = Told(cache[o], event) /\ view \in Views /\ view.version = event.view.version
    /\ UNCHANGED <<store, log, spent, target>>
    /\ \/ /\ Terminal(o, view) /\ cache' = [cache EXCEPT ![o] = view]
          /\ sources' = sources \ {o} /\ Dismiss({o}) /\ fetch' = NewFetch
       \/ /\ ~Terminal(o, view) /\ cache' = [cache EXCEPT ![o] = view]
          /\ Heard(o) /\ UNCHANGED <<sources, fetch>>
       \/ Heard(o) /\ UNCHANGED <<cache, sources, fetch>>

LEMMA HearingIs ==
    ASSUME StreamInv, PageType, NEW o \in Ops, Hear(o)
    PROVE  \E event, view : HeardAs(o, event, view)
<1> DEFINE event == Head(conn[o].out)  view == Told(cache[o], event)
<1>1. o \in Clients /\ conn[o] \in Handlers /\ Continued(conn[o], reader[o].id)
    BY CacheAssumption, StreamParts
<1>2. conn[o].out # <<>> /\ conn[o].out \in Seq(Events)
    BY <1>1 DEF Hear, Handlers
<1>3. event \in Events /\ event = conn[o].out[1]
    BY <1>1, <1>2, Receipt
<1>4. event.view \in Shown(conn[o].out)
    <2>1. 1 \in DOMAIN conn[o].out
        BY <1>2, HistoryTypes
    <2> QED BY <1>3, <2>1 DEF Shown
<1>5. view \in Views /\ view.version = event.view.version
    BY <1>3, ToldType DEF PageType, Told
<1>6. HeardAs(o, event, view)
    BY <1>3, <1>4, <1>5 DEF HeardAs, Hear, Heard, Refetched
<1> QED BY <1>6

LEMMA PageTypeInit ==
    ASSUME CacheInit
    PROVE  PageType
<1>1. cache = NoList /\ fetch = NoFetch /\ target = {} /\ sources = {}
      /\ \A o \in Ops : conn[o] = Closed
    BY CacheAssumption DEF CacheInit, Init
<1>2. NoList \in [Ops -> Views]
    BY NothingTerminal DEF NoList
<1>3. Cardinality({}) = 0 /\ MaxStreams \in Nat
    BY FS_EmptySet, CacheAssumption
<1> QED BY <1>1, <1>2, <1>3, Requests DEF PageType, Fetches

\* Steps of the server open no handler without an event source.
LEMMA ServerType ==
    ASSUME StreamInv, PageType, NEW o \in Ops, ServerSteps(o)
    PROVE  PageType'
<1>1. conn \in [Clients -> Handlers] /\ o \in Clients /\ Ops = Clients
    BY StreamParts, CacheAssumption
<1>2. UNCHANGED page
    BY DEF ServerSteps
<1>3. \A p \in Ops : p # o => conn'[p] = conn[p]
    BY <1>1 DEF ServerSteps, Serve, ReadRow, ReadItems, Publish, ReadFails, Drop, StreamEnds,
                SaveOperation, Connect
<1>4. conn'[o] = conn[o] \/ o \in sources
    <2>1. CASE SaveOperation(o)
        BY <2>1 DEF SaveOperation
    <2>2. CASE Serve(o) \/ ReadFails(o) \/ Drop(o) \/ StreamEnds(o)
        <3>1. conn[o].at # "closed"
            BY <2>2 DEF Serve, ReadRow, ReadItems, Publish, ReadFails, Drop, StreamEnds
        <3>2. conn[o] # Closed
            BY <3>1 DEF Closed
        <3> QED BY <3>2 DEF PageType
    <2> QED BY <2>1, <2>2 DEF ServerSteps
<1>5. \A p \in Ops : conn'[p] # Closed => p \in sources
    BY <1>3, <1>4 DEF PageType
<1> QED BY <1>2, <1>5 DEF PageType, page

LEMMA HearType ==
    ASSUME StreamInv, PageType, NEW o \in Ops, Hear(o)
    PROVE  PageType'
<1>1. PICK event, view : HeardAs(o, event, view)
    BY HearingIs
<1>2. conn \in [Clients -> Handlers] /\ Ops = Clients /\ target' = target
    BY <1>1, StreamParts, CacheAssumption DEF HeardAs
<1>3. cache' \in [Ops -> Views] /\ fetch' \in Fetches
      /\ (fetch'.at \in {"row", "items"} => fetch'.op \in Ops)
    BY <1>1, Requests DEF HeardAs, PageType, Fetches
<1>4. sources' \subseteq target
    BY <1>1 DEF HeardAs, PageType
<1>5. ASSUME NEW p \in Ops, conn'[p] # Closed
      PROVE  p \in sources'
    <2>1. CASE Heard(o) /\ sources' = sources
        <3>1. p # o => conn'[p] = conn[p]
            BY <1>2, <2>1 DEF Heard
        <3> QED BY <1>1, <1>5, <2>1, <3>1 DEF HeardAs, PageType
    <2>2. CASE Dismiss({o}) /\ sources' = sources \ {o}
        <3>1. p # o /\ conn'[p] = conn[p]
            BY <1>2, <1>5, <2>2 DEF Dismiss
        <3> QED BY <1>5, <2>2, <3>1 DEF PageType
    <2> QED BY <1>1, <2>1, <2>2 DEF HeardAs
<1> QED BY <1>2, <1>3, <1>4, <1>5 DEF PageType, Fetches

LEMMA PageTypeNext ==
    ASSUME StreamInv, PageType, [CacheNext]_cacheVars
    PROVE  PageType'
<1>1. CASE Poll \/ ListFails
    <2>1. UNCHANGED <<conn, cache, target, sources>>
          /\ (fetch' = NewFetch \/ fetch' = NoFetch)
        BY <1>1 DEF Poll, ListFails
    <2> QED BY <2>1, Requests DEF PageType, Fetches
<1>2. CASE ListRow
    <2>1. UNCHANGED <<conn, cache, target, sources>> /\ fetch' \in Fetches /\ fetch'.op \in Ops
        BY <1>2, RowRequested
    <2> QED BY <2>1 DEF PageType, Fetches
<1>3. CASE ListItems
    <2>1. /\ UNCHANGED <<conn, cache, target, sources>> /\ fetch' \in Fetches
          /\ fetch'.at \in {"row", "answer"} /\ (fetch'.at = "row" => fetch'.op \in Ops)
        BY <1>3, ItemsRequested
    <2> QED BY <2>1 DEF PageType, Fetches
<1>4. CASE ListArrives
    <2>1. UNCHANGED <<conn, target, sources>> /\ fetch' = NoFetch /\ cache' = fetch.list
        BY <1>4 DEF ListArrives
    <2> QED BY <2>1, Requests DEF PageType, Fetches
<1>5. CASE Effect
    <2>1. /\ target' = Selected(cache) /\ sources' = target' /\ UNCHANGED <<cache, fetch>>
          /\ Dismiss(sources \ target') /\ Ops = Clients
        BY <1>5, CacheAssumption DEF Effect
    <2>2. target' \subseteq Ops /\ Cardinality(target') <= MaxStreams
        BY <2>1, FewAreSelected
    <2>3. \A o \in Ops : conn'[o] # Closed => o \in sources'
        BY <2>1 DEF Dismiss, PageType
    <2> QED BY <2>1, <2>2, <2>3 DEF PageType
<1>6. CASE RestartApi
    <2>1. /\ UNCHANGED <<cache, target, sources>> /\ fetch' = NoFetch /\ Ops = Clients
          /\ \A c \in Clients : conn'[c] = conn[c] \/ conn'[c] = Closed
        BY <1>6, CacheAssumption DEF RestartApi, Restart
    <2> QED BY <2>1, Requests DEF PageType, Fetches
<1>7. CASE OthersEvict \/ UNCHANGED cacheVars
    <2>1. UNCHANGED <<conn, cache, fetch, target, sources>>
        BY <1>7 DEF OthersEvict, cacheVars, page
    <2> QED BY <2>1 DEF PageType
<1> QED BY <1>1, <1>2, <1>3, <1>4, <1>5, <1>6, <1>7, HearType, ServerType
        DEF CacheNext, List

LEMMA ResultsInit ==
    ASSUME CacheInit
    PROVE  ResultsInv
<1>1. cache = NoList /\ fetch = NoFetch /\ target = {}
    BY DEF CacheInit
<1>2. \A o \in Ops : ~Terminal(o, cache[o])
    BY <1>1, NothingTerminal DEF NoList
<1> QED BY <1>1, <1>2, Requests
        DEF ResultsInv, SourceGone, CacheTrue, AnswerTrue, Complete, Settled

\* A poll, or one that fails.
LEMMA PollResults ==
    ASSUME StreamInv, PageType, ResultsInv, Poll \/ ListFails
    PROVE  ResultsInv'
<1>1. /\ UNCHANGED <<store, cache, target, sources, restarts>>
      /\ \/ fetch' = NewFetch
         \/ fetch' = NoFetch /\ faults' = faults + 1
    BY DEF Poll, ListFails, spent
<1>2. fetch' = NoFetch => faults' # 0
    BY <1>1, Requests, StreamParts
<1> SUFFICES ASSUME NEW o \in Ops
             PROVE  (SourceGone(o) /\ CacheTrue(o) /\ AnswerTrue(o) /\ Complete(o))'
    BY DEF ResultsInv
<1>3. SourceGone(o) /\ CacheTrue(o)
    BY DEF ResultsInv
<1>4. ~RowIsRead(o)'
    BY <1>1, Requests DEF RowIsRead
<1>5. SourceGone(o)' /\ CacheTrue(o)'
    BY <1>1, <1>3, <1>4 DEF SourceGone, CacheTrue, Terminal
<1>6. AnswerTrue(o)'
    BY <1>1, Requests DEF AnswerTrue, Terminal
<1>7. Complete(o)'
    BY <1>1, <1>2, Requests DEF Complete
<1> QED BY <1>5, <1>6, <1>7

\* The row of an operation that the page shows as finished is terminal.
LEMMA RowResults ==
    ASSUME StreamInv, PageType, ResultsInv, ListRow
    PROVE  ResultsInv'
<1> SUFFICES ASSUME NEW o \in Ops
             PROVE  (SourceGone(o) /\ CacheTrue(o) /\ AnswerTrue(o) /\ Complete(o))'
    BY DEF ResultsInv
<1> PICK p : p = fetch.op
    OBVIOUS
<1>1. /\ fetch.at = "row" /\ fetch'.at = "items" /\ fetch'.op = p
      /\ fetch'.list[p].version = store[p].version
      /\ o # p => fetch'.list[o] = fetch.list[o]
      /\ UNCHANGED <<store, cache, target, sources>>
    BY RowRequested
<1>2. SourceGone(o) /\ CacheTrue(o) /\ AnswerTrue(o)
    BY DEF ResultsInv
<1>3. p \in Nat /\ o \in Nat
    BY OpsNumbered, RowRequested
<1>4. RowIsRead(o)' => o = p \/ RowIsRead(o)
    BY <1>1, <1>3 DEF RowIsRead
<1>5. o = p => (Terminal(o, fetch'.list[o]) <=> Terminal(o, store[o]))
    BY <1>1 DEF Terminal
<1>6. SourceGone(o)'
    <2>1. o \in target \ sources /\ RowIsRead(o)' => Terminal(o, fetch'.list[o])
        BY <1>1, <1>2, <1>4, <1>5 DEF SourceGone, CacheTrue
    <2> QED BY <1>1, <1>2, <2>1 DEF SourceGone
<1>7. AnswerTrue(o)'
    <2>1. CASE o = p
        BY <1>1, <1>5, <2>1 DEF AnswerTrue
    <2>2. CASE o # p
        BY <1>1, <1>2, <2>2 DEF AnswerTrue
    <2> QED BY <2>1, <2>2
<1> QED BY <1>1, <1>2, <1>6, <1>7 DEF CacheTrue, Complete

\* The items of a finished operation are final.
LEMMA ItemsResults ==
    ASSUME StreamInv, PageType, ResultsInv, ListItems
    PROVE  ResultsInv'
<1> SUFFICES ASSUME NEW o \in Ops
             PROVE  (SourceGone(o) /\ CacheTrue(o) /\ AnswerTrue(o) /\ Complete(o))'
    BY DEF ResultsInv
<1> PICK p : p = fetch.op
    OBVIOUS
<1>1. /\ fetch.at = "items" /\ fetch'.at \in {"row", "answer"} /\ fetch'.op = p - 1
      /\ fetch'.at = "answer" <=> p = 1
      /\ fetch'.list[p].items = store[p].items
      /\ fetch'.list[p].version = fetch.list[p].version
      /\ o # p => fetch'.list[o] = fetch.list[o]
      /\ UNCHANGED <<store, cache, target, sources>>
      /\ fetch' \in Fetches
    BY ItemsRequested
<1>2. SourceGone(o) /\ CacheTrue(o) /\ AnswerTrue(o)
    BY DEF ResultsInv
<1>3. p \in Nat /\ o \in Nat /\ o >= 1
    BY OpsNumbered, ItemsRequested
<1>4. RowIsRead(o)' => RowIsRead(o)
    BY <1>1, <1>3 DEF RowIsRead
<1>5. Terminal(o, fetch'.list[o]) <=> Terminal(o, fetch.list[o])
    BY <1>1 DEF Terminal
<1>6. SourceGone(o)'
    <2>1. o \in target \ sources /\ RowIsRead(o)' => Terminal(o, fetch'.list[o])
        BY <1>2, <1>4, <1>5 DEF SourceGone
    <2> QED BY <1>1, <1>2, <2>1 DEF SourceGone
<1>7. ASSUME Terminal(o, fetch'.list[o])
      PROVE  fetch'.list[o] = store[o]
    <2>1. \/ fetch.list[o] = store[o]
          \/ fetch.op = o /\ Terminal(o, store[o])
        BY <1>1, <1>2, <1>5, <1>7 DEF AnswerTrue
    <2>2. CASE o # p
        BY <1>1, <2>1, <2>2
    <2>3. CASE o = p
        <3>1. store[o].version = fetch'.list[o].version
            BY <1>1, <1>7, <2>1, <2>3 DEF Terminal
        <3>2. fetch'.list[o] \in Views /\ store[o] \in Views
            BY <1>1, StreamParts DEF Fetches
        <3> QED BY <1>1, <2>3, <3>1, <3>2 DEF Views
    <2> QED BY <2>2, <2>3
<1>8. AnswerTrue(o)'
    BY <1>1, <1>7 DEF AnswerTrue
<1> QED BY <1>1, <1>2, <1>6, <1>8 DEF CacheTrue, Complete

\* The answer keeps what is shown as finished, and all it has of it is final.
LEMMA ArrivalResults ==
    ASSUME StreamInv, PageType, ResultsInv, ListArrives
    PROVE  ResultsInv'
<1> SUFFICES ASSUME NEW o \in Ops
             PROVE  (SourceGone(o) /\ CacheTrue(o) /\ AnswerTrue(o) /\ Complete(o))'
    BY DEF ResultsInv
<1>1. /\ fetch.at = "answer" /\ cache' = fetch.list /\ fetch' = NoFetch
      /\ UNCHANGED <<store, target, sources>>
    BY DEF ListArrives
<1>2. SourceGone(o) /\ AnswerTrue(o)
    BY DEF ResultsInv
<1>3. ~RowIsRead(o)' /\ RowIsRead(o) /\ fetch'.at = "none"
    BY <1>1, Requests DEF RowIsRead
<1>4. SourceGone(o)'
    BY <1>1, <1>2, <1>3 DEF SourceGone
<1>5. Terminal(o, cache'[o]) => cache'[o] = store'[o]
    BY <1>1, <1>2 DEF AnswerTrue
<1>6. CacheTrue(o)'
    BY <1>5 DEF CacheTrue
<1> QED BY <1>3, <1>4, <1>5, <1>6 DEF AnswerTrue, Complete, Settled

\* A finished operation is asked for again, and what is under way is abandoned.
LEMMA HearResults ==
    ASSUME StreamInv, PageType, EventsInv, ResultsInv, NEW p \in Ops, Hear(p)
    PROVE  ResultsInv'
<1>1. PICK event, view : HeardAs(p, event, view)
    BY HearingIs
<1>2. cache \in [Ops -> Views] /\ UNCHANGED <<store, target, restarts, faults>> /\ p \in sources
    BY <1>1 DEF HeardAs, PageType, spent
<1>3. Terminal(p, view) => Terminal(p, store[p])
    <2>1. p \in Clients /\ Watches[p] = p
        BY CacheAssumption
    <2>2. Settled(p, event.view, store[p])
        BY <1>1, <2>1 DEF EventsInv, HeardAs
    <2>3. view.version = event.view.version
        BY <1>1 DEF HeardAs
    <2> QED BY <2>2, <2>3 DEF Settled, Terminal
<1> SUFFICES ASSUME NEW o \in Ops
             PROVE  (SourceGone(o) /\ CacheTrue(o) /\ AnswerTrue(o) /\ Complete(o))'
    BY DEF ResultsInv
<1>4. SourceGone(o) /\ CacheTrue(o) /\ AnswerTrue(o) /\ Complete(o)
    BY DEF ResultsInv
<1>5. CASE Terminal(p, view) /\ cache' = [cache EXCEPT ![p] = view]
           /\ sources' = sources \ {p} /\ fetch' = NewFetch
    <2>1. Terminal(o, cache'[o]) <=> o = p \/ Terminal(o, cache[o])
        BY <1>2, <1>5
    <2>2. ~RowIsRead(o)' /\ fetch'.at = "row" /\ ~Terminal(o, fetch'.list[o])
        BY <1>5, Requests DEF RowIsRead
    <2>3. SourceGone(o)'
        BY <1>2, <1>4, <1>5, <2>1, <2>2 DEF SourceGone
    <2>4. CacheTrue(o)'
        BY <1>2, <1>3, <1>4, <1>5, <2>1 DEF CacheTrue
    <2> QED BY <2>2, <2>3, <2>4 DEF AnswerTrue, Complete
<1>6. CASE ~Terminal(p, view) /\ cache' = [cache EXCEPT ![p] = view]
           /\ UNCHANGED <<sources, fetch>>
    <2>1. /\ o # p => cache'[o] = cache[o]
          /\ o = p => ~Terminal(o, cache'[o])
        BY <1>2, <1>6
    <2>2. SourceGone(o)'
        BY <1>2, <1>4, <1>6, <2>1 DEF SourceGone, RowIsRead
    <2>3. CacheTrue(o)' /\ Complete(o)'
        BY <1>2, <1>4, <1>6, <2>1 DEF CacheTrue, Complete, Settled
    <2>4. AnswerTrue(o)'
        BY <1>2, <1>4, <1>6 DEF AnswerTrue
    <2> QED BY <2>2, <2>3, <2>4
<1>7. CASE UNCHANGED <<cache, sources, fetch>>
    BY <1>2, <1>4, <1>7
       DEF SourceGone, CacheTrue, AnswerTrue, Complete, RowIsRead, Settled, Terminal
<1> QED BY <1>1, <1>5, <1>6, <1>7 DEF HeardAs

LEMMA ServerResults ==
    ASSUME StreamInv, PageType, ResultsInv, NEW p \in Ops, ServerSteps(p)
    PROVE  ResultsInv'
<1> SUFFICES ASSUME NEW o \in Ops
             PROVE  (SourceGone(o) /\ CacheTrue(o) /\ AnswerTrue(o) /\ Complete(o))'
    BY DEF ResultsInv
<1>1. UNCHANGED <<cache, fetch, target, sources>>
    BY DEF ServerSteps, page
<1>2. SourceGone(o) /\ CacheTrue(o) /\ AnswerTrue(o) /\ Complete(o)
    BY DEF ResultsInv
<1>3. restarts' = restarts /\ (faults' = faults \/ faults' = faults + 1)
    BY DEF ServerSteps, Serve, ReadRow, ReadItems, Publish, ReadFails, Drop, StreamEnds,
           SaveOperation, Connect, spent
<1>4. faults' = 0 /\ restarts' = 0 => faults = 0 /\ restarts = 0
    BY <1>3, StreamParts
<1>5. Terminal(o, store[o]) => store'[o] = store[o]
    <2>1. CASE SaveOperation(p)
        BY <2>1, SavedStaysSettled
    <2>2. CASE UNCHANGED store
        BY <2>2
    <2> QED BY <2>1, <2>2 DEF ServerSteps, Serve, ReadRow, ReadItems, Publish, ReadFails, Drop,
                              StreamEnds, Connect
<1>6. SourceGone(o)'
    BY <1>1, <1>2 DEF SourceGone, RowIsRead, Terminal
<1>7. CacheTrue(o)'
    BY <1>1, <1>2, <1>5 DEF CacheTrue
<1>8. AnswerTrue(o)'
    BY <1>1, <1>2, <1>5 DEF AnswerTrue
<1>9. Complete(o)'
    <2>1. Terminal(o, cache[o]) => Terminal(o, store[o])
        BY <1>2 DEF CacheTrue
    <2> QED BY <1>1, <1>2, <1>4, <1>5, <2>1 DEF Complete, Settled
<1> QED BY <1>6, <1>7, <1>8, <1>9

LEMMA ResultsNext ==
    ASSUME StreamInv, PageType, EventsInv, ResultsInv, [CacheNext]_cacheVars
    PROVE  ResultsInv'
<1>1. CASE Effect
    <2>1. UNCHANGED <<store, cache, fetch, faults, restarts>> /\ sources' = target'
        BY <1>1 DEF Effect, spent
    <2> QED BY <2>1 DEF ResultsInv, SourceGone, CacheTrue, AnswerTrue, Complete, Settled,
                        Terminal
<1>2. CASE RestartApi
    <2>1. /\ UNCHANGED <<store, cache, target, sources>> /\ fetch' = NoFetch
          /\ fetch'.at = "none" /\ restarts' # 0
        BY <1>2, Requests, StreamParts DEF RestartApi, Restart
    <2> QED BY <2>1 DEF ResultsInv, SourceGone, CacheTrue, AnswerTrue, Complete, Settled,
                        Terminal, RowIsRead
<1>3. CASE OthersEvict \/ UNCHANGED cacheVars
    <2>1. UNCHANGED <<store, cache, fetch, target, sources, faults, restarts>>
        BY <1>3 DEF OthersEvict, cacheVars, page
    <2> QED BY <2>1 DEF ResultsInv, SourceGone, CacheTrue, AnswerTrue, Complete, Settled,
                        Terminal, RowIsRead
<1> QED BY <1>1, <1>2, <1>3, PollResults, RowResults, ItemsResults, ArrivalResults,
           HearResults, ServerResults DEF CacheNext, List

\* What holds of the page and of the server it talks to.
CacheInv == StreamInv /\ ReadInv /\ PageInv

THEOREM PageInvariance == CacheSpec => []CacheInv
<1>1. CacheInit => CacheInv
    <2> SUFFICES ASSUME CacheInit PROVE CacheInv
        OBVIOUS
    <2>1. StreamInv /\ ReadInv /\ PageType /\ ResultsInv
        BY PageStreamInit, ReadInit, PageTypeInit, ResultsInit DEF CacheInit
    <2>2. log = <<>> /\ \A c \in Clients : conn[c].out = <<>>
        BY DEF CacheInit, Init, Closed
    <2>3. EventsInv
        BY <2>2, ShownNone DEF EventsInv
    <2> QED BY <2>1, <2>3 DEF CacheInv, PageInv
<1>2. CacheInv /\ [CacheNext]_cacheVars => CacheInv'
    BY PageStreams, PageReads, PageTypeNext, EventsNext, ResultsNext DEF CacheInv, PageInv
<1> QED BY <1>1, <1>2, PTL DEF CacheSpec

\* The page has at most MaxStreams event sources, each for an operation of the list, and
\* no handler serves it without one; the server's variables keep their shape too.
THEOREM PageTypeCorrectness == CacheSpec => []CacheTypeOK
<1>1. CacheInv => CacheTypeOK
    <2> SUFFICES ASSUME CacheInv PROVE CacheTypeOK
        OBVIOUS
    <2>1. TypeOK /\ PageType
        BY DEF CacheInv, StreamInv, PageInv
    <2>2. IsFiniteSet(target)
        BY <2>1, OpsNumbered, FS_Subset DEF PageType
    <2>3. Cardinality(sources) <= Cardinality(target) /\ Cardinality(sources) \in Nat
          /\ Cardinality(target) \in Nat /\ Cardinality(target) <= MaxStreams
          /\ MaxStreams \in Nat
        BY <2>1, <2>2, FS_Subset, FS_CardinalityType, CacheAssumption DEF PageType
    <2> QED BY <2>1, <2>3 DEF CacheTypeOK, PageType
<1> QED BY <1>1, PageInvariance, PTL

\* An operation that is shown as finished shows the final state of every item once no
\* request is under way: the source is closed before the items' events, but the answer
\* that is then asked for reads an operation that cannot change any more.
THEOREM FinishedIsComplete == CacheSpec => []FinishedShowsAll
<1>1. CacheInv => FinishedShowsAll
    BY DEF CacheInv, PageInv, ResultsInv, Complete, Settled, FinishedShowsAll
<1> QED BY <1>1, PageInvariance, PTL

\* Whenever the effects have run, every operation that is to be followed has its event
\* source: one is closed only by a terminal event, and no answer takes that back.
THEOREM ChosenHaveSources == CacheSpec => []ChosenAreFollowed
<1>1. CacheInv => ChosenAreFollowed
    <2> SUFFICES ASSUME CacheInv, target = Selected(cache) PROVE sources = target
        BY DEF ChosenAreFollowed
    <2>1. sources \subseteq target /\ target \subseteq Active(cache) /\ target \subseteq Ops
        BY FewAreSelected DEF CacheInv, PageInv, PageType
    <2>2. \A o \in target \ sources : Terminal(o, cache[o])
        BY <2>1 DEF CacheInv, PageInv, ResultsInv, SourceGone
    <2> QED BY <2>1, <2>2 DEF Active
<1> QED BY <1>1, PageInvariance, PTL

=============================================================================
