----------------------- MODULE OperationCreationProofs -----------------------
(***************************************************************************)
(* For any number of calls, keys and seats: the types of                   *)
(* OperationCreation, what a caller is given, that the page sends no key   *)
(* with two intents nor makes a second operation unaware, and that the     *)
(* transactions of PostgreSQL implement CreateOnce.                        *)
(***************************************************************************)
EXTENDS OperationCreation, FiniteSetTheorems, TLAPS

\* The inductive invariant.  A call that is not done has no answer and made
\* nothing; a key of the table names an operation that was made with the seats of
\* its hash; a transaction that holds a key holds it alone, and the key is not in
\* the table.
CallInv ==
    \A c \in Calls :
        /\ call[c].at = "unsent" => call[c] = Unsent
        /\ call[c].at \in {"insert", "commit", "race"} => ~Invalid(call[c].body)
        /\ call[c].at # "done" => call[c].answer = NoAnswer /\ made[c] = {}

RowInv ==
    \A k \in Keys : rows[k] # NoRow =>
        /\ rows[k].op \in Calls
        /\ made[rows[k].op] # {}
        /\ made[rows[k].op] = IF rows[k].hash = {} THEN Seats ELSE rows[k].hash

LockInv ==
    \A c, d \in Calls :
        call[c].at = "commit" =>
            /\ rows[call[c].key] = NoRow
            /\ call[d].at = "commit" /\ call[d].key = call[c].key => d = c

PageInv == pending # NoCall => call[pending].at # "unsent"

CreationInv == TypeOK /\ CallInv /\ RowInv /\ LockInv /\ PageInv /\ AnswerFits
-----------------------------------------------------------------------------
\* ClassroomDetailPage.tsx 100: what the page sends is a sequence of chosen seats.
LEMMA SentSeats ==
    ASSUME NEW seats, seats \subseteq Seats, NEW body \in TargetSeatIds(seats)
    PROVE  body \in Seq(Nat) /\ SeatsOf(body) \subseteq Seats
<1>1. IsFiniteSet(seats) /\ seats \subseteq Nat
  BY FS_Subset, CreationAssumption
<1>2. Cardinality(seats) \in Nat
  BY <1>1, FS_CardinalityType
<1>3. body \in [1 .. Cardinality(seats) -> seats]
  BY DEF TargetSeatIds
<1>4. body \in [1 .. Cardinality(seats) -> Nat]
  BY <1>1, <1>3
<1>5. body \in Seq(Nat)
  BY <1>2, <1>4
<1>6. SeatsOf(body) \subseteq Seats
  BY <1>3 DEF SeatsOf
<1> QED
  BY <1>5, <1>6

\* The keys of the page are keys.
LEMMA PageKeys == TypeOK => KeysFor(chosen) \subseteq Keys
<1> SUFFICES ASSUME TypeOK, NEW k \in KeysFor(chosen) PROVE k \in Keys
  OBVIOUS
<1>1. Synchronized(active, chosen).key \in Keys \cup {NoKey}
  BY DEF TypeOK, Synchronized, Intents, NoIntent
<1> QED
  BY <1>1 DEF KeysFor

LEMMA InitInv == Init => CreationInv
<1> SUFFICES ASSUME Init PROVE CreationInv
  OBVIOUS
<1> USE CreationAssumption DEF Init
<1>1. Unsent \in Requests
  BY DEF Unsent, Requests, Answers, NoAnswer, NoKey, NoOp
<1>2. TypeOK
  BY <1>1 DEF TypeOK, Intents, NoIntent, NoRow, NoKey, NoOp, NoCall, Unsent
<1>3. CallInv
  BY DEF CallInv, Unsent
<1>4. RowInv /\ LockInv /\ PageInv
  BY DEF RowInv, LockInv, PageInv, Unsent, NoCall
<1>5. AnswerFits
  BY DEF AnswerFits, Unsent, NoAnswer
<1> QED
  BY <1>2, <1>3, <1>4, <1>5 DEF CreationInv

-----------------------------------------------------------------------------
(* The page.  None of its steps changes the database.                        *)

LEMMA SelectInv == CreationInv /\ Select => CreationInv'
<1> SUFFICES ASSUME CreationInv, Select PROVE CreationInv'
    OBVIOUS
<1> USE DEF CreationInv, Select, database
<1>1. chosen' \subseteq Seats
    BY CreationAssumption DEF TypeOK
<1>2. active' \in Intents /\ stored' = active'
    BY <1>1 DEF TypeOK, Intents, Persist, Synchronized, NoIntent, NoKey
<1>3. TypeOK'
    BY <1>1, <1>2 DEF TypeOK
<1>4. CallInv' /\ RowInv' /\ LockInv' /\ PageInv' /\ AnswerFits'
    BY DEF CallInv, RowInv, LockInv, PageInv, AnswerFits
<1> QED
    BY <1>3, <1>4

LEMMA ReloadInv == CreationInv /\ Reload => CreationInv'
<1> SUFFICES ASSUME CreationInv, Reload PROVE CreationInv'
    OBVIOUS
<1> USE DEF CreationInv, Reload, database
<1>1. active' \in Intents /\ stored' = active'
    BY DEF TypeOK, Intents, Persist, Synchronized, NoIntent, NoKey
<1>2. TypeOK'
    BY <1>1 DEF TypeOK, NoCall
<1>3. CallInv' /\ RowInv' /\ LockInv' /\ PageInv' /\ AnswerFits'
    BY DEF CallInv, RowInv, LockInv, PageInv, AnswerFits
<1> QED
    BY <1>2, <1>3

\* A request that is sent changes nothing but its own, unsent, record.
LEMMA SentInv ==
    ASSUME CreationInv, NEW c \in Calls, IsNext(c), NEW by \in {"page", "client"},
           NEW key \in Keys, NEW body \in Seq(Nat), Sent(c, by, key, body),
           UNCHANGED database
    PROVE  /\ call' \in [Calls -> Requests]
           /\ \A d \in Calls : call'[d].key = NoKey <=> call'[d].at = "unsent"
           /\ call'[c].at = "lookup" /\ call'[c].by = by /\ ~call'[c].told
           /\ \A d \in Calls \ {c} : call'[d] = call[d]
           /\ CallInv' /\ RowInv' /\ LockInv' /\ AnswerFits'
<1> USE DEF CreationInv
<1> DEFINE sent == [Unsent EXCEPT !.at = "lookup", !.by = by,
                                  !.key = key, !.body = body]
<1>1. sent \in Requests
    BY DEF Unsent, Requests, Answers, NoAnswer, NoKey, NoOp
<1>2. sent.at = "lookup" /\ sent.by = by /\ ~sent.told /\ sent.answer = NoAnswer
      /\ sent.key = key
    BY DEF Unsent
<1>3. call' = [call EXCEPT ![c] = sent]
    BY DEF Sent
<1> HIDE DEF sent
<1>4. call' \in [Calls -> Requests] /\ call'[c] = sent
    BY <1>1, <1>3 DEF TypeOK
<1>5. \A d \in Calls \ {c} : call'[d] = call[d]
    BY <1>3 DEF TypeOK
<1>6. key # NoKey
    BY CreationAssumption DEF NoKey
<1>7. \A d \in Calls : call'[d].key = NoKey <=> call'[d].at = "unsent"
    BY <1>2, <1>4, <1>5, <1>6 DEF TypeOK
<1>8. made[c] = {} /\ rows' = rows /\ made' = made
    BY DEF CallInv, IsNext, database
<1>9. CallInv'
    BY <1>2, <1>4, <1>5, <1>8 DEF CallInv
<1>10. RowInv'
    BY <1>8 DEF RowInv
<1>11. LockInv'
    BY <1>2, <1>4, <1>5, <1>8 DEF LockInv
<1>12. AnswerFits'
    BY <1>2, <1>4, <1>5, <1>8 DEF AnswerFits, NoAnswer
<1> QED
    BY <1>2, <1>4, <1>5, <1>7, <1>9, <1>10, <1>11, <1>12

LEMMA StartInv == ASSUME NEW c \in Calls PROVE CreationInv /\ Start(c) => CreationInv'
<1> SUFFICES ASSUME CreationInv, Start(c) PROVE CreationInv'
    OBVIOUS
<1> USE DEF CreationInv
<1>1. PICK body \in TargetSeatIds(chosen), key \in KeysFor(chosen) :
            /\ Sent(c, "page", key, body)
            /\ Persist([intent |-> chosen, key |-> key])
    BY DEF Start
<1>2. body \in Seq(Nat) /\ key \in Keys
    BY SentSeats, PageKeys DEF TypeOK
<1>3. IsNext(c) /\ UNCHANGED database /\ pending' = c /\ chosen' = chosen
      /\ changed' = changed /\ faults' = faults
    BY DEF Start
<1>4. /\ call' \in [Calls -> Requests]
      /\ \A d \in Calls : call'[d].key = NoKey <=> call'[d].at = "unsent"
      /\ call'[c].at = "lookup" /\ call'[c].by = "page" /\ ~call'[c].told
      /\ CallInv' /\ RowInv' /\ LockInv' /\ AnswerFits'
    BY <1>1, <1>2, <1>3, SentInv
<1>5. active' \in Intents /\ stored' = active'
    BY <1>1, <1>2 DEF Persist, Intents, TypeOK
<1>6. TypeOK'
    BY <1>3, <1>4, <1>5 DEF TypeOK, database
<1>7. PageInv'
    BY <1>3, <1>4 DEF PageInv
<1> QED
    BY <1>4, <1>6, <1>7

LEMMA ClientSendsInv ==
    ASSUME NEW c \in Calls PROVE CreationInv /\ ClientSends(c) => CreationInv'
<1> SUFFICES ASSUME CreationInv, ClientSends(c) PROVE CreationInv'
    OBVIOUS
<1> USE DEF CreationInv
<1>1. PICK body \in Bodies : Sent(c, "client", ClientKey, body)
    BY DEF ClientSends
<1>2. IsNext(c) /\ UNCHANGED <<database, page, faults>>
    BY DEF ClientSends
<1>3. /\ call' \in [Calls -> Requests]
      /\ \A d \in Calls : call'[d].key = NoKey <=> call'[d].at = "unsent"
      /\ \A d \in Calls \ {c} : call'[d] = call[d]
      /\ CallInv' /\ RowInv' /\ LockInv' /\ AnswerFits'
    BY <1>1, <1>2, SentInv, CreationAssumption
<1>4. pending # NoCall => pending # c
    BY <1>2 DEF PageInv, IsNext
<1>5. TypeOK'
    BY <1>2, <1>3, <1>4 DEF TypeOK, database, page
<1>6. PageInv'
    BY <1>2, <1>3, <1>4 DEF PageInv, page, TypeOK
<1> QED
    BY <1>3, <1>5, <1>6

LEMMA ToldInv == ASSUME NEW c \in Calls PROVE CreationInv /\ Told(c) => CreationInv'
<1> SUFFICES ASSUME CreationInv, Told(c) PROVE CreationInv'
    OBVIOUS
<1> USE DEF CreationInv
<1>0. UNCHANGED <<rows, made, changed, faults>> /\ pending' = NoCall
    BY DEF Told, database
<1>1. /\ call' \in [Calls -> Requests]
      /\ \A d \in Calls : /\ call'[d].at = call[d].at
                          /\ call'[d].key = call[d].key
                          /\ call'[d].body = call[d].body
                          /\ call'[d].answer = call[d].answer
    BY DEF Told, TypeOK, Requests
<1>2. call[c].at # "unsent"
    BY DEF Told, CallInv, Unsent
<1>3. chosen' \subseteq Seats /\ active' \in Intents /\ stored' = active'
    <2> DEFINE left == IF active.intent = SeatsOf(call[c].body)
                       THEN NoIntent ELSE Synchronized(active, {})
    <2>1. left \in Intents
        BY DEF TypeOK, Intents, Synchronized, NoIntent
    <2> HIDE DEF left
    <2>2. CASE call[c].answer.op # NoOp
        <3>1. chosen' = {} /\ Persist(left)
            BY <2>2 DEF Told, left
        <3> QED BY <2>1, <3>1 DEF Persist
    <2>3. CASE call[c].answer.op = NoOp
        BY <2>3 DEF Told, TypeOK
    <2> QED BY <2>2, <2>3
<1>4. TypeOK'
    BY <1>0, <1>1, <1>3 DEF TypeOK
<1>5. CallInv'
    <2> SUFFICES ASSUME NEW d \in Calls
                 PROVE  /\ call'[d].at = "unsent" => call'[d] = Unsent
                        /\ call'[d].at \in {"insert", "commit", "race"}
                                => ~Invalid(call'[d].body)
                        /\ call'[d].at # "done" => call'[d].answer = NoAnswer /\ made[d] = {}
        BY <1>0 DEF CallInv
    <2>1. call'[d].at = "unsent" => call'[d] = call[d]
        BY <1>1, <1>2 DEF Told, TypeOK
    <2> QED
        BY <1>0, <1>1, <2>1 DEF CallInv
<1>6. RowInv' /\ LockInv' /\ PageInv' /\ AnswerFits'
    BY <1>0, <1>1 DEF RowInv, LockInv, PageInv, AnswerFits
<1> QED
    BY <1>4, <1>5, <1>6
-----------------------------------------------------------------------------
(* The transactions.                                                         *)

Kinds == {"created", "existing", "conflict", "invalid", "error"}

\* What an answer changes of the requests.
LEMMA AnsweredCalls ==
    ASSUME TypeOK, NEW c \in Calls, call[c].at # "unsent",
           NEW kind \in Kinds, NEW op \in Calls \cup {NoOp}, Answered(c, kind, op)
    PROVE  /\ call' \in [Calls -> Requests]
           /\ call'[c].at = "done" /\ call'[c].answer.op = op
           /\ \A d \in Calls : /\ call'[d].key = call[d].key
                               /\ call'[d].by = call[d].by
                               /\ call'[d].body = call[d].body
                               /\ call'[d].told = call[d].told
           /\ \A d \in Calls \ {c} : call'[d] = call[d]
           /\ \A d \in Calls : call'[d].key = NoKey <=> call'[d].at = "unsent"
<1> DEFINE answer == [kind |-> kind, op |-> op]
<1>1. answer \in Answers /\ answer.op = op
    BY DEF Answers, Kinds
<1>2. call' = [call EXCEPT ![c].at = "done", ![c].answer = answer]
    BY DEF Answered
<1> HIDE DEF answer
<1> QED
    BY <1>1, <1>2 DEF TypeOK, Requests

\* An answer given without touching the database.
LEMMA AnsweredInv ==
    ASSUME CreationInv, NEW c \in Calls, call[c].at \notin {"unsent", "done"},
           NEW kind \in Kinds, NEW op \in Calls \cup {NoOp}, Answered(c, kind, op),
           op # NoOp => made[op] = Targets(call[c].body),
           UNCHANGED <<database, page>>, faults' \in Nat
    PROVE  CreationInv'
<1> USE DEF CreationInv
<1>1. /\ call' \in [Calls -> Requests]
      /\ call'[c].at = "done" /\ call'[c].answer.op = op
      /\ \A d \in Calls : /\ call'[d].key = call[d].key
                          /\ call'[d].by = call[d].by
                          /\ call'[d].body = call[d].body
                          /\ call'[d].told = call[d].told
      /\ \A d \in Calls \ {c} : call'[d] = call[d]
      /\ \A d \in Calls : call'[d].key = NoKey <=> call'[d].at = "unsent"
    BY AnsweredCalls
<1>2. rows' = rows /\ made' = made /\ pending' = pending /\ chosen' = chosen
      /\ active' = active /\ stored' = stored /\ changed' = changed
    BY DEF database, page
<1>3. TypeOK'
    BY <1>1, <1>2 DEF TypeOK
<1>4. CallInv'
    BY <1>1, <1>2 DEF CallInv
<1>5. RowInv' /\ PageInv'
    BY <1>1, <1>2 DEF RowInv, PageInv, TypeOK
<1>6. LockInv'
    BY <1>1, <1>2 DEF LockInv
<1>7. AnswerFits'
    BY <1>1, <1>2 DEF AnswerFits
<1> QED
    BY <1>3, <1>4, <1>5, <1>6, <1>7

\* A transaction goes on.
LEMMA MovedInv ==
    ASSUME CreationInv, NEW c \in Calls, call[c].at \in {"lookup", "insert"},
           NEW at \in {"insert", "commit", "race"}, ~Invalid(call[c].body),
           call' = [call EXCEPT ![c].at = at],
           at = "commit" => rows[call[c].key] = NoRow /\ Free(c),
           UNCHANGED <<database, page, faults>>
    PROVE  CreationInv'
<1> USE DEF CreationInv
<1>1. /\ call' \in [Calls -> Requests]
      /\ call'[c].at = at
      /\ \A d \in Calls : /\ call'[d].key = call[d].key
                          /\ call'[d].by = call[d].by
                          /\ call'[d].body = call[d].body
                          /\ call'[d].answer = call[d].answer
                          /\ call'[d].told = call[d].told
      /\ \A d \in Calls \ {c} : call'[d] = call[d]
    BY DEF TypeOK, Requests
<1>2. rows' = rows /\ made' = made /\ pending' = pending /\ chosen' = chosen
      /\ active' = active /\ stored' = stored /\ changed' = changed /\ faults' = faults
    BY DEF database, page
<1>3. TypeOK'
    BY <1>1, <1>2 DEF TypeOK
<1>4. CallInv'
    BY <1>1, <1>2 DEF CallInv
<1>5. RowInv' /\ PageInv'
    BY <1>1, <1>2 DEF RowInv, PageInv, TypeOK
<1>6. LockInv'
    BY <1>1, <1>2 DEF LockInv, Free
<1>7. AnswerFits'
    BY <1>1, <1>2 DEF AnswerFits
<1> QED
    BY <1>3, <1>4, <1>5, <1>6, <1>7

\* The answer for a key of the table fits: equal hashes mean equal seats.
LEMMA AnsweredFromInv ==
    ASSUME CreationInv, NEW c \in Calls, call[c].at \notin {"unsent", "done"},
           rows[call[c].key] # NoRow, AnsweredFrom(c, rows[call[c].key]),
           UNCHANGED <<database, page, faults>>
    PROVE  CreationInv'
<1> USE DEF CreationInv
<1> DEFINE row == rows[call[c].key]
<1>1. call[c].key \in Keys /\ faults' \in Nat
    BY DEF TypeOK, Requests
<1>2. row.op \in Calls /\ made[row.op] = IF row.hash = {} THEN Seats ELSE row.hash
    BY <1>1 DEF RowInv
<1>3. CASE row.hash = Hash(call[c].body)
    <2>1. Answered(c, "existing", row.op)
        BY <1>3 DEF AnsweredFrom
    <2>2. made[row.op] = Targets(call[c].body)
        BY <1>2, <1>3 DEF Hash, Targets
    <2> QED BY <1>1, <1>2, <2>1, <2>2, AnsweredInv DEF Kinds
<1>4. CASE row.hash # Hash(call[c].body)
    <2>1. Answered(c, "conflict", NoOp)
        BY <1>4 DEF AnsweredFrom
    <2> QED BY <1>1, <2>1, AnsweredInv DEF Kinds
<1> QED
    BY <1>3, <1>4

\* The commit, whatever the caller gets to know of it.
LEMMA CommitsInv ==
    ASSUME CreationInv, NEW c \in Calls, Commits(c),
           NEW kind \in Kinds, NEW op \in {c, NoOp}, Answered(c, kind, op),
           UNCHANGED page, faults' \in Nat
    PROVE  CreationInv'
<1> USE DEF CreationInv
<1> DEFINE key == call[c].key
           targets == Targets(call[c].body)
           row == [hash |-> Hash(call[c].body), op |-> c]
<1>1. call[c].at = "commit" /\ key \in Keys /\ op \in Calls \cup {NoOp}
    BY DEF Commits, TypeOK, Requests
<1>2. /\ call' \in [Calls -> Requests]
      /\ call'[c].at = "done" /\ call'[c].answer.op = op
      /\ \A d \in Calls : /\ call'[d].key = call[d].key
                          /\ call'[d].by = call[d].by
                          /\ call'[d].body = call[d].body
                          /\ call'[d].told = call[d].told
      /\ \A d \in Calls \ {c} : call'[d] = call[d]
      /\ \A d \in Calls : call'[d].key = NoKey <=> call'[d].at = "unsent"
    BY <1>1, AnsweredCalls
<1>3. SeatsOf(call[c].body) \subseteq Seats
    BY <1>1 DEF CallInv, Invalid
<1>4. targets \subseteq Seats /\ targets # {} /\ row.hash \subseteq Seats
      /\ targets = IF row.hash = {} THEN Seats ELSE row.hash
    BY <1>3, CreationAssumption DEF Targets, Hash
<1>5. row \in [hash : SUBSET Seats, op : Calls \cup {NoOp}] /\ row.op = c
    BY <1>4
<1>6. rows' = [rows EXCEPT ![key] = row] /\ made' = [made EXCEPT ![c] = targets]
    BY DEF Commits
<1>7. made[c] = {} /\ rows[key] = NoRow
    BY <1>1 DEF CallInv, LockInv
<1> HIDE DEF row, targets
<1>8. rows'[key] = row /\ (\A k \in Keys \ {key} : rows'[k] = rows[k])
      /\ made'[c] = targets /\ (\A d \in Calls \ {c} : made'[d] = made[d])
    BY <1>1, <1>6 DEF TypeOK
<1>9. pending' = pending /\ chosen' = chosen /\ active' = active /\ stored' = stored
      /\ changed' = changed
    BY DEF page
<1>10. TypeOK'
    <2>1. rows' \in [Keys -> [hash : SUBSET Seats, op : Calls \cup {NoOp}]]
        BY <1>5, <1>6 DEF TypeOK
    <2>2. made' \in [Calls -> SUBSET Seats]
        BY <1>4, <1>6 DEF TypeOK
    <2> QED BY <1>2, <1>9, <2>1, <2>2 DEF TypeOK
<1>11. CallInv'
    BY <1>2, <1>8 DEF CallInv
<1>12. RowInv'
    <2> SUFFICES ASSUME NEW k \in Keys, rows'[k] # NoRow
                 PROVE  /\ rows'[k].op \in Calls
                        /\ made'[rows'[k].op] # {}
                        /\ made'[rows'[k].op] =
                                IF rows'[k].hash = {} THEN Seats ELSE rows'[k].hash
        BY DEF RowInv
    <2>1. CASE k = key
        BY <1>4, <1>5, <1>8, <2>1
    <2>2. CASE k # key
        <3>1. rows'[k] = rows[k]
            BY <1>8, <2>2
        <3>2. rows[k].op \in Calls /\ rows[k].op # c
            BY <1>7, <3>1 DEF RowInv
        <3> QED BY <1>8, <3>1, <3>2 DEF RowInv
    <2> QED BY <2>1, <2>2
<1>13. LockInv'
    <2> SUFFICES ASSUME NEW b \in Calls, NEW d \in Calls, call'[b].at = "commit"
                 PROVE  /\ rows'[call'[b].key] = NoRow
                        /\ call'[d].at = "commit" /\ call'[d].key = call'[b].key
                                => d = b
        BY DEF LockInv
    <2>1. b # c /\ call'[b] = call[b]
        BY <1>2
    <2>2. call[b].key # key /\ call[b].key \in Keys
        BY <1>1, <1>2, <2>1 DEF LockInv, TypeOK, Requests
    <2>3. d # c /\ call'[d].at = "commit" => call'[d] = call[d]
        BY <1>2
    <2> QED BY <1>2, <1>8, <2>1, <2>2, <2>3 DEF LockInv
<1>14. PageInv'
    BY <1>2, <1>9 DEF PageInv, TypeOK
<1>15. AnswerFits'
    <2> SUFFICES ASSUME NEW d \in Calls, call'[d].answer.op # NoOp
                 PROVE  made'[call'[d].answer.op] = Targets(call'[d].body)
        BY DEF AnswerFits
    <2>1. CASE d = c
        BY <1>2, <1>8, <2>1 DEF targets
    <2>2. CASE d # c
        <3>1. call'[d] = call[d] /\ made[call[d].answer.op] = Targets(call[d].body)
            BY <1>2, <2>2 DEF AnswerFits
        <3>2. call[d].answer.op \in Calls
            BY <2>2, <3>1 DEF TypeOK, Requests, Answers
        <3>3. Targets(call[d].body) # {}
            BY CreationAssumption DEF Targets
        <3> QED BY <1>7, <1>8, <3>1, <3>2, <3>3
    <2> QED BY <2>1, <2>2
<1> QED
    BY <1>10, <1>11, <1>12, <1>13, <1>14, <1>15
-----------------------------------------------------------------------------
LEMMA ServeInv == ASSUME NEW c \in Calls PROVE CreationInv /\ Serve(c) => CreationInv'
<1> SUFFICES ASSUME CreationInv, Serve(c) PROVE CreationInv'
    OBVIOUS
<1>1. faults \in Nat
    BY DEF CreationInv, TypeOK
<1>2. CASE Refuse(c)
    BY <1>1, <1>2, AnsweredInv DEF Refuse, Kinds
<1>3. CASE Lookup(c)
    <2>1. CASE rows[call[c].key] = NoRow
        <3>1. call' = [call EXCEPT ![c].at = "insert"]
            BY <1>3, <2>1 DEF Lookup
        <3> QED BY <1>3, <3>1, MovedInv DEF Lookup
    <2>2. CASE rows[call[c].key] # NoRow
        BY <1>3, <2>2, AnsweredFromInv DEF Lookup
    <2> QED BY <2>1, <2>2
<1>4. CASE InsertKey(c)
    <2> DEFINE at == IF rows[call[c].key] = NoRow THEN "commit" ELSE "race"
    <2>1. call' = [call EXCEPT ![c].at = at]
        BY <1>4 DEF InsertKey
    <2>2. ~Invalid(call[c].body)
        BY <1>4 DEF InsertKey, CreationInv, CallInv
    <2>3. at \in {"insert", "commit", "race"}
          /\ (at = "commit" => rows[call[c].key] = NoRow)
        OBVIOUS
    <2> HIDE DEF at
    <2> QED BY <1>4, <2>1, <2>2, <2>3, MovedInv DEF InsertKey
<1>5. CASE Commit(c)
    BY <1>1, <1>5, CommitsInv DEF Commit, Kinds
<1>6. CASE ResolveRace(c)
    BY <1>6, AnsweredFromInv DEF ResolveRace
<1> QED
    BY <1>2, <1>3, <1>4, <1>5, <1>6 DEF Serve

LEMMA StepInv == CreationInv /\ [Next]_vars => CreationInv'
<1> SUFFICES ASSUME CreationInv, [Next]_vars PROVE CreationInv'
    OBVIOUS
<1>1. CASE Select
    BY <1>1, SelectInv
<1>2. CASE Reload
    BY <1>2, ReloadInv
<1>3. ASSUME NEW c \in Calls,
             Start(c) \/ Told(c) \/ ClientSends(c) \/ Serve(c) \/ Fail(c) \/ FailLate(c)
      PROVE  CreationInv'
    <2>1. faults \in Nat /\ MaxFaults \in Nat
        BY CreationAssumption DEF CreationInv, TypeOK
    <2>2. CASE Start(c) \/ Told(c) \/ ClientSends(c) \/ Serve(c)
        BY <2>2, StartInv, ToldInv, ClientSendsInv, ServeInv
    <2>3. CASE Fail(c)
        BY <2>1, <2>3, AnsweredInv DEF Fail, Kinds
    <2>4. CASE FailLate(c)
        BY <2>1, <2>4, CommitsInv DEF FailLate, Kinds
    <2> QED BY <1>3, <2>2, <2>3, <2>4
<1>4. CASE UNCHANGED vars
    BY <1>4 DEF vars, CreationInv, TypeOK, CallInv, RowInv, LockInv, PageInv, AnswerFits
<1> QED
    BY <1>1, <1>2, <1>3, <1>4 DEF Next

\* The inductive invariant holds whatever the page, the other client, the
\* transactions and the faults do.
THEOREM CreationInvariance == Spec => []CreationInv
<1> QED BY InitInv, StepInv, PTL DEF Spec

\* Every reachable state is well typed: a request has a key once it is sent, the
\* stored key is the page's, and the page waits for a request of its own.
THEOREM TypeCorrectness == Spec => []TypeOK
<1>1. CreationInv => TypeOK
    BY DEF CreationInv
<1> QED BY <1>1, CreationInvariance, PTL

\* Manager.Create 118-137: whoever is given an operation, by its own commit, by the
\* lookup or after losing the race for the key, has got the seats it asked for.
THEOREM AnswersFit == Spec => []AnswerFits
<1>1. CreationInv => AnswerFits
    BY DEF CreationInv
<1> QED BY <1>1, CreationInvariance, PTL
-----------------------------------------------------------------------------
(* The page never sends one key with two intents.                            *)

\* Only the other client uses ClientKey; the requests of the page with one key are
\* for the same seats, those of the key the page holds for its intent; a key of the
\* table names a request that was sent with it.
ClientInv ==
    \A c \in Calls : call[c].key # NoKey =>
        (call[c].key = ClientKey <=> call[c].by = "client")

IntentInv ==
    \A c, d \in Calls :
        call[c].key # NoKey /\ call[c].by = "page" /\ call[d].key = call[c].key
            => SeatsOf(call[c].body) = SeatsOf(call[d].body)

ActiveInv ==
    active.key # NoKey =>
        /\ active.key # ClientKey
        /\ \A c \in Calls : call[c].key = active.key
                              => SeatsOf(call[c].body) = active.intent

OwnRow(k, row) ==
    /\ row.op \in Calls
    /\ call[row.op].key = k
    /\ SeatsOf(call[row.op].body) = row.hash
OwnerInv == \A k \in Keys : rows[k] # NoRow => OwnRow(k, rows[k])

KeyInv == ClientInv /\ IntentInv /\ ActiveInv /\ OwnerInv

\* What a request asks for stays as it is.
AskKept(d) ==
    /\ call'[d].key = call[d].key
    /\ call'[d].by = call[d].by
    /\ call'[d].body = call[d].body

\* ClassroomDetailPage.tsx 100: what the page sends names all the chosen seats.
LEMMA SentIsChosen ==
    ASSUME NEW seats, seats \subseteq Seats, NEW body \in TargetSeatIds(seats)
    PROVE  SeatsOf(body) = seats
<1> DEFINE n == Cardinality(seats)
<1>1. IsFiniteSet(seats) /\ seats \subseteq Nat
    BY FS_Subset, CreationAssumption
<1>2. n \in Nat
    BY <1>1, FS_CardinalityType
<1>3. body \in [1 .. n -> seats] /\ \A i, j \in 1 .. n : i < j => body[i] < body[j]
    BY DEF TargetSeatIds
<1> HIDE DEF n
<1>4. \A i, j \in 1 .. n : body[i] = body[j] => i = j
    <2> SUFFICES ASSUME NEW i \in 1 .. n, NEW j \in 1 .. n, i # j PROVE body[i] # body[j]
        OBVIOUS
    <2>1. i < j \/ j < i
        BY <1>2
    <2>2. body[i] < body[j] \/ body[j] < body[i]
        BY <1>3, <2>1
    <2>3. body[i] \in Nat /\ body[j] \in Nat
        BY <1>1, <1>3
    <2> QED BY <2>2, <2>3
<1>5. body \in Injection(1 .. n, seats)
    BY <1>3, <1>4 DEF Injection, IsInjective
<1>6. Cardinality(1 .. n) = Cardinality(seats)
    BY <1>2, FS_Interval DEF n
<1>7. body \in Surjection(1 .. n, seats)
    BY <1>1, <1>5, <1>6, FS_Injection
<1>8. \A s \in seats : \E i \in 1 .. n : body[i] = s
    BY <1>7 DEF Surjection
<1> QED
    BY <1>3, <1>8 DEF SeatsOf

\* A step that asks for nothing new.
LEMMA KeysKept ==
    ASSUME CreationInv, KeyInv, \A d \in Calls : AskKept(d),
           active' = active \/ active' = NoIntent,
           \A k \in Keys : rows'[k] # NoRow => OwnRow(k, rows'[k])
    PROVE  KeyInv'
<1>1. ClientInv'
    BY DEF KeyInv, ClientInv, AskKept
<1>2. IntentInv'
    BY DEF KeyInv, IntentInv, AskKept
<1>3. ActiveInv'
    BY DEF KeyInv, ActiveInv, AskKept, NoIntent
<1>4. OwnerInv'
    BY DEF OwnerInv, OwnRow, AskKept
<1> QED
    BY <1>1, <1>2, <1>3, <1>4 DEF KeyInv

LEMMA PageKeysKept ==
    CreationInv /\ KeyInv /\ (Select \/ Reload \/ \E c \in Calls : Told(c))
        => KeyInv' /\ \A d \in Calls : AskKept(d) /\ call'[d].answer = call[d].answer
<1> SUFFICES ASSUME CreationInv, KeyInv, Select \/ Reload \/ \E c \in Calls : Told(c)
             PROVE  KeyInv' /\ \A d \in Calls : AskKept(d) /\ call'[d].answer = call[d].answer
    OBVIOUS
<1>1. stored = active /\ rows' = rows
    BY DEF CreationInv, TypeOK, Select, Reload, Told, database
<1>2. active' = active \/ active' = NoIntent
    BY <1>1 DEF Select, Reload, Told, Persist, Synchronized
<1>3. \A d \in Calls : AskKept(d) /\ call'[d].answer = call[d].answer
    <2>1. CASE Select \/ Reload
        BY <2>1 DEF Select, Reload, AskKept
    <2>2. CASE \E c \in Calls : Told(c)
        BY <2>2 DEF Told, AskKept, CreationInv, TypeOK, Requests
    <2> QED BY <2>1, <2>2
<1>4. \A k \in Keys : rows'[k] # NoRow => OwnRow(k, rows'[k])
    BY <1>1 DEF KeyInv, OwnerInv
<1> QED
    BY <1>2, <1>3, <1>4, KeysKept

\* A new request: nobody else uses its key for something else.
LEMMA SentKeys ==
    ASSUME CreationInv, KeyInv, NEW c \in Calls, IsNext(c),
           NEW by \in {"page", "client"}, NEW key \in Keys, NEW body,
           Sent(c, by, key, body), UNCHANGED rows,
           key = ClientKey <=> by = "client",
           by = "page" => \A d \in Calls : call[d].key = key
                                => SeatsOf(call[d].body) = SeatsOf(body),
           \/ by = "client" /\ active' = active
           \/ by = "page" /\ active' = [intent |-> SeatsOf(body), key |-> key]
    PROVE  KeyInv' /\ \A d \in Calls : call'[d].answer = call[d].answer
<1> DEFINE sent == [Unsent EXCEPT !.at = "lookup", !.by = by,
                                  !.key = key, !.body = body]
<1>0. call[c] = Unsent /\ made[c] = {}
    BY DEF CreationInv, CallInv, IsNext
<1>1. call[c] = Unsent /\ made[c] = {} /\ call[c].key = NoKey
    BY <1>0 DEF Unsent
<1>2. /\ sent.key = key /\ sent.by = by /\ sent.body = body
      /\ sent.answer = Unsent.answer
    BY DEF Unsent
<1>3. call' = [call EXCEPT ![c] = sent]
    BY DEF Sent
<1> HIDE DEF sent
<1>4. call'[c] = sent /\ \A d \in Calls \ {c} : call'[d] = call[d]
    BY <1>3 DEF CreationInv, TypeOK
<1>5. key # NoKey
    BY CreationAssumption DEF NoKey
<1>6. ClientInv'
    BY <1>2, <1>4 DEF KeyInv, ClientInv
<1>7. IntentInv'
    <2> SUFFICES ASSUME NEW d \in Calls, NEW e \in Calls,
                        call'[d].key # NoKey, call'[d].by = "page",
                        call'[e].key = call'[d].key
                 PROVE  SeatsOf(call'[d].body) = SeatsOf(call'[e].body)
        BY DEF IntentInv
    <2>1. CASE d # c /\ e # c
        BY <1>4, <2>1 DEF KeyInv, IntentInv
    <2>2. CASE d = c
        BY <1>2, <1>4, <2>2
    <2>3. CASE d # c /\ e = c
        <3>1. call[d].key = key /\ call[d].by = "page"
            BY <1>2, <1>4, <2>3
        <3>2. by = "page"
            BY <1>5, <3>1 DEF KeyInv, ClientInv
        <3> QED BY <1>2, <1>4, <2>3, <3>1, <3>2
    <2> QED BY <2>1, <2>2, <2>3
<1>8. ActiveInv'
    <2>1. CASE by = "client"
        BY <1>2, <1>4, <2>1 DEF KeyInv, ActiveInv
    <2>2. CASE by = "page"
        BY <1>2, <1>4, <2>2 DEF ActiveInv
    <2> QED BY <2>1, <2>2
<1>9. OwnerInv'
    <2> SUFFICES ASSUME NEW k \in Keys, rows[k] # NoRow PROVE OwnRow(k, rows[k])'
        BY DEF OwnerInv
    <2>1. OwnRow(k, rows[k]) /\ made[rows[k].op] # {}
        BY DEF KeyInv, OwnerInv, CreationInv, RowInv
    <2>2. rows[k].op # c
        BY <1>1, <2>1
    <2> QED BY <1>4, <2>1, <2>2 DEF OwnRow
<1>10. \A d \in Calls : call'[d].answer = call[d].answer
    BY <1>1, <1>2, <1>4
<1> QED
    BY <1>6, <1>7, <1>8, <1>9, <1>10 DEF KeyInv

LEMMA AskKeys ==
    ASSUME NEW c \in Calls
    PROVE  CreationInv /\ KeyInv /\ (Start(c) \/ ClientSends(c))
               => KeyInv' /\ \A d \in Calls : call'[d].answer = call[d].answer
<1>1. ASSUME CreationInv, KeyInv, Start(c)
      PROVE  KeyInv' /\ \A d \in Calls : call'[d].answer = call[d].answer
    <2>1. PICK body \in TargetSeatIds(chosen), key \in KeysFor(chosen) :
                /\ Sent(c, "page", key, body)
                /\ Persist([intent |-> chosen, key |-> key])
        BY <1>1 DEF Start
    <2>2. chosen \subseteq Seats /\ IsNext(c) /\ rows' = rows
        BY <1>1 DEF Start, CreationInv, TypeOK, database
    <2>3. SeatsOf(body) = chosen
        BY <2>2, SentIsChosen
    <2>4. key \in Keys
        BY <1>1, PageKeys DEF CreationInv
    <2>5. CASE active.intent = chosen /\ active.key # NoKey
        <3>1. key = active.key
            BY <2>1, <2>5 DEF KeysFor, Synchronized
        <3> QED
            BY <1>1, <2>1, <2>2, <2>3, <2>4, <2>5, <3>1, SentKeys
            DEF KeyInv, ActiveInv, Persist
    <2>6. CASE ~(active.intent = chosen /\ active.key # NoKey)
        <3>1. Synchronized(active, chosen).key = NoKey
            BY <2>6 DEF Synchronized, NoIntent
        <3>2. ~Used(key)
            BY <2>1, <3>1 DEF KeysFor
        <3>3. key # ClientKey /\ \A d \in Calls : call[d].key # key
            BY <3>2 DEF Used
        <3> QED
            BY <1>1, <2>1, <2>2, <2>3, <2>4, <3>3, SentKeys DEF Persist
    <2> QED BY <2>5, <2>6
<1>2. ASSUME CreationInv, KeyInv, ClientSends(c)
      PROVE  KeyInv' /\ \A d \in Calls : call'[d].answer = call[d].answer
    <2>1. PICK body \in Bodies : Sent(c, "client", ClientKey, body)
        BY <1>2 DEF ClientSends
    <2>2. IsNext(c) /\ rows' = rows /\ active' = active
        BY <1>2 DEF ClientSends, database, page
    <2> QED BY <1>2, <2>1, <2>2, SentKeys, CreationAssumption
<1> QED BY <1>1, <1>2

\* A call is answered; a conflict contradicts the row of the key.
LEMMA AnsweredKeys ==
    ASSUME CreationInv, KeyInv, PageHasNoConflict, NEW c \in Calls,
           NEW kind \in Kinds, NEW op, Answered(c, kind, op),
           active' = active,
           \A k \in Keys : rows'[k] # NoRow => OwnRow(k, rows'[k]),
           kind = "conflict" => /\ call[c].key \in Keys
                                /\ rows[call[c].key] # NoRow
                                /\ rows[call[c].key].hash # SeatsOf(call[c].body)
    PROVE  KeyInv' /\ PageHasNoConflict'
<1> DEFINE answer == [kind |-> kind, op |-> op]
<1>1. call' = [call EXCEPT ![c].at = "done", ![c].answer = answer]
    BY DEF Answered
<1>2. answer.kind = kind
    OBVIOUS
<1> HIDE DEF answer
<1>3. \A d \in Calls : AskKept(d)
    BY <1>1 DEF AskKept, CreationInv, TypeOK, Requests
<1>4. call'[c].answer = answer /\ \A d \in Calls \ {c} : call'[d] = call[d]
    BY <1>1 DEF CreationInv, TypeOK, Requests
<1>5. KeyInv'
    BY <1>3, KeysKept
<1>6. kind = "conflict" => call[c].by # "page"
    <2> SUFFICES ASSUME kind = "conflict", call[c].by = "page" PROVE FALSE
        OBVIOUS
    <2> DEFINE key == call[c].key
    <2>1. key # NoKey /\ OwnRow(key, rows[key])
        BY CreationAssumption DEF KeyInv, OwnerInv, NoKey
    <2>2. SeatsOf(call[c].body) = SeatsOf(call[rows[key].op].body)
        BY <2>1 DEF OwnRow, KeyInv, IntentInv
    <2> QED BY <2>1, <2>2 DEF OwnRow
<1>7. PageHasNoConflict'
    BY <1>2, <1>3, <1>4, <1>6 DEF PageHasNoConflict, AskKept
<1> QED BY <1>5, <1>7

LEMMA AnsweredFromKeys ==
    ASSUME CreationInv, KeyInv, PageHasNoConflict, NEW c \in Calls,
           call[c].at \notin {"unsent"}, rows[call[c].key] # NoRow,
           AnsweredFrom(c, rows[call[c].key]), UNCHANGED <<rows, active>>
    PROVE  KeyInv' /\ PageHasNoConflict'
<1>1. call[c].key \in Keys
    BY DEF CreationInv, TypeOK, Requests
<1>2. \A k \in Keys : rows'[k] # NoRow => OwnRow(k, rows'[k])
    BY DEF KeyInv, OwnerInv
<1>3. CASE rows[call[c].key].hash = Hash(call[c].body)
    <2>1. Answered(c, "existing", rows[call[c].key].op)
        BY <1>3 DEF AnsweredFrom
    <2> QED BY <1>2, <2>1, AnsweredKeys DEF Kinds
<1>4. CASE rows[call[c].key].hash # Hash(call[c].body)
    <2>1. Answered(c, "conflict", NoOp)
        BY <1>4 DEF AnsweredFrom
    <2> QED BY <1>1, <1>2, <1>4, <2>1, AnsweredKeys DEF Kinds, Hash
<1> QED BY <1>3, <1>4

LEMMA CommitKeys ==
    ASSUME CreationInv, KeyInv, PageHasNoConflict, NEW c \in Calls, Commits(c),
           NEW kind \in Kinds \ {"conflict"}, NEW op, Answered(c, kind, op),
           UNCHANGED active
    PROVE  KeyInv' /\ PageHasNoConflict'
<1> DEFINE row == [hash |-> Hash(call[c].body), op |-> c]
<1>1. rows' = [rows EXCEPT ![call[c].key] = row]
    BY DEF Commits
<1>2. OwnRow(call[c].key, row)
    BY DEF OwnRow, Hash
<1> HIDE DEF row
<1>3. \A k \in Keys : rows'[k] # NoRow => OwnRow(k, rows'[k])
    BY <1>1, <1>2 DEF KeyInv, OwnerInv, CreationInv, TypeOK
<1> QED BY <1>3, AnsweredKeys

LEMMA ServeKeys ==
    ASSUME NEW c \in Calls
    PROVE  CreationInv /\ KeyInv /\ PageHasNoConflict
               /\ (Serve(c) \/ Fail(c) \/ FailLate(c))
               => KeyInv' /\ PageHasNoConflict'
<1> SUFFICES ASSUME CreationInv, KeyInv, PageHasNoConflict,
                    Serve(c) \/ Fail(c) \/ FailLate(c)
             PROVE  KeyInv' /\ PageHasNoConflict'
    OBVIOUS
<1>1. rows' = rows => \A k \in Keys : rows'[k] # NoRow => OwnRow(k, rows'[k])
    BY DEF KeyInv, OwnerInv
<1>2. CASE Refuse(c)
    BY <1>1, <1>2, AnsweredKeys DEF Refuse, Kinds, database, page
<1>3. CASE Fail(c)
    BY <1>1, <1>3, AnsweredKeys DEF Fail, Kinds, database, page
<1>4. CASE InsertKey(c) \/ (Lookup(c) /\ rows[call[c].key] = NoRow)
    <2>1. PICK at \in {"insert", "commit", "race"} : call' = [call EXCEPT ![c].at = at]
        BY <1>4 DEF InsertKey, Lookup
    <2>2. \A d \in Calls : AskKept(d) /\ call'[d].answer = call[d].answer
        BY <2>1 DEF AskKept, CreationInv, TypeOK, Requests
    <2>3. rows' = rows /\ active' = active
        BY <1>4 DEF InsertKey, Lookup, database, page
    <2>4. KeyInv'
        BY <1>1, <2>2, <2>3, KeysKept
    <2> QED BY <2>2, <2>4 DEF PageHasNoConflict, AskKept
<1>5. CASE Lookup(c) /\ rows[call[c].key] # NoRow
    BY <1>5, AnsweredFromKeys DEF Lookup, database, page
<1>6. CASE Commit(c)
    BY <1>6, CommitKeys DEF Commit, Kinds, page
<1>7. CASE ResolveRace(c)
    BY <1>7, AnsweredFromKeys DEF ResolveRace, database, page
<1>8. CASE FailLate(c)
    BY <1>8, CommitKeys DEF FailLate, Kinds, page
<1>9. CASE Lookup(c)
    BY <1>4, <1>5, <1>9, Zenon
<1>10. CASE Serve(c)
    BY <1>2, <1>4, <1>6, <1>7, <1>9, <1>10, Zenon DEF Serve
<1> QED BY <1>3, <1>8, <1>10, Zenon

LEMMA StepKeys ==
    CreationInv /\ KeyInv /\ PageHasNoConflict /\ [Next]_vars
        => KeyInv' /\ PageHasNoConflict'
<1> SUFFICES ASSUME CreationInv, KeyInv, PageHasNoConflict, [Next]_vars
             PROVE  KeyInv' /\ PageHasNoConflict'
    OBVIOUS
<1>1. ASSUME KeyInv', \A d \in Calls : AskKept(d) /\ call'[d].answer = call[d].answer
      PROVE  KeyInv' /\ PageHasNoConflict'
    BY <1>1 DEF PageHasNoConflict, AskKept
<1>2. CASE Select \/ Reload \/ \E c \in Calls : Told(c)
    BY <1>1, <1>2, PageKeysKept
<1>3. ASSUME NEW c \in Calls, Start(c) \/ ClientSends(c)
      PROVE  KeyInv' /\ PageHasNoConflict'
    <2>1. KeyInv' /\ \A d \in Calls : call'[d].answer = call[d].answer
        BY <1>3, AskKeys
    <2>2. \A d \in Calls : call[d].answer.kind = "conflict" => call'[d].by = call[d].by
        <3>1. IsNext(c) /\ \A d \in Calls \ {c} : call'[d] = call[d]
            BY <1>3 DEF Start, ClientSends, Sent, CreationInv, TypeOK
        <3>2. call[c].answer.kind # "conflict"
            BY <3>1 DEF CreationInv, CallInv, IsNext, NoAnswer
        <3> QED BY <3>1, <3>2
    <2> QED BY <2>1, <2>2 DEF PageHasNoConflict
<1>4. ASSUME NEW c \in Calls, Serve(c) \/ Fail(c) \/ FailLate(c)
      PROVE  KeyInv' /\ PageHasNoConflict'
    BY <1>4, ServeKeys
<1>5. CASE UNCHANGED vars
    BY <1>5 DEF vars, KeyInv, ClientInv, IntentInv, ActiveInv, OwnerInv, OwnRow,
                PageHasNoConflict
<1> QED
    BY <1>2, <1>3, <1>4, <1>5 DEF Next

\* operationIdempotency.ts 37-58: however the page is used, reloaded and answered,
\* it sends no key with two intents and is never told of a conflict.
THEOREM NoPageConflict == Spec => []PageHasNoConflict
<1>1. Init => KeyInv /\ PageHasNoConflict
    BY DEF Init, KeyInv, ClientInv, IntentInv, ActiveInv, OwnerInv, PageHasNoConflict,
           Unsent, NoIntent, NoAnswer
<1> QED BY <1>1, StepKeys, CreationInvariance, PTL DEF Spec
-----------------------------------------------------------------------------
(* Refinement: a commit or an answer is the step of CreateOnce, all else is    *)
(* a call being made or nothing.                                               *)

AllHashes == SUBSET (Seats \cup UNION {SeatsOf(body) : body \in Bodies})
AskedOf(c) == [key |-> call[c].key, hash |-> Hash(call[c].body)]
Made == {c \in Calls : made[c] # {}}

\* A request that is not sent is one CreateOnce was not asked.
LEMMA UnsentUnasked ==
    /\ [key |-> Unsent.key, hash |-> Hash(Unsent.body)] = Once!Unasked
    /\ Unsent.answer = Once!Pending /\ NoRow = Once!NoRow
<1>1. \A i \in DOMAIN <<>> : FALSE
    OBVIOUS
<1>2. SeatsOf(<<>>) = {}
    BY <1>1 DEF SeatsOf
<1> QED
    BY <1>2 DEF Unsent, Hash, Once!Unasked, NoKey, Once!NoKey, NoAnswer,
                Once!Pending, NoRow, Once!NoRow

LEMMA InitOnce == Init => Once!OnceInit
<1> SUFFICES ASSUME Init PROVE Once!OnceInit
    OBVIOUS
<1>1. \A c \in Calls : AskedOf(c) = Once!Unasked /\ call[c].answer = Once!Pending
    BY UnsentUnasked DEF Init, AskedOf
<1>2. Made = {}
    BY DEF Made, Init
<1>3. rows = [k \in Keys |-> Once!NoRow]
    BY UnsentUnasked DEF Init
<1> QED
    BY <1>1, <1>2, <1>3 DEF Once!OnceInit, AskedOf, Made

\* Steps that change no request as CreateOnce sees it are stutters.
LEMMA Stutters ==
    ASSUME CreationInv,
           \A d \in Calls : /\ call'[d].key = call[d].key
                            /\ call'[d].body = call[d].body
                            /\ call'[d].answer = call[d].answer,
           UNCHANGED database
    PROVE  UNCHANGED Once!onceVars
<1>1. \A d \in Calls : AskedOf(d)' = AskedOf(d)
    BY DEF AskedOf
<1>2. Made' = Made /\ rows' = rows
    BY DEF Made, database
<1> QED
    BY <1>1, <1>2 DEF Once!onceVars, AskedOf, Made

\* A request that is sent is a call being made.
LEMMA SentOnce ==
    ASSUME CreationInv, NEW c \in Calls, IsNext(c), NEW by \in {"page", "client"},
           NEW key \in Keys, NEW body, Sent(c, by, key, body), UNCHANGED database,
           SeatsOf(body) \in AllHashes
    PROVE  Once!Ask(c)
<1> DEFINE sent == [Unsent EXCEPT !.at = "lookup", !.by = by,
                                  !.key = key, !.body = body]
<1>1. call[c] = Unsent
    BY DEF CreationInv, CallInv, IsNext
<1>2. sent.key = key /\ sent.body = body /\ sent.answer = Unsent.answer
    BY DEF Unsent
<1>3. call' = [call EXCEPT ![c] = sent]
    BY DEF Sent
<1> HIDE DEF sent
<1>4. call'[c] = sent /\ \A d \in Calls \ {c} : call'[d] = call[d]
    BY <1>3 DEF CreationInv, TypeOK
<1>5. AskedOf(c) = Once!Unasked
    BY <1>1, UnsentUnasked DEF AskedOf
<1>6. AskedOf(c)' = [key |-> key, hash |-> SeatsOf(body)]
    BY <1>2, <1>4 DEF AskedOf, Hash
<1>7. \A d \in Calls \ {c} : AskedOf(d)' = AskedOf(d)
    BY <1>4 DEF AskedOf
<1>8. \A d \in Calls : call'[d].answer = call[d].answer
    BY <1>1, <1>2, <1>4
<1>9. Made' = Made /\ rows' = rows
    BY DEF Made, database
<1>10. [d \in Calls |-> AskedOf(d)]'
          = [[d \in Calls |-> AskedOf(d)] EXCEPT ![c] =
                [key |-> key, hash |-> SeatsOf(body)]]
    BY <1>6, <1>7
<1> QED
    BY <1>5, <1>8, <1>9, <1>10 DEF Once!Ask, AskedOf, Made, AllHashes

\* An answer, as CreateOnce sees it.
LEMMA AnswerSeen ==
    ASSUME CreationInv, NEW c \in Calls, call[c].at \notin {"unsent", "done"},
           NEW kind \in Kinds, NEW op \in Calls \cup {NoOp}, Answered(c, kind, op)
    PROVE  /\ AskedOf(c) # Once!Unasked /\ call[c].answer = Once!Pending
           /\ call[c].key \in Keys
           /\ [d \in Calls |-> AskedOf(d)]' = [d \in Calls |-> AskedOf(d)]
           /\ [d \in Calls |-> call[d].answer]'
                = [[d \in Calls |-> call[d].answer] EXCEPT ![c] =
                        [kind |-> kind, op |-> op]]
<1> DEFINE answer == [kind |-> kind, op |-> op]
<1>1. TypeOK /\ call[c].key \in Keys /\ call[c].answer = NoAnswer
    BY DEF CreationInv, CallInv, TypeOK, Requests
<1>2. call[c].key # NoKey
    BY <1>1, CreationAssumption DEF NoKey
<1>3. AskedOf(c) # Once!Unasked /\ call[c].answer = Once!Pending
    BY <1>1, <1>2 DEF AskedOf, Once!Unasked, NoKey, Once!NoKey, NoAnswer, Once!Pending
<1>4. call' = [call EXCEPT ![c].at = "done", ![c].answer = answer]
    BY DEF Answered
<1> HIDE DEF answer
<1>5. call'[c].answer = answer /\ \A d \in Calls \ {c} : call'[d] = call[d]
    BY <1>1, <1>4 DEF TypeOK, Requests
<1>6. \A d \in Calls : AskedOf(d)' = AskedOf(d)
    BY <1>1, <1>4 DEF AskedOf, TypeOK, Requests
<1>7. [d \in Calls |-> call[d].answer]'
        = [[d \in Calls |-> call[d].answer] EXCEPT ![c] = answer]
    BY <1>5
<1> QED
    BY <1>1, <1>3, <1>6, <1>7 DEF answer

\* A refusal or a failure without effect.
LEMMA RefusedOnce ==
    ASSUME CreationInv, NEW c \in Calls, call[c].at \notin {"unsent", "done"},
           NEW kind \in {"invalid", "error"}, Answered(c, kind, NoOp),
           UNCHANGED database
    PROVE  Once!Refuse(c)
<1>1. kind \in Kinds
    BY DEF Kinds
<1>2. Made' = Made /\ rows' = rows
    BY DEF Made, database
<1>3. /\ AskedOf(c) # Once!Unasked /\ call[c].answer = Once!Pending
      /\ [d \in Calls |-> AskedOf(d)]' = [d \in Calls |-> AskedOf(d)]
      /\ [d \in Calls |-> call[d].answer]'
           = [[d \in Calls |-> call[d].answer] EXCEPT ![c] = [kind |-> kind, op |-> NoOp]]
    BY <1>1, AnswerSeen
<1> QED
    BY <1>2, <1>3 DEF Once!Refuse, AskedOf, Made

\* An answer from a key of the table.
LEMMA AnsweredFromOnce ==
    ASSUME CreationInv, NEW c \in Calls, call[c].at \notin {"unsent", "done"},
           rows[call[c].key] # NoRow, AnsweredFrom(c, rows[call[c].key]),
           UNCHANGED database
    PROVE  Once!Resolve(c)
<1> DEFINE row == rows[call[c].key]
           fits == row.hash = Hash(call[c].body)
           kind == IF fits THEN "existing" ELSE "conflict"
           op == IF fits THEN row.op ELSE NoOp
<1>1. call[c].key \in Keys
    BY DEF CreationInv, TypeOK, Requests
<1>2. row.op \in Calls /\ row.op \in Made
    BY <1>1 DEF CreationInv, RowInv, Made
<1>3. Answered(c, kind, op) /\ kind \in Kinds /\ op \in Calls \cup {NoOp}
    BY <1>2 DEF AnsweredFrom, Kinds
<1>4. AskedOf(c).key = call[c].key /\ AskedOf(c).hash = Hash(call[c].body)
    BY DEF AskedOf
<1>5. Once!RowAfter(c) = row
    BY <1>4, UnsentUnasked DEF Once!RowAfter, AskedOf
<1>6. Once!Outcome(c) = [kind |-> kind, op |-> op]
    BY <1>4, UnsentUnasked DEF Once!Outcome, AskedOf
<1>7. rows' = [rows EXCEPT ![call[c].key] = row]
    BY <1>1 DEF database, CreationInv, TypeOK
<1>8. Made' = Made \cup {row.op}
    BY <1>2 DEF Made, database
<1>9. /\ AskedOf(c) # Once!Unasked /\ call[c].answer = Once!Pending
      /\ [d \in Calls |-> AskedOf(d)]' = [d \in Calls |-> AskedOf(d)]
      /\ [d \in Calls |-> call[d].answer]'
           = [[d \in Calls |-> call[d].answer] EXCEPT ![c] = [kind |-> kind, op |-> op]]
    BY <1>3, AnswerSeen
<1> HIDE DEF kind, op, row
<1> QED
    BY <1>1, <1>5, <1>6, <1>7, <1>8, <1>9 DEF Once!Resolve, AskedOf, Made

\* A commit.
LEMMA CommitsOnce ==
    ASSUME CreationInv, NEW c \in Calls, Commits(c),
           NEW kind \in Kinds, NEW op \in Calls \cup {NoOp}, Answered(c, kind, op),
           <<kind, op>> \in {<<"created", c>>, <<"error", NoOp>>}
    PROVE  Once!Resolve(c)
<1> DEFINE row == [hash |-> Hash(call[c].body), op |-> c]
<1>1. call[c].at = "commit" /\ call[c].key \in Keys /\ rows[call[c].key] = NoRow
    BY DEF Commits, CreationInv, LockInv, TypeOK, Requests
<1>2. AskedOf(c).key = call[c].key /\ AskedOf(c).hash = Hash(call[c].body)
    BY DEF AskedOf
<1>3. Once!RowAfter(c) = row
    BY <1>1, <1>2, UnsentUnasked DEF Once!RowAfter, AskedOf
<1>4. Once!Outcome(c) = [kind |-> "created", op |-> c]
    BY <1>1, <1>2, UnsentUnasked DEF Once!Outcome, AskedOf
<1>5. [kind |-> kind, op |-> op] \in {Once!Outcome(c), Once!Error}
    BY <1>4 DEF Once!Error
<1>6. rows' = [rows EXCEPT ![call[c].key] = row]
    BY DEF Commits
<1>7. Made' = Made \cup {row.op}
    <2>1. Targets(call[c].body) # {}
        BY CreationAssumption DEF Targets
    <2>2. made' = [made EXCEPT ![c] = Targets(call[c].body)] /\ row.op = c
        BY DEF Commits
    <2>3. made'[c] # {} /\ \A d \in Calls \ {c} : made'[d] = made[d]
        BY <2>1, <2>2 DEF CreationInv, TypeOK
    <2> QED BY <2>2, <2>3 DEF Made
<1>8. /\ AskedOf(c) # Once!Unasked /\ call[c].answer = Once!Pending
      /\ [d \in Calls |-> AskedOf(d)]' = [d \in Calls |-> AskedOf(d)]
      /\ [d \in Calls |-> call[d].answer]'
           = [[d \in Calls |-> call[d].answer] EXCEPT ![c] = [kind |-> kind, op |-> op]]
    BY <1>1, AnswerSeen
<1> HIDE DEF row
<1> QED
    BY <1>1, <1>3, <1>5, <1>6, <1>7, <1>8 DEF Once!Resolve, AskedOf, Made

LEMMA StepOnce == CreationInv /\ [Next]_vars => [Once!OnceNext]_Once!onceVars
<1> SUFFICES ASSUME CreationInv, [Next]_vars
             PROVE  Once!OnceNext \/ UNCHANGED Once!onceVars
    OBVIOUS
<1>1. CASE Select \/ Reload \/ UNCHANGED vars
    <2>1. call' = call /\ UNCHANGED database
        BY <1>1 DEF Select, Reload, vars, database
    <2> QED BY <2>1, Stutters
<1>2. ASSUME NEW c \in Calls,
             Start(c) \/ Told(c) \/ ClientSends(c) \/ Serve(c) \/ Fail(c) \/ FailLate(c)
      PROVE  Once!OnceNext \/ UNCHANGED Once!onceVars
    <2>1. CASE Start(c)
        <3>1. PICK body \in TargetSeatIds(chosen), key \in KeysFor(chosen) :
                    Sent(c, "page", key, body)
            BY <2>1 DEF Start
        <3>2. SeatsOf(body) \in AllHashes /\ key \in Keys
            BY SentSeats, PageKeys DEF AllHashes, CreationInv, TypeOK
        <3>3. Once!Ask(c)
            BY <2>1, <3>1, <3>2, SentOnce DEF Start
        <3> QED BY <3>3 DEF Once!OnceNext
    <2>2. CASE Told(c)
        <3>1. UNCHANGED database
            BY <2>2 DEF Told
        <3>2. \A d \in Calls : /\ call'[d].key = call[d].key
                               /\ call'[d].body = call[d].body
                               /\ call'[d].answer = call[d].answer
            BY <2>2 DEF Told, CreationInv, TypeOK, Requests
        <3> QED BY <3>1, <3>2, Stutters
    <2>3. CASE ClientSends(c)
        <3>1. PICK body \in Bodies : Sent(c, "client", ClientKey, body)
            BY <2>3 DEF ClientSends
        <3>2. SeatsOf(body) \in AllHashes
            BY DEF AllHashes
        <3>3. Once!Ask(c)
            BY <2>3, <3>1, <3>2, SentOnce, CreationAssumption DEF ClientSends
        <3> QED BY <3>3 DEF Once!OnceNext
    <2>4. CASE Refuse(c)
        BY <2>4, RefusedOnce DEF Refuse, Once!OnceNext
    <2>5. CASE Fail(c)
        BY <2>5, RefusedOnce DEF Fail, Once!OnceNext
    <2>6. CASE Lookup(c) /\ rows[call[c].key] # NoRow
        BY <2>6, AnsweredFromOnce DEF Lookup, Once!OnceNext
    <2>7. CASE ResolveRace(c)
        BY <2>7, AnsweredFromOnce DEF ResolveRace, Once!OnceNext
    <2>8. CASE Commit(c)
        <3>1. Once!Resolve(c)
            BY <2>8, CommitsOnce DEF Commit, Kinds
        <3> QED BY <3>1 DEF Once!OnceNext
    <2>9. CASE FailLate(c)
        <3>1. Once!Resolve(c)
            BY <2>9, CommitsOnce DEF FailLate, Kinds
        <3> QED BY <3>1 DEF Once!OnceNext
    <2>10. CASE InsertKey(c) \/ (Lookup(c) /\ rows[call[c].key] = NoRow)
        <3>1. UNCHANGED database
            BY <2>10 DEF InsertKey, Lookup
        <3>2. PICK at \in {"insert", "commit", "race"} : call' = [call EXCEPT ![c].at = at]
            BY <2>10 DEF InsertKey, Lookup
        <3>3. \A d \in Calls : /\ call'[d].key = call[d].key
                               /\ call'[d].body = call[d].body
                               /\ call'[d].answer = call[d].answer
            BY <3>2 DEF CreationInv, TypeOK, Requests
        <3> QED BY <3>1, <3>3, Stutters
    <2>11. CASE Lookup(c)
        <3>1. CASE rows[call[c].key] = NoRow
            BY <2>10, <2>11, <3>1
        <3>2. CASE rows[call[c].key] # NoRow
            BY <2>6, <2>11, <3>2
        <3> QED BY <3>1, <3>2
    <2>12. CASE InsertKey(c)
        BY <2>10, <2>12
    <2>13. CASE Serve(c)
        BY <2>4, <2>7, <2>8, <2>11, <2>12, <2>13, Zenon DEF Serve
    <2> QED
        BY <1>2, <2>1, <2>2, <2>3, <2>5, <2>9, <2>13, Zenon
<1> QED
    BY <1>1, <1>2 DEF Next

\* repository.go 22-24: concurrent, failing and retried transactions of
\* PostgresRepository.CreateOperation are the atomic CreateOperation of the memory
\* repository to every caller.
THEOREM CreateOnceRefinement == Spec => IsCreateOnce
<1> QED BY InitOnce, StepOnce, CreationInvariance, PTL
        DEF Spec, IsCreateOnce, Once!OnceSpec
-----------------------------------------------------------------------------
(* A user who never chooses seats makes no second operation unaware.         *)

ByPage(c) == call[c].by = "page" /\ call[c].key # NoKey

\* The page was told of an operation.
Success(c) == ByPage(c) /\ call[c].told /\ call[c].answer.op # NoOp

\* The requests of the page are sent in the order of their numbers, and only the last
\* one is waited for; an operation is the one of its key.
OrderInv ==
    /\ \A c, d \in Calls : c < d /\ call[d].key # NoKey => call[c].key # NoKey
    /\ pending # NoCall => \A c \in Calls : ByPage(c) => c <= pending
    /\ \A c \in Calls : call[c].told => call[c].answer # NoAnswer
    /\ \A c \in Calls : made[c] # {} => call[c].key \in Keys /\ rows[call[c].key].op = c

\* As long as no seat was ever chosen, the page gives up a key only when it is told
\* of an operation: every request has the key of the page or comes before a success,
\* and two requests with different keys have one in between.
WholeInv ==
    ~changed =>
        /\ chosen = {} /\ active.intent = {}
        /\ \A c \in Calls : ByPage(c) =>
                \/ call[c].key = active.key
                \/ \E e \in Calls : c <= e /\ Success(e)
        /\ \A c, d \in Calls : ByPage(c) /\ ByPage(d) /\ c < d =>
                \/ call[c].key = call[d].key
                \/ \E e \in Calls : c <= e /\ e < d /\ Success(e)
        /\ \A c \in Calls : ByPage(c) => call[c].body \in TargetSeatIds({})

\* There is one way to ask for the whole classroom.
LEMMA OneWholeBody == ASSUME NEW a \in TargetSeatIds({}), NEW b \in TargetSeatIds({})
                      PROVE  a = b
<1>1. Cardinality({}) = 0
    BY FS_EmptySet
<1>2. a \in [1 .. 0 -> {}] /\ b \in [1 .. 0 -> {}]
    BY <1>1 DEF TargetSeatIds
<1> QED BY <1>2

LEMMA WholeOnce ==
    ASSUME CreationInv, OrderInv, WholeInv PROVE WholeClassOnce
<1> SUFFICES ASSUME ~changed, NEW c \in Calls, NEW d \in Calls, Duplicates(c, d)
             PROVE  FALSE
    BY DEF WholeClassOnce
<1>1. c < d /\ made[c] # {} /\ made[d] # {} /\ c \in Nat /\ d \in Nat
    BY CreationAssumption DEF Duplicates
<1>2. ByPage(c) /\ ByPage(d) /\ call[c].key # call[d].key
    BY <1>1, CreationAssumption DEF Duplicates, OrderInv, ByPage, NoKey
<1>3. PICK e \in Calls : c <= e /\ e < d /\ Success(e)
    BY <1>1, <1>2 DEF WholeInv
<1>4. call[e].body = call[c].body
    BY <1>2, <1>3, OneWholeBody DEF WholeInv, Success
<1> QED BY <1>3, <1>4 DEF Duplicates, Success

\* What a step of the server leaves of the requests.
ServedKeeps(d) ==
    /\ AskKept(d) /\ call'[d].told = call[d].told
    /\ call[d].told => call'[d].answer = call[d].answer

LEMMA ServedSteps ==
    ASSUME CreationInv, OrderInv, NEW c \in Calls, Serve(c) \/ Fail(c) \/ FailLate(c)
    PROVE  /\ \A d \in Calls : ServedKeeps(d)
           /\ UNCHANGED page
           /\ \/ rows' = rows /\ made' = made
              \/ Commits(c)
<1>1. call[c].at \notin {"unsent", "done"}
    BY DEF Serve, Refuse, Lookup, InsertKey, Commit, ResolveRace, Fail, FailLate, Commits
<1>2. ~call[c].told
    BY <1>1 DEF CreationInv, CallInv, OrderInv
<1>3. \/ \E kind, op : Answered(c, kind, op)
      \/ \E at : call' = [call EXCEPT ![c].at = at]
    BY Zenon DEF Serve, Refuse, Lookup, InsertKey, Commit, ResolveRace, Fail, FailLate,
       AnsweredFrom
<1>4. \A d \in Calls : ServedKeeps(d)
    <2>1. CASE \E at : call' = [call EXCEPT ![c].at = at]
        BY <2>1 DEF ServedKeeps, AskKept, CreationInv, TypeOK, Requests
    <2>2. CASE \E kind, op : Answered(c, kind, op)
        BY <1>2, <2>2 DEF ServedKeeps, AskKept, Answered, CreationInv, TypeOK, Requests
    <2> QED BY <1>3, <2>1, <2>2
<1>5. UNCHANGED page
    BY DEF Serve, Refuse, Lookup, InsertKey, Commit, ResolveRace, Fail, FailLate, page
<1>6. (rows' = rows /\ made' = made) \/ Commits(c)
    BY DEF Serve, Refuse, Lookup, InsertKey, Commit, ResolveRace, Fail, FailLate, database
<1> QED BY <1>4, <1>5, <1>6

LEMMA ServedWhole ==
    ASSUME CreationInv, OrderInv, WholeInv,
           NEW c \in Calls, Serve(c) \/ Fail(c) \/ FailLate(c)
    PROVE  OrderInv' /\ WholeInv'
<1>1. /\ \A d \in Calls : ServedKeeps(d)
      /\ pending' = pending /\ chosen' = chosen /\ active' = active /\ changed' = changed
      /\ \/ rows' = rows /\ made' = made
         \/ Commits(c)
    BY ServedSteps DEF page
<1>2. \A d \in Calls : /\ ByPage(d)' <=> ByPage(d)
                       /\ Success(d) => Success(d)'
                       /\ call'[d].key = call[d].key /\ call'[d].body = call[d].body
                       /\ call'[d].told = call[d].told
                       /\ call[d].told => call'[d].answer = call[d].answer
    BY <1>1 DEF ServedKeeps, AskKept, ByPage, Success
<1>3. \A d \in Calls : made'[d] # {} =>
            call'[d].key \in Keys /\ rows'[call'[d].key].op = d
    <2>1. CASE rows' = rows /\ made' = made
        BY <1>2, <2>1 DEF OrderInv
    <2>2. CASE Commits(c)
        <3> DEFINE row == [hash |-> Hash(call[c].body), op |-> c]
                   targets == Targets(call[c].body)
        <3>1. row.op = c
            OBVIOUS
        <3>2. /\ call[c].at = "commit" /\ call[c].key \in Keys
              /\ rows' = [rows EXCEPT ![call[c].key] = row]
              /\ made' = [made EXCEPT ![c] = targets]
            BY <2>2 DEF Commits, CreationInv, TypeOK, Requests
        <3>3. rows[call[c].key].op = NoOp
            BY <3>2 DEF CreationInv, LockInv, NoRow
        <3> HIDE DEF row, targets
        <3>4. SUFFICES ASSUME NEW d \in Calls, made'[d] # {}
                       PROVE  call'[d].key \in Keys /\ rows'[call'[d].key].op = d
            OBVIOUS
        <3>5. CASE d = c
            BY <1>2, <3>1, <3>2, <3>5 DEF CreationInv, TypeOK
        <3>6. CASE d # c
            <4>1. made[d] # {}
                BY <3>2, <3>4, <3>6 DEF CreationInv, TypeOK
            <4>2. call[d].key \in Keys /\ rows[call[d].key].op = d /\ d # NoOp
                BY <4>1, CreationAssumption DEF OrderInv, NoOp
            <4> QED BY <1>2, <3>2, <3>3, <4>2 DEF CreationInv, TypeOK
        <3> QED BY <3>5, <3>6
    <2> QED BY <1>1, <2>1, <2>2
<1>4. OrderInv'
    BY <1>1, <1>2, <1>3 DEF OrderInv
<1>5. WholeInv'
    <2> SUFFICES ASSUME ~changed PROVE WholeInv'
        BY <1>1 DEF WholeInv
    <2>1. chosen' = {} /\ active'.intent = {}
        BY <1>1 DEF WholeInv
    <2>2. \A d \in Calls : ByPage(d)' =>
                \/ call'[d].key = active'.key
                \/ \E e \in Calls : d <= e /\ Success(e)'
        BY <1>1, <1>2 DEF WholeInv
    <2>3. \A b, d \in Calls : ByPage(b)' /\ ByPage(d)' /\ b < d =>
                \/ call'[b].key = call'[d].key
                \/ \E e \in Calls : b <= e /\ e < d /\ Success(e)'
        BY <1>2 DEF WholeInv
    <2>4. \A d \in Calls : ByPage(d)' => call'[d].body \in TargetSeatIds({})
        BY <1>2 DEF WholeInv
    <2> QED BY <2>1, <2>2, <2>3, <2>4 DEF WholeInv
<1> QED BY <1>4, <1>5

\* A choice ends the promise, a reload leaves the key as it is.
LEMMA PageWhole ==
    ASSUME CreationInv, OrderInv, WholeInv, Select \/ Reload PROVE OrderInv' /\ WholeInv'
<1>1. call' = call /\ rows' = rows /\ made' = made /\ pending' \in {pending, NoCall}
    BY DEF Select, Reload, database
<1>2. OrderInv'
    BY <1>1 DEF OrderInv, ByPage
<1>3. CASE Select
    BY <1>2, <1>3 DEF Select, WholeInv
<1>4. CASE Reload /\ ~changed
    <2>1. active' = active /\ chosen' = {} /\ changed' = changed
        BY <1>4 DEF Reload, WholeInv, Persist, Synchronized, CreationInv, TypeOK
    <2> QED BY <1>1, <1>2, <1>4, <2>1 DEF WholeInv, ByPage, Success
<1>5. CASE Reload /\ changed
    BY <1>2, <1>5 DEF Reload, WholeInv
<1> QED BY <1>3, <1>4, <1>5

LEMMA ToldWhole ==
    ASSUME CreationInv, OrderInv, WholeInv, NEW c \in Calls, Told(c)
    PROVE  OrderInv' /\ WholeInv'
<1>1. /\ pending = c /\ pending' = NoCall /\ rows' = rows /\ made' = made
      /\ changed' = changed /\ call[c].answer # NoAnswer /\ call[c].by = "page"
    BY CreationAssumption DEF Told, database, CreationInv, TypeOK, NoCall
<1>2. \A d \in Calls : /\ AskKept(d) /\ call'[d].answer = call[d].answer
                       /\ call'[d].told <=> (call[d].told \/ d = c)
    BY DEF Told, AskKept, CreationInv, TypeOK, Requests
<1>3. \A d \in Calls : /\ ByPage(d)' <=> ByPage(d)
                       /\ Success(d) => Success(d)'
                       /\ call'[d].key = call[d].key /\ call'[d].body = call[d].body
    BY <1>2 DEF AskKept, ByPage, Success
<1>4. OrderInv'
    BY <1>1, <1>2, <1>3 DEF OrderInv
<1>5. WholeInv'
    <2> SUFFICES ASSUME ~changed PROVE WholeInv'
        BY <1>1 DEF WholeInv
    <2>1. chosen' = {} /\ active'.intent = {}
        BY DEF Told, WholeInv, Persist, Synchronized, NoIntent
    <2>2. \A d \in Calls : ByPage(d)' =>
                \/ call'[d].key = active'.key
                \/ \E e \in Calls : d <= e /\ Success(e)'
        <3>1. CASE call[c].answer.op = NoOp
            <4>1. active' = active
                BY <3>1 DEF Told
            <4> QED BY <1>3, <4>1 DEF WholeInv
        <3>2. CASE call[c].answer.op # NoOp
            <4>1. call[c].key # NoKey
                BY <1>1, CreationAssumption DEF CreationInv, PageInv, TypeOK, NoCall
            <4>2. Success(c)'
                BY <1>1, <1>2, <3>2, <4>1 DEF Success, ByPage, AskKept
            <4>3. \A d \in Calls : ByPage(d) => d <= c
                BY <1>1, CreationAssumption DEF OrderInv, NoCall
            <4> QED BY <1>3, <4>2, <4>3
        <3> QED BY <3>1, <3>2
    <2>3. \A b, d \in Calls : ByPage(b)' /\ ByPage(d)' /\ b < d =>
                \/ call'[b].key = call'[d].key
                \/ \E e \in Calls : b <= e /\ e < d /\ Success(e)'
        BY <1>3 DEF WholeInv
    <2>4. \A d \in Calls : ByPage(d)' => call'[d].body \in TargetSeatIds({})
        BY <1>3 DEF WholeInv
    <2> QED BY <2>1, <2>2, <2>3, <2>4 DEF WholeInv
<1> QED BY <1>4, <1>5

\* A request is sent: the page uses the key it has, or had given up the last one.
LEMMA SentWhole ==
    ASSUME CreationInv, OrderInv, WholeInv, NEW c \in Calls, Start(c) \/ ClientSends(c)
    PROVE  OrderInv' /\ WholeInv'
<1>1. /\ IsNext(c) /\ rows' = rows /\ made' = made /\ chosen' = chosen
      /\ changed' = changed
    BY DEF Start, ClientSends, database, page
<1>2. PICK by \in {"page", "client"}, key \in Keys, body \in TargetSeatIds(chosen) \cup Bodies :
            /\ Sent(c, by, key, body)
            /\ \/ /\ by = "client" /\ active' = active /\ pending' = pending
               \/ /\ by = "page" /\ pending' = c
                  /\ body \in TargetSeatIds(chosen) /\ key \in KeysFor(chosen)
                  /\ active' = [intent |-> chosen, key |-> key]
    <2>1. CASE Start(c)
        BY <2>1, PageKeys DEF Start, Persist, CreationInv
    <2>2. CASE ClientSends(c)
        BY <2>2, CreationAssumption DEF ClientSends, page
    <2> QED BY <2>1, <2>2
<1>0. call[c] = Unsent /\ made[c] = {}
    BY <1>1 DEF CreationInv, CallInv, IsNext
<1>3. call[c] = Unsent /\ made[c] = {} /\ call[c].key = NoKey
    BY <1>0 DEF Unsent
<1>n. Calls \subseteq Nat \ {0}
    BY CreationAssumption
<1>4. /\ call'[c].by = by /\ call'[c].key = key /\ call'[c].body = body
      /\ ~call'[c].told /\ call'[c].answer = NoAnswer
      /\ \A d \in Calls \ {c} : call'[d] = call[d]
    BY <1>2 DEF Sent, Unsent, CreationInv, TypeOK
<1>5. key # NoKey
    BY CreationAssumption DEF NoKey
<1>6. \A d \in Calls : d # c /\ call[d].key # NoKey <=> d < c
    <2>1. \A d \in Calls : d < c => call[d].key # NoKey
        BY <1>1 DEF IsNext, CreationInv, TypeOK
    <2>2. \A d \in Calls : call[d].key # NoKey => ~(c < d)
        BY <1>3 DEF OrderInv
    <2>3. \A d \in Calls : (d < c => d # c) /\ (d # c /\ ~(c < d) => d < c)
        BY <1>n
    <2> QED BY <1>3, <2>1, <2>2, <2>3
<1>7. OrderInv'
    <2>1. \A b, d \in Calls : b < d /\ call'[d].key # NoKey => call'[b].key # NoKey
        BY <1>4, <1>5, <1>6 DEF OrderInv
    <2>2. pending' # NoCall => \A d \in Calls : ByPage(d)' => d <= pending'
        <3>1. CASE by = "page"
            <4>1. pending' = c /\ \A d \in Calls : d < c \/ d = c => d <= c
                BY <1>2, <1>n, <3>1
            <4>2. \A d \in Calls : ByPage(d)' => d < c \/ d = c
                BY <1>4, <1>6 DEF ByPage
            <4> QED BY <4>1, <4>2
        <3>2. CASE by = "client"
            BY <1>2, <1>4, <3>2 DEF OrderInv, ByPage
        <3> QED BY <3>1, <3>2
    <2>3. \A d \in Calls : call'[d].told => call'[d].answer # NoAnswer
        BY <1>4 DEF OrderInv
    <2>4. \A d \in Calls : made'[d] # {} =>
                call'[d].key \in Keys /\ rows'[call'[d].key].op = d
        BY <1>1, <1>3, <1>4 DEF OrderInv
    <2> QED BY <2>1, <2>2, <2>3, <2>4 DEF OrderInv
<1>8. WholeInv'
    <2> SUFFICES ASSUME ~changed PROVE WholeInv'
        BY <1>1 DEF WholeInv
    <2>0. \A d \in Calls \ {c} : (ByPage(d)' <=> ByPage(d)) /\ (Success(d)' <=> Success(d))
        BY <1>4 DEF ByPage, Success
    <2>1. chosen = {} /\ active.intent = {} /\ ~Success(c)
        BY <1>3 DEF WholeInv, Success, ByPage
    <2>2. chosen' = {} /\ active'.intent = {}
        BY <1>1, <1>2, <2>1
    <2>3. by = "page" => active'.key = key /\ active.key \in {key, NoKey}
        BY <1>2, <2>1 DEF KeysFor, Synchronized
    <2>4. \A d \in Calls : ByPage(d) /\ by = "page" =>
                \/ call[d].key = key
                \/ \E e \in Calls : d <= e /\ Success(e)
        BY <2>3 DEF WholeInv, ByPage
    <2>5. \A d \in Calls : ByPage(d)' =>
                \/ call'[d].key = active'.key
                \/ \E e \in Calls : d <= e /\ Success(e)'
        <3>1. CASE by = "page"
            BY <1>4, <2>0, <2>1, <2>3, <2>4, <3>1
        <3>2. CASE by = "client"
            BY <1>2, <1>4, <2>0, <2>1, <3>2 DEF WholeInv, ByPage
        <3> QED BY <3>1, <3>2
    <2>6. \A b, d \in Calls : ByPage(b)' /\ ByPage(d)' /\ b < d =>
                \/ call'[b].key = call'[d].key
                \/ \E e \in Calls : b <= e /\ e < d /\ Success(e)'
        <3> SUFFICES ASSUME NEW b \in Calls, NEW d \in Calls, ByPage(b)', ByPage(d)', b < d
                     PROVE  \/ call'[b].key = call'[d].key
                            \/ \E e \in Calls : b <= e /\ e < d /\ Success(e)'
            OBVIOUS
        <3>1. b # c
            <4> SUFFICES ASSUME b = c PROVE FALSE
                OBVIOUS
            <4>1. d # c /\ ~(d < c)
                BY <1>n
            <4>2. call[d].key # NoKey
                BY <1>4, <4>1 DEF ByPage
            <4> QED BY <1>6, <4>1, <4>2
        <3>2. CASE d # c
            <4>1. \/ call[b].key = call[d].key
                  \/ \E e \in Calls : b <= e /\ e < d /\ Success(e)
                BY <2>0, <3>1, <3>2 DEF WholeInv
            <4> QED BY <1>4, <2>0, <2>1, <3>1, <3>2, <4>1
        <3>3. CASE d = c
            <4>1. by = "page" /\ ByPage(b)
                BY <1>4, <2>0, <3>1, <3>3 DEF ByPage
            <4>2. \/ call[b].key = key
                  \/ \E e \in Calls : b <= e /\ Success(e)
                BY <2>4, <4>1
            <4>3. \A e \in Calls : Success(e) => e < c /\ Success(e)'
                BY <1>6, <2>0, <2>1 DEF Success, ByPage
            <4> QED BY <1>4, <3>1, <3>3, <4>2, <4>3
        <3> QED BY <3>2, <3>3
    <2>7. \A d \in Calls : ByPage(d)' => call'[d].body \in TargetSeatIds({})
        BY <1>2, <1>4, <2>0, <2>1 DEF WholeInv, ByPage
    <2> QED BY <2>2, <2>5, <2>6, <2>7 DEF WholeInv
<1> QED BY <1>7, <1>8

LEMMA StepWhole == CreationInv /\ OrderInv /\ WholeInv /\ [Next]_vars => OrderInv' /\ WholeInv'
<1> SUFFICES ASSUME CreationInv, OrderInv, WholeInv, [Next]_vars
             PROVE  OrderInv' /\ WholeInv'
    OBVIOUS
<1>1. CASE Select \/ Reload
    BY <1>1, PageWhole
<1>2. ASSUME NEW c \in Calls, Start(c) \/ ClientSends(c) PROVE OrderInv' /\ WholeInv'
    BY <1>2, SentWhole
<1>3. ASSUME NEW c \in Calls, Told(c) PROVE OrderInv' /\ WholeInv'
    BY <1>3, ToldWhole
<1>4. ASSUME NEW c \in Calls, Serve(c) \/ Fail(c) \/ FailLate(c)
      PROVE  OrderInv' /\ WholeInv'
    BY <1>4, ServedWhole
<1>5. CASE UNCHANGED vars
    BY <1>5 DEF vars, OrderInv, WholeInv, ByPage, Success
<1> QED BY <1>1, <1>2, <1>3, <1>4, <1>5 DEF Next

\* ClassroomDetailPage.tsx 89-170: reloads, repeated clicks and lost answers never make
\* a second operation for the whole classroom, however many requests, rivals and
\* failures there are.
THEOREM NoSecondOperation == Spec => []WholeClassOnce
<1>1. Init => OrderInv /\ WholeInv
    <2> SUFFICES ASSUME Init PROVE OrderInv /\ WholeInv
        OBVIOUS
    <2>1. \A c \in Calls : call[c].key = NoKey /\ ~call[c].told /\ made[c] = {}
        BY DEF Init, Unsent
    <2> QED BY <2>1 DEF Init, OrderInv, WholeInv, ByPage, NoIntent
<1>2. CreationInv /\ OrderInv /\ WholeInv => WholeClassOnce
    BY WholeOnce
<1> QED BY <1>1, <1>2, StepWhole, CreationInvariance, PTL DEF Spec
=============================================================================
