------------------------------ MODULE CreateOnce ------------------------------
(***************************************************************************)
(* What Repository.CreateOperation promises: the first call with a key     *)
(* makes its operation, later ones with the same key get that operation,   *)
(* or a conflict if they ask for something else.  This is the memory       *)
(* repository, which does it under one mutex, except that a caller may not *)
(* get to know the outcome.                                                *)
(***************************************************************************)
EXTENDS Naturals

CONSTANTS
    Calls,  \* calls of CreateOperation; the operation a call makes bears its name
    Keys,   \* idempotency keys of one classroom
    Hashes, \* request hashes
    NoOp    \* not an operation

VARIABLES
    asked,  \* the key and hash of every call, once it is made
    rows,   \* MemoryRepository.idempotency: hash and operation of every used key
    ops,    \* MemoryRepository.operations
    answer  \* what every call got

onceVars == <<asked, rows, ops, answer>>

NoKey == 0
Unasked == [key |-> NoKey, hash |-> {}]
NoRow == [hash |-> {}, op |-> NoOp]
Pending == [kind |-> "none", op |-> NoOp]
Error == [kind |-> "error", op |-> NoOp]

\* The record a call finds or leaves, and what it is told.
RowAfter(c) ==
    IF rows[asked[c].key] = NoRow THEN [hash |-> asked[c].hash, op |-> c]
                                  ELSE rows[asked[c].key]
Outcome(c) ==
    LET row == rows[asked[c].key] IN
    CASE row = NoRow -> [kind |-> "created", op |-> c]
      [] row # NoRow /\ row.hash = asked[c].hash -> [kind |-> "existing", op |-> row.op]
      [] OTHER -> [kind |-> "conflict", op |-> NoOp]
-----------------------------------------------------------------------------
Ask(c) ==
    /\ asked[c] = Unasked
    /\ \E key \in Keys, hash \in Hashes :
        asked' = [asked EXCEPT ![c] = [key |-> key, hash |-> hash]]
    /\ UNCHANGED <<rows, ops, answer>>

\* A call takes effect; its caller gets the outcome or an error.
Resolve(c) ==
    /\ asked[c] # Unasked
    /\ answer[c] = Pending
    /\ rows' = [rows EXCEPT ![asked[c].key] = RowAfter(c)]
    /\ ops' = ops \cup {RowAfter(c).op}
    /\ answer' \in {[answer EXCEPT ![c] = a] : a \in {Outcome(c), Error}}
    /\ UNCHANGED asked

\* A call fails, or is refused before it reaches the repository.
Refuse(c) ==
    /\ asked[c] # Unasked
    /\ answer[c] = Pending
    /\ \E kind \in {"invalid", "error"} :
        answer' = [answer EXCEPT ![c] = [kind |-> kind, op |-> NoOp]]
    /\ UNCHANGED <<asked, rows, ops>>

OnceInit ==
    /\ asked = [c \in Calls |-> Unasked]
    /\ rows = [k \in Keys |-> NoRow]
    /\ ops = {}
    /\ answer = [c \in Calls |-> Pending]

OnceNext == \E c \in Calls : Ask(c) \/ Resolve(c) \/ Refuse(c)

OnceSpec == OnceInit /\ [][OnceNext]_onceVars
=============================================================================
