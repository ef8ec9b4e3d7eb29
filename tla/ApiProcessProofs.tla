--------------------------- MODULE ApiProcessProofs ---------------------------
(***************************************************************************)
(* For any number of connections: nobody is left behind by the end of the  *)
(* process, and its worker is only blamed for what it did by itself.       *)
(***************************************************************************)
EXTENDS ApiProcess, TLAPS

Blocked == {"select"}
Running == {"started", "select", "woken"}
Ending == {"shutdown", "waiting", "closing", "closed"}
Shut == {"none", "failed", "closed"}

\* Before the start nothing runs, and without an embedded worker none ever does.
StartInv ==
    /\ main = "opening" => /\ worker = "none" /\ server = "none" /\ Quiet
                           /\ repository = "unopened"
    /\ ~config.embedded => worker = "none"
    /\ repository = "closed" => main \in {"closed", "exited"}

\* The cases of the select: run is blocked only while none is ready, and the worker
\* was the cause only if it returned.
SelectInv ==
    /\ main \in {"opening"} \cup Running => ~cancelled
    /\ main \in Blocked => ~signalled
    /\ cause = "worker" => worker = "returned"

\* A step from the shutdown to the close is only taken when nobody is left, or when
\* the time is up.  No connection comes after the listener is closed, or if it never
\* opened.
EndInv ==
    /\ main \in Ending => server \in Shut
    /\ main = "waiting" => Quiet
    /\ main = "closing" \/ repository = "closed" =>
        /\ server \in Shut
        /\ (Quiet /\ WorkerGone) \/ (late /\ exit = "error")

ProcessInv == TypeOK /\ StartInv /\ SelectInv /\ EndInv
-----------------------------------------------------------------------------
LEMMA InitInv == Init => ProcessInv
BY DEF Init, ProcessInv, TypeOK, StartInv, SelectInv, EndInv, Running, Blocked, Ending,
   Shut, Quiet

\* run itself.
LEMMA RunInv == ProcessInv /\ Run => ProcessInv'
<1> SUFFICES ASSUME ProcessInv, Run PROVE ProcessInv'
    OBVIOUS
<1> USE DEF ProcessInv, StartInv, SelectInv, EndInv, Running, Blocked, Ending, Shut,
            Quiet, WorkerGone
<1>1. CASE StartFails
    BY <1>1 DEF StartFails, TypeOK
<1>2. CASE AdapterFails
    BY <1>2 DEF AdapterFails, RepositoryOpens, TypeOK
<1>3. CASE StartUp
    BY <1>3 DEF StartUp, RepositoryOpens, TypeOK
<1>4. CASE Select
    BY <1>4 DEF Select, Ready, TypeOK
<1>5. CASE BeginShutdown
    BY <1>5 DEF BeginShutdown, TypeOK
<1>6. CASE ShutdownReturns
    BY <1>6 DEF ShutdownReturns, AfterShutdown, TypeOK
<1>7. CASE WorkerAwaited
    BY <1>7 DEF WorkerAwaited, TypeOK
<1>8. CASE GivesUp
    BY <1>8 DEF GivesUp, TypeOK
<1>9. CASE CloseRepository
    BY <1>9 DEF CloseRepository, TypeOK
<1>10. CASE Exit
    BY <1>10 DEF Exit, TypeOK
<1> QED BY <1>1, <1>2, <1>3, <1>4, <1>5, <1>6, <1>7, <1>8, <1>9, <1>10 DEF Run

\* Its worker: once returned, it stays so.
LEMMA WorkInv == ProcessInv /\ Work => ProcessInv'
<1> SUFFICES ASSUME ProcessInv, Work PROVE ProcessInv'
    OBVIOUS
<1> DEFINE Labels == {"calling", "pve", "failing", "asleep"}
<1>1. CASE \E from \in SUBSET Labels, to \in Labels : WorkerGoes(from, to)
    <2>1. PICK from \in SUBSET Labels, to \in Labels : WorkerGoes(from, to)
        BY <1>1
    <2>2. worker \in Labels /\ worker' \in Labels
        BY <2>1 DEF WorkerGoes
    <2> QED
        BY <2>1, <2>2 DEF WorkerGoes, ProcessInv, TypeOK, StartInv, SelectInv, EndInv,
           Running, Blocked, Ending, Shut, Quiet, WorkerGone
<1>2. CASE WorkerReturns
    <2>1. worker \notin {"none", "returned"} /\ worker' = "returned"
        BY <1>2 DEF WorkerReturns
    <2> QED
        BY <1>2, <2>1 DEF WorkerReturns, Wakes, ProcessInv, TypeOK, StartInv, SelectInv,
           EndInv, Running, Blocked, Ending, Shut, Quiet, WorkerGone
<1> QED BY <1>1, <1>2 DEF Work, WorkerCalls, WorkerErrs, WorkerSavesFailure, WorkerSleeps,
           WorkerWakes

\* What run waits for.
LEMMA EventInv ==
    ProcessInv /\ (Signal \/ Listens \/ ServerFails \/ TimerFires) => ProcessInv'
<1> SUFFICES ASSUME ProcessInv, Signal \/ Listens \/ ServerFails \/ TimerFires
             PROVE  ProcessInv'
    OBVIOUS
<1> USE DEF ProcessInv, StartInv, SelectInv, EndInv, Running, Blocked, Ending, Shut,
            Quiet, WorkerGone
<1>1. CASE Signal
    BY <1>1 DEF Signal, Wakes, TypeOK
<1>2. CASE Listens
    BY <1>2 DEF Listens, TypeOK
<1>3. CASE ServerFails
    BY <1>3 DEF ServerFails, Wakes, TypeOK
<1>4. CASE TimerFires
    BY <1>4 DEF TimerFires, TypeOK
<1> QED BY <1>1, <1>2, <1>3, <1>4

\* Its requests.
LEMMA RequestInv ==
    ASSUME NEW r \in Requests PROVE ProcessInv /\ (Accept(r) \/ Handle(r)) => ProcessInv'
<1> SUFFICES ASSUME ProcessInv, Accept(r) \/ Handle(r) PROVE ProcessInv'
    OBVIOUS
<1> DEFINE Kinds == {"none", "call", "stream"}
<1>1. PICK from \in Kinds, to \in Kinds :
            /\ RequestGoes(r, from, to)
            /\ from = "none" => server = "listening"
    BY DEF Accept, Handle, Answer, Stream, Tick, Hangup
<1>2. server \in Shut /\ Quiet => Quiet'
    BY <1>1 DEF RequestGoes, Quiet, Shut
<1>3. request' \in [Requests -> Kinds]
    BY <1>1 DEF RequestGoes, ProcessInv, TypeOK
<1>4. UNCHANGED <<config, main, signalled, cancelled, late, cause, exit, server, worker,
                  repository>>
    BY <1>1 DEF RequestGoes
<1>5. TypeOK' /\ StartInv' /\ SelectInv'
    <2>1. TypeOK' /\ SelectInv'
        BY <1>3, <1>4 DEF ProcessInv, TypeOK, SelectInv
    <2>2. StartInv'
        BY <1>2, <1>4 DEF ProcessInv, StartInv, Shut
    <2> QED BY <2>1, <2>2
<1>6. EndInv'
    BY <1>2, <1>4 DEF ProcessInv, EndInv, Ending, WorkerGone
<1> QED BY <1>5, <1>6 DEF ProcessInv

LEMMA StepInv == ProcessInv /\ [Next]_vars => ProcessInv'
<1> SUFFICES ASSUME ProcessInv, [Next]_vars PROVE ProcessInv'
    OBVIOUS
<1>1. CASE Run
    BY <1>1, RunInv
<1>2. CASE Work
    BY <1>2, WorkInv
<1>3. CASE Signal \/ Listens \/ ServerFails \/ TimerFires
    BY <1>3, EventInv
<1>4. ASSUME NEW r \in Requests, Accept(r) \/ Handle(r) PROVE ProcessInv'
    BY <1>4, RequestInv
<1>5. CASE UNCHANGED vars
    BY <1>5 DEF vars, ProcessInv, TypeOK, StartInv, SelectInv, EndInv, Quiet, WorkerGone
<1> QED BY <1>1, <1>2, <1>3, <1>4, <1>5 DEF Next

\* The invariant holds whatever comes in whatever order.
THEOREM ProcessInvariance == Spec => []ProcessInv
<1> QED BY InitInv, StepInv, PTL DEF Spec

\* main.go 103-118: the repository is only closed when no request and no worker is
\* left, or after a timeout that run reports, with any number of connections.
THEOREM NobodyLeftBehind == Spec => []LeavesNobodyBehind
<1>1. ProcessInv => LeavesNobodyBehind
    BY DEF ProcessInv, EndInv, LeavesNobodyBehind
<1> QED BY <1>1, ProcessInvariance, PTL

\* main.go 95-100: while run is blocked in its select nobody has told the worker to
\* end, so a worker that ends then does so unexpectedly.
THEOREM RightlyBlamed == Spec => WorkerIsBlamedRightly
<1>1. ProcessInv /\ [Next]_vars
        => [cause' # cause /\ cause' = "worker" /\ main = "select" => ~CtxDone]_vars
    BY DEF ProcessInv, SelectInv, Blocked, Running, CtxDone
<1> QED BY <1>1, ProcessInvariance, PTL DEF Spec, WorkerIsBlamedRightly
=============================================================================
