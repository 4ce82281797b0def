-------------------------------- MODULE Worker --------------------------------
(***************************************************************************)
(* The life of one worker process, apps/worker/src/worker.ts: the loop     *)
(* that claims checks and starts them, the checks in flight with their DNS *)
(* queries (packages/dns-engine/src/query.ts), and what SIGTERM does to    *)
(* them.  Scheduler models what claimDue, complete and fail do to the      *)
(* database; here they only decide what becomes of a lease.                *)
(*                                                                         *)
(* JavaScript runs to the next await without interruption: a step is what  *)
(* happens between two of them.  A call to the database may fail without   *)
(* effect, or have its effect and fail.                                    *)
(***************************************************************************)
EXTENDS Naturals, FiniteSets

CONSTANTS
    Claims,        \* claims there are to get
    Concurrency,   \* options.concurrency
    Queries,       \* resolvers of a claim, asked one after the other
    Timeout,       \* config.timeoutMs of a query, in ticks
    MaxErrors      \* bound: calls to the database that fail

ASSUME OptionsAssumption == {Concurrency, Queries, Timeout} \subseteq Nat \ {0}
ASSUME BoundAssumption == MaxErrors \in Nat

VARIABLES
    loop,      \* where run is
    capacity,  \* what it asked claimDue for
    claims,    \* what claimDue returned and it has not handled yet
    tasks,     \* execute of each claim: pc, queries left, whether one was cut off,
               \* and the exchange under way
    leases,    \* what became of each claim in the database
    signal,    \* the signal to stop
    cutting,   \* abortQueries
    errors     \* database calls that failed so far

run == <<loop, capacity, claims>>
vars == <<run, tasks, leases, signal, cutting, errors>>

\* No exchange: its socket, timer and listener are closed.
None == [via |-> "NONE", used |-> 0, timer |-> 0]

Idle == [pc |-> "IDLE", left |-> Queries, cut |-> FALSE, exchange |-> None]

active == {c \in Claims : tasks[c].pc \notin {"IDLE", "DONE"}}

Protocols == {"UDP", "TCP"}

Init ==
    /\ loop = "TOP"
    /\ capacity = 0
    /\ claims = {}
    /\ tasks = [c \in Claims |-> Idle]
    /\ leases = [c \in Claims |-> "DUE"]
    /\ signal = FALSE /\ cutting = FALSE
    /\ errors = 0

Goto(pc) == loop' = pc /\ UNCHANGED <<capacity, claims>>

Error == errors < MaxErrors /\ errors' = errors + 1

(******************************* the loop **********************************)

\* The heartbeat is due or it is not.
Turn ==
    /\ loop = "TOP"
    /\ IF signal THEN Goto("DRAIN") ELSE Goto("HEARTBEAT") \/ Goto("ROOM")
    /\ UNCHANGED <<tasks, leases, signal, cutting, errors>>

Heartbeat ==
    /\ loop = "HEARTBEAT"
    /\ \/ Goto("ROOM") /\ UNCHANGED errors
       \/ Goto("SLEEP") /\ Error
    /\ UNCHANGED <<tasks, leases, signal, cutting>>

\* Mutant of Room: the checks in flight are not subtracted.
RoomForAll == Concurrency

Room == Concurrency - Cardinality(active)

Ask ==
    /\ loop = "ROOM"
    /\ IF Room > 0 /\ ~signal
       THEN loop' = "CLAIM" /\ capacity' = Room /\ UNCHANGED claims
       ELSE Goto("SLEEP")
    /\ UNCHANGED <<tasks, leases, signal, cutting, errors>>

\* claimDue commits and its answer arrives, or is lost; or it fails.
ClaimDue ==
    /\ loop = "CLAIM"
    /\ \E due \in SUBSET {c \in Claims : leases[c] = "DUE"} :
           /\ IsFiniteSet(due) /\ Cardinality(due) <= capacity
           /\ leases' = [c \in Claims |-> IF c \in due THEN "HELD" ELSE leases[c]]
           /\ \/ loop' = "SPAWN" /\ claims' = due /\ UNCHANGED <<capacity, errors>>
              \/ Goto("SLEEP") /\ Error
    /\ UNCHANGED <<tasks, signal, cutting>>

MaySpawn == ~signal

\* The first exchange of a query: the time since query began, and the timer's time left.
Asking(protocol) == [via |-> protocol, used |-> 0, timer |-> Timeout]

\* Without a signal there is no await in the loop over the claims, nor in execute up to its
\* first query, to a resolver of either protocol.
Spawn ==
    /\ loop = "SPAWN" /\ MaySpawn
    /\ \E protocol \in [claims -> Protocols] :
           tasks' = [c \in Claims |->
               IF c \in claims
               THEN [tasks[c] EXCEPT !.pc = "WAIT", !.exchange = Asking(protocol[c])]
               ELSE tasks[c]]
    /\ claims' = {}
    /\ loop' = "SLEEP"
    /\ UNCHANGED <<capacity, leases, signal, cutting, errors>>

\* fail: the lease is given back if it is still this one.
Given(c) == [leases EXCEPT ![c] = IF @ = "HELD" THEN "RELEASED" ELSE @]

\* With a signal the claims are given back one by one; an error gives up the others.
GiveBack ==
    /\ loop = "SPAWN" /\ ~MaySpawn
    /\ \/ claims = {} /\ Goto("SLEEP") /\ UNCHANGED <<leases, errors>>
       \/ \E c \in claims :
              \/ claims' = claims \ {c} /\ leases' = Given(c) /\ UNCHANGED <<loop, errors>>
              \/ claims' = {} /\ loop' = "SLEEP" /\ leases' \in {leases, Given(c)} /\ Error
          /\ UNCHANGED capacity
    /\ UNCHANGED <<tasks, signal, cutting>>

Sleep ==
    /\ loop = "SLEEP"
    /\ Goto("TOP")
    /\ UNCHANGED <<tasks, leases, signal, cutting, errors>>

\* Mutant of Drained: nobody waits for the checks.
DrainedAtOnce == TRUE

Drained == active = {}

\* Promise.all(active), then a last heartbeat, whatever becomes of it.
Stop ==
    /\ loop = "DRAIN" /\ Drained
    /\ Goto("STOPPED")
    /\ UNCHANGED <<tasks, leases, signal, cutting, errors>>

Terminate ==
    /\ ~signal
    /\ signal' = TRUE
    /\ UNCHANGED <<run, tasks, leases, cutting, errors>>

(****************************** the checks *********************************)

Step(c, pc) == tasks' = [tasks EXCEPT ![c].pc = pc]

\* Mutant of Resumed: after the last query the signal is not looked at.
ResumedUnaware(left, aborted) ==
    IF left = 0 THEN "COMPLETE" ELSE IF aborted THEN "FAIL" ELSE "WAIT"

\* After a query: the signal is looked at before the next one and before complete, without
\* an await in between.
Resumed(left, aborted) ==
    IF aborted THEN "FAIL" ELSE IF left = 0 THEN "COMPLETE" ELSE "WAIT"

\* The promise of the query is settled, and execute resumed, before another event comes; the
\* next query asks a resolver of either protocol.
Ended(c, aborted, cut, protocol) ==
    LET left == tasks[c].left - 1
        pc == Resumed(left, aborted)
    IN  [pc |-> pc, left |-> left, cut |-> tasks[c].cut \/ cut,
         exchange |-> IF pc = "WAIT" THEN Asking(protocol) ELSE None]

EndQuery(c) ==
    /\ tasks[c].pc = "WAIT"
    /\ \E protocol \in Protocols :
           tasks' = [tasks EXCEPT ![c] = Ended(c, cutting, FALSE, protocol)]
    /\ UNCHANGED <<run, leases, signal, cutting, errors>>

\* A response that ends the query, good or bad, or an error of the socket.
Answer(c) == EndQuery(c)

\* Mutant of Remaining: the retry gets a timeout of its own.
RemainingOfRetry(c) == Timeout

\* timeoutMs - (performance.now() - start)
Remaining(c) == Timeout - tasks[c].exchange.used

\* A truncated response over UDP: the query is retried over TCP in the time that remains.
Truncated(c) ==
    /\ tasks[c].exchange.via = "UDP"
    /\ IF Remaining(c) > 0
       THEN /\ tasks' = [tasks EXCEPT ![c].exchange.via = "TCP",
                                      ![c].exchange.timer = Remaining(c)]
            /\ UNCHANGED <<run, leases, signal, cutting, errors>>
       ELSE EndQuery(c)

\* Time passes in an exchange.
Wait(c) ==
    /\ tasks[c].exchange.timer > 0
    /\ tasks' = [tasks EXCEPT ![c].exchange.used = @ + 1, ![c].exchange.timer = @ - 1]
    /\ UNCHANGED <<run, leases, signal, cutting, errors>>

\* The timer: a TIMEOUT of the resolver.
Expire(c) == tasks[c].exchange.timer = 0 /\ EndQuery(c)

\* Mutant of HasSignal: the retry over TCP does not get the signal.
HasSignalFirst(c) == tasks[c].pc = "WAIT" /\ tasks[c].exchange.via = "UDP"

\* The exchanges that abortQueries ends.
HasSignal(c) == tasks[c].pc = "WAIT"

\* drainMs after the signal was seen: every query in flight is cut off, which is an ERROR of
\* its resolver for who does not look.
Deadline ==
    /\ loop = "DRAIN" /\ ~cutting /\ active # {}
    /\ cutting' = TRUE
    /\ tasks' = [c \in Claims |->
           IF HasSignal(c) THEN Ended(c, TRUE, TRUE, "UDP") ELSE tasks[c]]
    /\ UNCHANGED <<run, leases, signal, errors>>

Completed(c) == [leases EXCEPT ![c] = IF @ = "HELD" THEN "COMPLETED" ELSE @]

\* Mutant of Complete: a claim that was lost is not discarded but waited for.
CompleteHeld(c) ==
    /\ tasks[c].pc = "COMPLETE" /\ leases[c] = "HELD"
    /\ \/ leases' = Completed(c) /\ Step(c, "DONE") /\ UNCHANGED errors
       \/ leases' \in {leases, Completed(c)} /\ Step(c, "FAIL") /\ Error
    /\ UNCHANGED <<run, signal, cutting>>

\* complete commits, or finds that the lease is gone and discards the check; or it fails.
Complete(c) ==
    /\ tasks[c].pc = "COMPLETE"
    /\ \/ leases' = Completed(c) /\ Step(c, "DONE") /\ UNCHANGED errors
       \/ leases' \in {leases, Completed(c)} /\ Step(c, "FAIL") /\ Error
    /\ UNCHANGED <<run, signal, cutting>>

Fail(c) ==
    /\ tasks[c].pc = "FAIL"
    /\ Step(c, "DONE")
    /\ \/ leases' = Given(c) /\ UNCHANGED errors
       \/ leases' \in {leases, Given(c)} /\ Error
    /\ UNCHANGED <<run, signal, cutting>>

\* The lease runs out, or the monitor is edited: the claim is worth nothing.
Lose(c) ==
    /\ leases[c] = "HELD"
    /\ leases' = [leases EXCEPT ![c] = "LOST"]
    /\ UNCHANGED <<run, tasks, signal, cutting, errors>>

Looping ==
    \/ Turn \/ Heartbeat \/ Ask \/ ClaimDue \/ Spawn \/ GiveBack \/ Sleep \/ Stop

Executing(c) == Complete(c) \/ Fail(c)

Querying(c) == Answer(c) \/ Truncated(c) \/ Wait(c) \/ Expire(c)

Next ==
    \/ Looping \/ Deadline \/ Terminate
    \/ \E c \in Claims : Executing(c) \/ Querying(c) \/ Lose(c)

Spec == Init /\ [][Next]_vars

\* Calls to the database return (queryTimeout), and the timer of the drain fires; a resolver
\* need not answer.
Progress ==
    /\ WF_vars(Looping) /\ WF_vars(Deadline)
    /\ \A c \in Claims : WF_vars(Executing(c))

FairSpec == Spec /\ Progress

\* The timers of the queries, which FairSpec does not rely on.
TimersFire == \A c \in Claims : WF_vars(Wait(c) \/ Expire(c))

-----------------------------------------------------------------------------
(******************************* properties ********************************)

\* Types, and never more checks at a time than the concurrency that was asked for.
TypeOK ==
    /\ loop \in {"TOP", "HEARTBEAT", "ROOM", "CLAIM", "SPAWN", "SLEEP", "DRAIN", "STOPPED"}
    /\ capacity \in 0..Concurrency
    /\ claims \subseteq Claims
    /\ tasks \in [Claims ->
           [pc : {"IDLE", "WAIT", "COMPLETE", "FAIL", "DONE"},
            left : 0..Queries, cut : BOOLEAN,
            exchange : [via : Protocols, used : Nat, timer : 0..Timeout]
                       \cup {None}]]
    /\ leases \in [Claims -> {"DUE", "HELD", "COMPLETED", "RELEASED", "LOST"}]
    /\ signal \in BOOLEAN /\ cutting \in BOOLEAN
    /\ errors \in 0..MaxErrors
    /\ Cardinality(active) <= Concurrency

\* A worker that stops holds no lease any more, or its monitors would wait for the lease
\* to run out: every claim was completed or given back, those that arrived together with
\* the signal included.  Only a database that fails can prevent it (worker.ts:39-43, 58-61,
\* 75-77).
StopHoldsNothing ==
    /\ errors = 0 => \A c \in Claims : leases[c] = "HELD" => c \in active \cup claims
    /\ loop = "STOPPED" => active = {} /\ claims = {}

\* A query that was cut off by the shutdown is never counted as an answer: it would be a
\* failure of the resolver, and might open an incident (worker.ts:33, 36).
ShutdownIsNoAnswer ==
    \A c \in Claims : leases[c] = "COMPLETED" => ~tasks[c].cut

\* A worker that is told to stop does, even if no resolver answers (worker.ts:75-76).
StopsInTheEnd == signal ~> loop = "STOPPED"

\* A query takes no longer than its timeout, whatever is retried over TCP and however late
\* the truncated answer came: the lease of a check is counted as one timeout for each
\* resolver and a grace for the database (query.ts:77, worker.ts:34, repository.ts:79).
QueriesKeepTheirTime ==
    \A c \in Claims :
        LET x == tasks[c].exchange
        IN  x.used + x.timer <= Timeout /\ (x = None <=> tasks[c].pc # "WAIT")

\* A claim does not stay in the hands of a worker that goes on working, even if no resolver
\* answers: every query is ended by its timer (worker.ts:29-45, 62; query.ts:36).
ClaimsAreSettled == TimersFire => \A c \in Claims : c \in active ~> tasks[c].pc = "DONE"
=============================================================================
