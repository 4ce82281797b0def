-------------------------------- MODULE Limits --------------------------------
(***************************************************************************)
(* The limits on attempts (packages/auth/src/index.ts: login, limit and    *)
(* cleanup) and the transactions they are counted in                       *)
(* (packages/database/src/connection.ts: transaction).  Requests of        *)
(* several API processes count themselves, one statement per key, in rows  *)
(* they keep locked until they commit.  Each process has a pool of         *)
(* connections; who gets none, or no lock, gives up after a while, and a   *)
(* transaction the database rolled back is run again, up to three times.   *)
(*                                                                         *)
(* Time.  A window of 15 minutes counts down in its row; the timeouts of   *)
(* the pool and of a lock may strike whenever there is something to wait   *)
(* for.  Counts beyond the maximum are all alike.                          *)
(***************************************************************************)
EXTENDS Naturals, Sequences, Functions

CONSTANTS
    Requests,     \* HTTP requests, asked again and again
    Servers,      \* API processes
    Keys,         \* rows of login_limits
    Nobody,
    ProcessOf,    \* the process that serves each request
    KeysOf,       \* the keys of each request, in the order they are counted
    Maximum,      \* attempts that are let in per key and window
    Window,       \* 15 minutes, in ticks
    PoolSize,     \* connectionLimit
    MaxAttempts   \* of a transaction, 3 in the code

\* A key begins with what it is about (ip:, email:, setup: ...): no request has one twice.
ASSUME RequestsAssumption ==
    /\ Nobody \notin Requests
    /\ ProcessOf \in [Requests -> Servers]
    /\ KeysOf \in [Requests -> Seq(Keys)]
    /\ \A r \in Requests : IsInjective(KeysOf[r])
ASSUME LimitsAssumption ==
    /\ Maximum \in [Keys -> Nat \ {0}]
    /\ Window \in Nat \ {0} /\ PoolSize \in Nat \ {0} /\ MaxAttempts \in Nat \ {0}

VARIABLES
    rows,        \* table login_limits, with what is not committed yet
    committed,   \* what a rollback restores
    holder,      \* the request that has a row locked
    free,        \* connections left in the pool of each process
    requests     \* what each request is doing, and what became of it

limitsVars == <<rows, committed, holder, free, requests>>

NoRow == [attempts |-> 0, left |-> 0]

Ended(outcome) ==
    [pc |-> "ended", attempt |-> 0, counted |-> 0, allowed |-> TRUE, outcome |-> outcome]

LimitsInit ==
    /\ rows = [k \in Keys |-> NoRow]
    /\ committed = rows
    /\ holder = [k \in Keys |-> Nobody]
    /\ free = [p \in Servers |-> PoolSize]
    /\ requests = [r \in Requests |-> Ended("none")]

(******************************** transaction ******************************)

\* The loop starts its next attempt, which asks for a connection.
Attempting(attempt) ==
    [pc |-> "connect", attempt |-> attempt, counted |-> 0, allowed |-> TRUE,
     outcome |-> "asking"]

Ask(r) ==
    /\ requests[r].pc = "ended"
    /\ requests' = [requests EXCEPT ![r] = Attempting(0)]
    /\ UNCHANGED <<rows, committed, holder, free>>

Connect(r) ==
    /\ requests[r].pc = "connect"
    /\ free[ProcessOf[r]] > 0
    /\ free' = [free EXCEPT ![ProcessOf[r]] = @ - 1]
    /\ requests' = [requests EXCEPT ![r].pc = "work"]
    /\ UNCHANGED <<rows, committed, holder>>

\* acquireTimeout: getConnection throws, outside the try block.
NoConnection(r) ==
    /\ requests[r].pc = "connect"
    /\ free[ProcessOf[r]] = 0
    /\ requests' = [requests EXCEPT ![r] = Ended("failed")]
    /\ UNCHANGED <<rows, committed, holder, free>>

\* The rows of r as the transaction leaves them, and nothing locked.
Closed(r, table) ==
    LET Left(k) == IF holder[k] = r THEN table[k] ELSE rows[k]
    IN  /\ rows' = [k \in Keys |-> Left(k)]
        /\ committed' = [k \in Keys |-> IF holder[k] = r THEN table[k] ELSE committed[k]]
        /\ holder' = [k \in Keys |-> IF holder[k] = r THEN Nobody ELSE holder[k]]
        /\ free' = [free EXCEPT ![ProcessOf[r]] = @ + 1]

RetryDue(r) == requests[r].attempt + 1 < MaxAttempts

\* A deadlock, or innodb_lock_wait_timeout: rolled back, and tried again after
\* a pause without a connection.
Conflict(r) ==
    /\ requests[r].pc = "work"
    /\ requests[r].counted < Len(KeysOf[r])
    /\ holder[KeysOf[r][requests[r].counted + 1]] \notin {Nobody, r}
    /\ Closed(r, committed)
    /\ requests' = [requests EXCEPT ![r] =
           IF RetryDue(r) THEN [Attempting(@.attempt) EXCEPT !.pc = "sleep"]
           ELSE Ended("failed")]

Again(r) ==
    /\ requests[r].pc = "sleep"
    /\ requests' = [requests EXCEPT ![r] = Attempting(@.attempt + 1)]
    /\ UNCHANGED <<rows, committed, holder, free>>

\* The connection breaks, or the process dies, before COMMIT has been done:
\* the database rolls back, and nothing is tried again.
Break(r) ==
    /\ requests[r].pc = "work"
    /\ Closed(r, committed)
    /\ requests' = [requests EXCEPT ![r] = Ended("failed")]

(******************************** login, limit *****************************)

\* Mutant of Counted: each attempt prolongs the window.
CountedAnew(k) ==
    [attempts |-> IF rows[k].left = 0 THEN 1
                  ELSE IF rows[k].attempts > Maximum[k] THEN rows[k].attempts
                  ELSE rows[k].attempts + 1,
     left |-> Window]

\* INSERT ... ON DUPLICATE KEY UPDATE: a window that is over starts again.
Counted(k) ==
    IF rows[k].left = 0 THEN [attempts |-> 1, left |-> Window]
    ELSE [rows[k] EXCEPT !.attempts = IF @ > Maximum[k] THEN @ ELSE @ + 1]

\* One key: the statement locks the row, and the count is read back.  All keys
\* are counted, although an earlier one is above its maximum.
Count(r) ==
    /\ requests[r].pc = "work"
    /\ requests[r].counted < Len(KeysOf[r])
    /\ LET k == KeysOf[r][requests[r].counted + 1]
       IN  /\ holder[k] \in {Nobody, r}
           /\ holder' = [holder EXCEPT ![k] = r]
           /\ rows' = [rows EXCEPT ![k] = Counted(k)]
           /\ requests' = [requests EXCEPT
                  ![r].counted = @ + 1,
                  ![r].allowed = @ /\ Counted(k).attempts <= Maximum[k]]
    /\ UNCHANGED <<committed, free>>

Commit(r) ==
    /\ requests[r].pc = "work"
    /\ requests[r].counted = Len(KeysOf[r])
    /\ Closed(r, rows)
    /\ requests' = [requests EXCEPT ![r] = Ended(IF @.allowed THEN "in" ELSE "refused")]

\* Mutant of AfterLostCommit: tried again like a deadlock.
LostCommitRetried(r) ==
    IF RetryDue(r) THEN [Attempting(requests[r].attempt) EXCEPT !.pc = "sleep"]
    ELSE Ended("failed")

\* The answer to COMMIT is lost: an error like any other, and no reason to retry.
AfterLostCommit(r) == Ended("failed")

CommitLost(r) ==
    /\ requests[r].pc = "work"
    /\ requests[r].counted = Len(KeysOf[r])
    /\ Closed(r, rows)
    /\ requests' = [requests EXCEPT ![r] = AfterLostCommit(r)]

(******************************** time, cleanup ****************************)

Later(row) == [row EXCEPT !.left = IF @ = 0 THEN 0 ELSE @ - 1]

Tick ==
    /\ rows' = [k \in Keys |-> Later(rows[k])]
    /\ committed' = [k \in Keys |-> Later(committed[k])]
    /\ UNCHANGED <<holder, free, requests>>

\* cleanup deletes rows that have expired, perhaps not all; the statement waits
\* for rows that are locked.
Expired == {k \in Keys : committed[k].left = 0 /\ holder[k] = Nobody}

Cleanup ==
    \E S \in SUBSET Expired :
        /\ \E k \in S : rows[k] # NoRow
        /\ rows' = [k \in Keys |-> IF k \in S THEN NoRow ELSE rows[k]]
        /\ committed' = [k \in Keys |-> IF k \in S THEN NoRow ELSE committed[k]]
        /\ UNCHANGED <<holder, free, requests>>

(******************************** specification ****************************)

\* What the process of r does with it: await by await, until it is answered.
Handle(r) ==
    \/ Connect(r)
    \/ NoConnection(r)
    \/ Count(r)
    \/ Conflict(r)
    \/ Again(r)
    \/ Commit(r)
    \/ CommitLost(r)
    \/ Break(r)

LimitsNext ==
    \/ \E r \in Requests : Ask(r) \/ Handle(r)
    \/ Tick
    \/ Cleanup

\* Every await ends, by a timeout if nothing else ends it, and time passes.
Fairness == (\A r \in Requests : WF_limitsVars(Handle(r))) /\ WF_limitsVars(Tick)

LimitsSpec == LimitsInit /\ [][LimitsNext]_limitsVars /\ Fairness

(******************************** properties *******************************)

Limiter == INSTANCE LimiterLife WITH
    KeysOf <- [r \in Requests |-> Range(KeysOf[r])],
    count <- [k \in Keys |-> committed[k].attempts],
    left <- [k \in Keys |-> committed[k].left],
    outcome <- [r \in Requests |-> requests[r].outcome]

\* Seen from outside, counting is atomic and each request counts once: whatever
\* is rolled back, retried, waits or loses its answer, no request is let in
\* beyond a maximum, refused below it or counted twice, and no window starts
\* again before its time (login, limit; "never ambiguous commits", transaction).
ImplementsLimiter == Limiter!Spec

\* Every request is answered, although others hold the connections and the
\* rows it needs; and a key that is locked out is not locked out for ever by
\* those who go on trying, because a refused attempt does not prolong its window.
NobodyWaitsForEver ==
    /\ \A r \in Requests : requests[r].outcome = "asking" ~> requests[r].outcome # "asking"
    /\ \A k \in Keys :
        committed[k].attempts > Maximum[k] ~> committed[k].left = 0
===============================================================================
