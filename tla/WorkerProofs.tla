----------------------------- MODULE WorkerProofs -----------------------------
(***************************************************************************)
(* Safety of Worker for every set of claims, every concurrency, number of  *)
(* queries and timeout, and every number of database calls that fail.      *)
(***************************************************************************)
EXTENDS Worker, FiniteSetTheorems, TLAPS

\* What execute has done of claim c, by where it is and by what became of the lease.
Sound(c) ==
    LET t == tasks[c]
    IN  /\ t.pc = "IDLE" => t = Idle
        /\ t.pc = "WAIT" => t.left > 0
        /\ t.cut => t.pc \in {"FAIL", "DONE"}
        /\ leases[c] = "DUE" => t.pc = "IDLE"
        /\ leases[c] = "COMPLETED" => t.pc \in {"FAIL", "DONE"} /\ ~t.cut
        /\ t.exchange.used + t.exchange.timer <= Timeout
        /\ t.exchange = None <=> t.pc # "WAIT"

Checks == \A c \in Claims : Sound(c)

\* The loop has room for what it asked for, and starts what it was given and nothing else.
Loop ==
    /\ claims # {} => loop = "SPAWN"
    /\ \A c \in claims : tasks[c].pc = "IDLE" /\ leases[c] # "DUE"
    /\ IsFiniteSet(active) /\ IsFiniteSet(claims)
    /\ loop = "CLAIM" => capacity + Cardinality(active) <= Concurrency
    /\ Cardinality(claims) + Cardinality(active) <= Concurrency

WorkerInv == TypeOK /\ Checks /\ Loop /\ StopHoldsNothing

-----------------------------------------------------------------------------
(******************************** one check ********************************)

TaskType ==
    [pc : {"IDLE", "WAIT", "COMPLETE", "FAIL", "DONE"}, left : 0..Queries, cut : BOOLEAN,
     exchange : [via : Protocols, used : Nat, timer : 0..Timeout] \cup {None}]

\* What execute is in after a step of its own.
Underway(t) ==
    /\ t \in TaskType
    /\ t.pc # "IDLE"
    /\ t.pc = "WAIT" => t.left > 0
    /\ t.cut => t.pc \in {"FAIL", "DONE"}
    /\ t.exchange.used + t.exchange.timer <= Timeout
    /\ t.exchange = None <=> t.pc # "WAIT"

\* The absence of an exchange is not one, and takes no time.
LEMMA NoExchange ==
    /\ None \notin [via : Protocols, used : Nat, timer : 0..Timeout]
    /\ None.used = 0 /\ None.timer = 0 /\ None.via \notin Protocols
BY DEF None, Protocols

\* A query begins with all of its time ahead of it: asking, in query.
LEMMA AskingType ==
    ASSUME NEW protocol \in Protocols
    PROVE  /\ Asking(protocol) \in [via : Protocols, used : Nat, timer : 0..Timeout]
           /\ Asking(protocol) # None
           /\ Asking(protocol).used + Asking(protocol).timer <= Timeout
BY OptionsAssumption DEF Asking, None, Protocols

\* After a query execute goes on to the next one, to complete or to fail, and a query that
\* was cut off leads nowhere but to fail: execute, the loop over the resolvers.
LEMMA EndedType ==
    ASSUME TypeOK, NEW c \in Claims, Sound(c), tasks[c].pc = "WAIT",
           NEW aborted \in BOOLEAN, NEW cut \in BOOLEAN, cut => aborted,
           NEW protocol \in Protocols
    PROVE  Underway(Ended(c, aborted, cut, protocol))
<1> DEFINE left == tasks[c].left - 1
           pc == Resumed(left, aborted)
           x == IF pc = "WAIT" THEN Asking(protocol) ELSE None
<1>1. tasks[c].left > 0 /\ ~tasks[c].cut /\ tasks[c] \in TaskType
  BY DEF TypeOK, Sound, TaskType
<1>2. left \in 0..Queries
  BY <1>1, OptionsAssumption DEF TaskType
<1>3. /\ pc \in {"WAIT", "COMPLETE", "FAIL"} /\ (pc = "WAIT" => left > 0)
      /\ aborted => pc = "FAIL"
  <2> HIDE DEF left
  <2>1. CASE aborted
    BY <2>1 DEF Resumed
  <2>2. CASE ~aborted /\ left = 0
    BY <2>2 DEF Resumed
  <2>3. CASE ~aborted /\ left # 0
    BY <1>2, <2>3 DEF Resumed
  <2> QED
    BY <2>1, <2>2, <2>3
<1>4. /\ x \in [via : Protocols, used : Nat, timer : 0..Timeout] \cup {None}
      /\ x.used + x.timer <= Timeout /\ (x = None <=> pc # "WAIT")
  BY <1>3, AskingType, NoExchange, OptionsAssumption
<1>5. Ended(c, aborted, cut, protocol) = [pc |-> pc, left |-> left, cut |-> cut, exchange |-> x]
  BY <1>1 DEF Ended, TaskType
<1> HIDE DEF left, pc, x
<1> QED
  BY <1>2, <1>3, <1>4, <1>5 DEF Underway, TaskType

(******************************** counting *********************************)

\* A step that starts no check leaves room for as many: Promise.race and active.delete.
LEMMA FewerActive ==
    ASSUME Loop, active' \subseteq active
    PROVE  /\ IsFiniteSet(active)' /\ Cardinality(active)' \in Nat
           /\ Cardinality(active) \in Nat
           /\ Cardinality(active)' <= Cardinality(active)
<1>1. IsFiniteSet(active)
  BY DEF Loop
<1>2. IsFiniteSet(active') /\ Cardinality(active') <= Cardinality(active)
  BY <1>1, FS_Subset
<1> QED
  BY <1>1, <1>2, FS_CardinalityType

\* A step of one check that was in flight keeps what the loop relies on.
LEMMA CheckKeepsLoop ==
    ASSUME TypeOK, Loop, NEW c \in active, NEW t \in TaskType, t.pc # "IDLE",
           tasks' = [tasks EXCEPT ![c] = t], UNCHANGED run,
           \A x \in Claims : leases[x] # "DUE" => leases'[x] # "DUE"
    PROVE  Loop' /\ Cardinality(active)' <= Concurrency
<1>1. active' \subseteq active
  BY DEF active, TypeOK
<1>2. \A x \in claims : tasks'[x] = tasks[x] /\ x \in Claims
  BY DEF active, TypeOK, Loop
<1>3. /\ Cardinality(active)' <= Cardinality(active)
      /\ Cardinality(active)' \in Nat /\ Cardinality(active) \in Nat /\ IsFiniteSet(active)'
  BY <1>1, FewerActive
<1>4. Cardinality(claims) \in Nat
  BY FS_CardinalityType DEF Loop
<1>5. /\ claims' # {} => loop' = "SPAWN"
      /\ \A x \in claims' : tasks'[x].pc = "IDLE" /\ leases'[x] # "DUE"
      /\ IsFiniteSet(claims')
  BY <1>2 DEF Loop, run
<1>6. /\ loop' = "CLAIM" => capacity' + Cardinality(active)' <= Concurrency
      /\ Cardinality(claims)' + Cardinality(active)' <= Concurrency
  BY <1>3, <1>4, OptionsAssumption DEF Loop, run, TypeOK
<1> QED
  BY <1>3, <1>4, <1>5, <1>6, OptionsAssumption DEF Loop, run

\* A step of one check that was in flight keeps what is known of every check.
LEMMA CheckKeepsChecks ==
    ASSUME TypeOK, Checks, NEW c \in active, NEW t \in TaskType, Underway(t),
           tasks' = [tasks EXCEPT ![c] = t],
           \A x \in Claims : x # c => leases'[x] = leases[x],
           leases[c] # "DUE" => leases'[c] # "DUE",
           leases'[c] = "COMPLETED" => t.pc \in {"FAIL", "DONE"} /\ ~t.cut
    PROVE  Checks'
<1>1. c \in Claims /\ leases'[c] # "DUE"
  BY DEF active, Checks, Sound
<1>2. Sound(c)'
  <2>1. tasks'[c] = t
    BY <1>1 DEF TypeOK
  <2> QED
    BY <1>1, <2>1 DEF Sound, Underway
<1>3. ASSUME NEW x \in Claims, x # c PROVE Sound(x)'
  <2>1. tasks'[x] = tasks[x] /\ leases'[x] = leases[x] /\ Sound(x)
    BY <1>3 DEF TypeOK, Checks
  <2> QED
    BY <2>1 DEF Sound, Idle
<1> QED
  BY <1>2, <1>3 DEF Checks

-----------------------------------------------------------------------------
(******************************** the steps ********************************)

Leases == {"DUE", "HELD", "COMPLETED", "RELEASED", "LOST"}

\* A step of one check in flight keeps the invariant, when the lease it leaves says what
\* became of the check, and without an error is not left behind: execute.
LEMMA CheckStep ==
    ASSUME WorkerInv, NEW c \in active, NEW t, Underway(t),
           tasks' = [tasks EXCEPT ![c] = t], UNCHANGED <<run, signal, cutting>>,
           NEW lease \in Leases, leases' = [leases EXCEPT ![c] = lease],
           leases[c] # "DUE" => lease # "DUE",
           lease = "COMPLETED" => t.pc \in {"FAIL", "DONE"} /\ ~t.cut,
           errors' \in 0..MaxErrors, errors' = 0 => errors = 0,
           errors' = 0 /\ lease = "HELD" => t.pc # "DONE" /\ leases[c] = "HELD"
    PROVE  WorkerInv'
<1> USE DEF WorkerInv
<1>1. c \in Claims /\ t \in TaskType /\ t.pc # "IDLE"
  BY DEF active, Underway
<1>2. \A x \in Claims : leases'[x] = IF x = c THEN lease ELSE leases[x]
  BY <1>1 DEF TypeOK
<1>3. leases' \in [Claims -> Leases]
  BY <1>1, <1>2 DEF TypeOK, Leases
<1>4. Loop' /\ Cardinality(active)' <= Concurrency
  BY <1>1, <1>2, CheckKeepsLoop
<1>5. tasks' \in [Claims -> TaskType]
  BY <1>1 DEF TypeOK, TaskType
<1>6. TypeOK'
  BY <1>3, <1>4, <1>5 DEF TypeOK, TaskType, Leases, run
<1>7. Checks'
  BY <1>1, <1>2, CheckKeepsChecks
<1>8. StopHoldsNothing'
  <2>1. active # {} /\ loop # "STOPPED"
    BY DEF StopHoldsNothing
  <2>2. ASSUME errors' = 0, NEW x \in Claims, leases'[x] = "HELD"
        PROVE  x \in active' \cup claims'
    <3>1. CASE x = c
      BY <1>1, <1>2, <2>2, <3>1 DEF active, TypeOK
    <3>2. CASE x # c
      <4>1. x \in active \cup claims /\ tasks'[x] = tasks[x]
        BY <1>2, <2>2, <3>2 DEF StopHoldsNothing, TypeOK
      <4> QED
        BY <4>1 DEF active, run
    <3> QED
      BY <3>1, <3>2
  <2> QED
    BY <2>1, <2>2 DEF StopHoldsNothing, run
<1> QED
  BY <1>4, <1>6, <1>7, <1>8

\* The end of a query keeps the invariant: the promise of query, settled.
LEMMA EndQueryStep ==
    ASSUME WorkerInv, NEW c \in Claims, EndQuery(c)
    PROVE  WorkerInv'
<1> USE DEF WorkerInv
<1>1. PICK protocol \in Protocols :
         tasks' = [tasks EXCEPT ![c] = Ended(c, cutting, FALSE, protocol)]
  BY DEF EndQuery
<1>2. c \in active /\ tasks[c].pc = "WAIT" /\ Sound(c) /\ cutting \in BOOLEAN
  BY DEF EndQuery, active, Checks, TypeOK
<1>3. Underway(Ended(c, cutting, FALSE, protocol))
  BY <1>2, EndedType
<1>4. /\ leases[c] \in Leases /\ leases[c] # "COMPLETED" /\ leases[c] # "DUE"
      /\ leases = [leases EXCEPT ![c] = leases[c]]
  BY <1>2 DEF TypeOK, Leases, Sound
<1>5. ASSUME errors' = 0, leases[c] = "HELD"
      PROVE  Ended(c, cutting, FALSE, protocol).pc # "DONE"
  BY DEF Ended, Resumed
<1>6. /\ leases' = [leases EXCEPT ![c] = leases[c]]
      /\ errors' \in 0..MaxErrors /\ errors' = errors /\ UNCHANGED <<run, signal, cutting>>
  BY <1>4 DEF EndQuery, TypeOK
<1> HIDE DEF WorkerInv
<1> QED
  BY <1>1, <1>2, <1>3, <1>4, <1>5, <1>6, CheckStep

\* The rest of a query keeps the invariant: retrying over TCP, and the passing of time.
LEMMA QueryStep ==
    ASSUME WorkerInv, NEW c \in Claims, Querying(c)
    PROVE  WorkerInv'
<1> DEFINE x == tasks[c].exchange
<1>1. CASE EndQuery(c)
  BY <1>1, EndQueryStep
<1>2. ASSUME NEW y \in [via : Protocols, used : Nat, timer : 0..Timeout],
             y.used + y.timer <= Timeout, x # None,
             tasks' = [tasks EXCEPT ![c] = [tasks[c] EXCEPT !.exchange = y]],
             UNCHANGED <<run, leases, signal, cutting, errors>>
      PROVE  WorkerInv'
  <2> DEFINE t == [tasks[c] EXCEPT !.exchange = y]
  <2>1. Sound(c) /\ tasks[c] \in TaskType /\ tasks[c].pc = "WAIT" /\ c \in active
    BY <1>2 DEF WorkerInv, Checks, TypeOK, TaskType, active, Sound
  <2>2. t \in TaskType /\ t.pc = "WAIT" /\ t.left = tasks[c].left /\ t.cut = tasks[c].cut
        /\ t.exchange = y /\ y # None
    BY <2>1, NoExchange DEF TaskType
  <2>3. /\ leases[c] \in Leases /\ leases[c] # "COMPLETED" /\ leases[c] # "DUE"
        /\ leases' = [leases EXCEPT ![c] = leases[c]]
        /\ errors' \in 0..MaxErrors /\ errors' = errors /\ UNCHANGED <<run, signal, cutting>>
    BY <1>2, <2>1 DEF WorkerInv, TypeOK, Leases, Sound
  <2> HIDE DEF t
  <2>4. Underway(t)
    BY <1>2, <2>1, <2>2 DEF Underway, Sound
  <2>5. tasks' = [tasks EXCEPT ![c] = t]
    BY <1>2 DEF t
  <2> HIDE DEF x
  <2> QED
    BY <2>1, <2>2, <2>3, <2>4, <2>5, CheckStep
<1>3. tasks[c] \in TaskType /\ x.used + x.timer <= Timeout /\ Timeout \in Nat
  BY OptionsAssumption DEF WorkerInv, Checks, Sound, TypeOK, TaskType
<1>4. CASE Truncated(c) /\ ~EndQuery(c)
  <2>1. /\ x.via = "UDP" /\ Remaining(c) > 0 /\ Remaining(c) = Timeout - x.used
        /\ tasks' = [tasks EXCEPT ![c].exchange.via = "TCP", ![c].exchange.timer = Remaining(c)]
        /\ UNCHANGED <<run, leases, signal, cutting, errors>>
    BY <1>4 DEF Truncated, Remaining
  <2>2. x \in [via : Protocols, used : Nat, timer : 0..Timeout] /\ x # None
    BY <1>3, <2>1, NoExchange DEF TaskType, None
  <2> DEFINE y == [x EXCEPT !.via = "TCP", !.timer = Remaining(c)]
  <2>3. Remaining(c) \in 0..Timeout /\ x.used + Remaining(c) <= Timeout
    BY <1>3, <2>1, <2>2
  <2>4. y \in [via : Protocols, used : Nat, timer : 0..Timeout] /\ y.used + y.timer <= Timeout
    BY <2>2, <2>3 DEF Protocols
  <2>5. tasks' = [tasks EXCEPT ![c] = [tasks[c] EXCEPT !.exchange = y]]
    BY <1>3, <2>1 DEF WorkerInv, TypeOK, TaskType
  <2> HIDE DEF y
  <2> QED
    BY <1>2, <2>1, <2>2, <2>4, <2>5
<1>5. CASE Wait(c)
  <2>1. /\ x.timer > 0
        /\ tasks' = [tasks EXCEPT ![c].exchange.used = @ + 1, ![c].exchange.timer = @ - 1]
        /\ UNCHANGED <<run, leases, signal, cutting, errors>>
    BY <1>5 DEF Wait
  <2>2. x \in [via : Protocols, used : Nat, timer : 0..Timeout] /\ x # None
    BY <1>3, <2>1, NoExchange DEF TaskType
  <2> DEFINE y == [x EXCEPT !.used = x.used + 1, !.timer = x.timer - 1]
  <2>3. x.used + 1 \in Nat /\ x.timer - 1 \in 0..Timeout
    BY <1>3, <2>1, <2>2
  <2>4. y \in [via : Protocols, used : Nat, timer : 0..Timeout] /\ y.used + y.timer <= Timeout
    <3>1. y \in [via : Protocols, used : Nat, timer : 0..Timeout]
      BY <2>2, <2>3
    <3>2. y.used = x.used + 1 /\ y.timer = x.timer - 1
      BY <2>2
    <3> HIDE DEF y
    <3>3. x.used \in Nat /\ x.timer \in Nat
      BY <1>3, <2>2
    <3> QED
      BY <1>3, <3>1, <3>2, <3>3
  <2>5. tasks' = [tasks EXCEPT ![c] = [tasks[c] EXCEPT !.exchange = y]]
    BY <1>3, <2>1 DEF WorkerInv, TypeOK, TaskType
  <2> HIDE DEF y
  <2> QED
    BY <1>2, <2>1, <2>2, <2>4, <2>5
<1> QED
  BY <1>1, <1>4, <1>5 DEF Querying, Answer, Expire

\* Writing the result of a check, or giving it back, keeps the invariant, whether the
\* database answers or not: complete and fail, as execute calls them.
LEMMA ExecuteStep ==
    ASSUME WorkerInv, NEW c \in Claims, Executing(c)
    PROVE  WorkerInv'
<1>1. tasks[c].pc \in {"COMPLETE", "FAIL"} /\ Sound(c) /\ c \in active /\ tasks[c] \in TaskType
  BY DEF Executing, Complete, Fail, WorkerInv, Checks, active, TypeOK, TaskType
<1>2. leases[c] \in Leases /\ leases[c] # "DUE" /\ leases = [leases EXCEPT ![c] = leases[c]]
  BY <1>1 DEF WorkerInv, TypeOK, Leases, Sound
<1>3. UNCHANGED <<run, signal, cutting>>
  BY DEF Executing, Complete, Fail
<1>4. errors \in Nat /\ errors' \in 0..MaxErrors /\ (errors' = 0 => errors = 0)
      /\ (errors' # errors => errors' # 0)
  BY BoundAssumption DEF Executing, Complete, Fail, Error, WorkerInv, TypeOK
<1>5. ASSUME NEW pc \in {"FAIL", "DONE"}, Step(c, pc),
             NEW lease \in Leases, leases' = [leases EXCEPT ![c] = lease],
             lease # "DUE", lease = "COMPLETED" => ~tasks[c].cut,
             errors' = 0 /\ lease = "HELD" => pc # "DONE" /\ leases[c] = "HELD"
      PROVE  WorkerInv'
  <2> DEFINE t == [tasks[c] EXCEPT !.pc = pc]
  <2>1. /\ t \in TaskType /\ t.pc = pc /\ t.left = tasks[c].left /\ t.cut = tasks[c].cut
        /\ t.exchange = tasks[c].exchange
    BY <1>1 DEF TaskType
  <2>2. tasks' = [tasks EXCEPT ![c] = t]
    BY <1>5 DEF Step
  <2> HIDE DEF t
  <2>3. Underway(t)
    BY <1>1, <2>1 DEF Underway, Sound
  <2> QED
    BY <1>1, <1>2, <1>3, <1>4, <1>5, <2>1, <2>2, <2>3, CheckStep
<1>6. CASE Complete(c)
  <2>1. tasks[c].pc = "COMPLETE" /\ ~tasks[c].cut
    BY <1>1, <1>6 DEF Complete, Sound
  <2> DEFINE lease == IF leases[c] = "HELD" THEN "COMPLETED" ELSE leases[c]
  <2>2. Completed(c) = [leases EXCEPT ![c] = lease]
    BY <1>2 DEF Completed
  <2>3. lease \in Leases /\ lease # "DUE" /\ lease # "HELD"
    BY <1>2 DEF Leases
  <2> HIDE DEF lease
  <2>4. CASE leases' = Completed(c) /\ Step(c, "DONE")
    BY <1>5, <2>1, <2>2, <2>3, <2>4
  <2>5. CASE leases' = Completed(c) /\ Step(c, "FAIL")
    BY <1>5, <2>1, <2>2, <2>3, <2>5
  <2>6. CASE leases' = leases /\ Step(c, "FAIL")
    BY <1>2, <1>5, <2>1, <2>6
  <2> QED
    BY <1>6, <2>4, <2>5, <2>6 DEF Complete
<1>7. CASE Fail(c)
  <2> DEFINE lease == IF leases[c] = "HELD" THEN "RELEASED" ELSE leases[c]
  <2>1. Given(c) = [leases EXCEPT ![c] = lease]
    BY <1>2 DEF Given
  <2>2. /\ lease \in Leases /\ lease # "DUE" /\ lease # "HELD"
        /\ lease = "COMPLETED" => leases[c] = "COMPLETED"
    BY <1>2 DEF Leases
  <2>3. leases[c] = "COMPLETED" => ~tasks[c].cut
    BY <1>1 DEF Sound
  <2> HIDE DEF lease
  <2>4. Step(c, "DONE")
    BY <1>7 DEF Fail
  <2>5. CASE leases' = Given(c)
    BY <1>5, <2>1, <2>2, <2>3, <2>4, <2>5
  <2>6. CASE leases' = leases /\ Error
    <3>1. errors' # 0
      BY <2>6, <1>4 DEF Error
    <3> QED
      BY <1>2, <1>5, <2>3, <2>4, <2>6, <3>1
  <2> QED
    BY <1>7, <2>5, <2>6 DEF Fail
<1> QED
  BY <1>6, <1>7 DEF Executing

\* A lease that runs out keeps the invariant.
LEMMA LoseStep ==
    ASSUME WorkerInv, NEW c \in Claims, Lose(c)
    PROVE  WorkerInv'
<1>1. \A x \in Claims : leases'[x] = IF x = c THEN "LOST" ELSE leases[x]
  BY DEF Lose, WorkerInv, TypeOK
<1>2. active' = active /\ UNCHANGED <<run, tasks, errors>> /\ leases[c] = "HELD"
  BY DEF Lose, active
<1>3. TypeOK'
  BY <1>2 DEF Lose, WorkerInv, TypeOK, run
<1>4. Checks'
  BY <1>1, <1>2 DEF WorkerInv, Checks, Sound, Idle
<1>5. Loop'
  <2>1. \A x \in claims' : tasks'[x].pc = "IDLE" /\ leases'[x] # "DUE"
    BY <1>1, <1>2 DEF WorkerInv, Loop, TypeOK, run
  <2> QED
    BY <1>2, <2>1 DEF WorkerInv, Loop, run
<1>6. StopHoldsNothing'
  BY <1>1, <1>2 DEF WorkerInv, StopHoldsNothing, run
<1> QED
  BY <1>3, <1>4, <1>5, <1>6 DEF WorkerInv

\* Cutting off the queries keeps the invariant: every check that was asking is to be given
\* back, the timer of the drain.
LEMMA DeadlineStep ==
    ASSUME WorkerInv, Deadline
    PROVE  WorkerInv'
<1>1. /\ loop = "DRAIN" /\ UNCHANGED <<run, leases, signal, errors>> /\ cutting' = TRUE
      /\ claims = {}
  BY DEF Deadline, WorkerInv, Loop
<1>2. ASSUME NEW c \in Claims, tasks[c].pc = "WAIT"
      PROVE  tasks'[c].pc = "FAIL" /\ Underway(tasks'[c])
  <2>1. tasks'[c] = Ended(c, TRUE, TRUE, "UDP")
    BY <1>2 DEF Deadline, HasSignal
  <2>2. Underway(Ended(c, TRUE, TRUE, "UDP"))
    BY <1>2, EndedType DEF WorkerInv, Checks, Protocols
  <2>3. Ended(c, TRUE, TRUE, "UDP").pc = "FAIL"
    BY DEF Ended, Resumed
  <2> QED
    BY <2>1, <2>2, <2>3
<1>3. \A c \in Claims : tasks[c].pc # "WAIT" => tasks'[c] = tasks[c]
  BY DEF Deadline, HasSignal
<1>4. active' = active
  BY <1>2, <1>3 DEF active
<1>5. tasks' \in [Claims -> TaskType]
  <2>1. \A c \in Claims : tasks'[c] \in TaskType
    BY <1>2, <1>3 DEF Underway, WorkerInv, TypeOK, TaskType
  <2>2. tasks' = [c \in Claims |-> tasks'[c]]
    BY DEF Deadline
  <2> QED
    BY <2>1, <2>2
<1>6. TypeOK'
  BY <1>1, <1>4, <1>5 DEF WorkerInv, TypeOK, TaskType, run
<1>7. Checks'
  <2>1. ASSUME NEW c \in Claims PROVE Sound(c)'
    <3>1. Sound(c) /\ leases'[c] = leases[c]
      BY <1>1 DEF WorkerInv, Checks
    <3>2. CASE tasks[c].pc = "WAIT"
      <4>1. leases[c] # "DUE" /\ leases[c] # "COMPLETED"
        BY <3>1, <3>2 DEF Sound
      <4> QED
        BY <1>2, <3>1, <3>2, <4>1 DEF Sound, Underway
    <3>3. CASE tasks[c].pc # "WAIT"
      BY <1>3, <3>1, <3>3 DEF Sound, Idle
    <3> QED
      BY <3>2, <3>3
  <2> QED
    BY <2>1 DEF Checks
<1>8. Loop' /\ StopHoldsNothing'
  BY <1>1, <1>4 DEF WorkerInv, Loop, StopHoldsNothing, run
<1> QED
  BY <1>6, <1>7, <1>8 DEF WorkerInv

\* A turn of the loop that neither claims nor starts anything keeps the invariant, and so
\* does the signal: run, up to its claims and after them.
LEMMA LoopStep ==
    ASSUME WorkerInv, Turn \/ Heartbeat \/ Ask \/ Sleep \/ Stop \/ Terminate
    PROVE  WorkerInv'
<1>1. UNCHANGED <<claims, tasks, leases, cutting>> /\ active' = active
  BY DEF Turn, Heartbeat, Ask, Sleep, Stop, Terminate, Goto, run, active
<1>2. Cardinality(active) \in Nat /\ Cardinality(claims) \in Nat
  BY FS_CardinalityType DEF WorkerInv, Loop
<1>3. errors' \in 0..MaxErrors /\ (errors' = 0 => errors = 0)
  BY BoundAssumption
  DEF Turn, Heartbeat, Ask, Sleep, Stop, Terminate, Error, WorkerInv, TypeOK
<1>4. /\ signal' \in BOOLEAN /\ capacity' \in 0..Concurrency
      /\ loop' \in {"TOP", "HEARTBEAT", "ROOM", "CLAIM", "SPAWN", "SLEEP", "DRAIN", "STOPPED"}
      /\ loop' = "CLAIM" => capacity' + Cardinality(active) <= Concurrency
      /\ loop' = "STOPPED" => active = {}
      /\ claims # {} => loop' = "SPAWN"
  <2>1. Terminate => UNCHANGED run /\ signal' = TRUE
    BY DEF Terminate
  <2>2. Ask => /\ loop = "ROOM" /\ signal' = signal
               /\ \/ loop' = "CLAIM" /\ Room > 0 /\ capacity' = Room
                  \/ loop' = "SLEEP" /\ capacity' = capacity
    BY DEF Ask, Goto
  <2>3. Turn \/ Heartbeat \/ Sleep => /\ loop \in {"TOP", "HEARTBEAT", "SLEEP"}
                                      /\ loop' \in {"TOP", "HEARTBEAT", "ROOM", "SLEEP", "DRAIN"}
                                      /\ capacity' = capacity /\ signal' = signal
    BY DEF Turn, Heartbeat, Sleep, Goto
  <2>4. Stop => /\ loop = "DRAIN" /\ loop' = "STOPPED" /\ active = {}
                /\ capacity' = capacity /\ signal' = signal
    BY DEF Stop, Drained, Goto
  <2>5. Room > 0 => Room \in 0..Concurrency /\ Room + Cardinality(active) = Concurrency
    BY <1>2, OptionsAssumption DEF Room
  <2>6. /\ capacity \in 0..Concurrency /\ signal \in BOOLEAN
        /\ loop \in {"TOP", "HEARTBEAT", "ROOM", "CLAIM", "SPAWN", "SLEEP", "DRAIN", "STOPPED"}
        /\ loop = "CLAIM" => capacity + Cardinality(active) <= Concurrency
        /\ loop = "STOPPED" => active = {}
        /\ claims # {} => loop = "SPAWN"
    BY DEF WorkerInv, TypeOK, Loop, StopHoldsNothing
  <2>7. CASE Terminate
    BY <2>1, <2>6, <2>7 DEF run
  <2>8. CASE Ask
    <3>1. CASE loop' = "CLAIM" /\ Room > 0 /\ capacity' = Room
      <4>1. capacity' \in 0..Concurrency /\ capacity' + Cardinality(active) <= Concurrency
        BY <1>2, <3>1, OptionsAssumption DEF Room
      <4> QED
        BY <2>2, <2>6, <2>8, <3>1, <4>1
    <3>2. CASE loop' = "SLEEP" /\ capacity' = capacity
      BY <2>2, <2>6, <2>8, <3>2
    <3> QED
      BY <2>2, <2>8, <3>1, <3>2
  <2>9. CASE Turn \/ Heartbeat \/ Sleep
    BY <2>3, <2>6, <2>9
  <2>10. CASE Stop
    BY <2>4, <2>6, <2>10
  <2> QED
    BY <2>7, <2>8, <2>9, <2>10
<1>5. TypeOK'
  BY <1>1, <1>3, <1>4 DEF WorkerInv, TypeOK
<1>6. Checks'
  BY <1>1 DEF WorkerInv, Checks, Sound, Idle
<1>7. Loop'
  BY <1>1, <1>4 DEF WorkerInv, Loop
<1>8. StopHoldsNothing'
  <2>1. loop' = "STOPPED" => claims = {}
    BY <1>4
  <2> QED
    BY <1>1, <1>3, <1>4, <2>1 DEF WorkerInv, StopHoldsNothing
<1> QED
  BY <1>5, <1>6, <1>7, <1>8 DEF WorkerInv

\* Claiming keeps the invariant: no more come than there is room for, and none that this
\* worker had: claimDue.
LEMMA ClaimStep ==
    ASSUME WorkerInv, ClaimDue
    PROVE  WorkerInv'
<1>1. PICK due \in SUBSET {c \in Claims : leases[c] = "DUE"} :
         /\ IsFiniteSet(due) /\ Cardinality(due) <= capacity
         /\ leases' = [c \in Claims |-> IF c \in due THEN "HELD" ELSE leases[c]]
         /\ \/ loop' = "SPAWN" /\ claims' = due /\ UNCHANGED <<capacity, errors>>
            \/ Goto("SLEEP") /\ Error
  BY DEF ClaimDue
<1>2. loop = "CLAIM" /\ claims = {} /\ UNCHANGED <<tasks, signal, cutting>> /\ active' = active
  BY DEF ClaimDue, WorkerInv, Loop, active
<1>3. \/ loop' = "SPAWN" /\ claims' = due /\ capacity' = capacity /\ errors' = errors
      \/ loop' = "SLEEP" /\ claims' = {} /\ capacity' = capacity /\ errors' = errors + 1
         /\ errors < MaxErrors
  BY <1>1, <1>2 DEF Goto, Error
<1>4. Cardinality(active) \in Nat /\ Cardinality(due) \in Nat /\ IsFiniteSet(active)
  BY <1>1, FS_CardinalityType DEF WorkerInv, Loop
<1>5. /\ errors \in 0..MaxErrors /\ capacity \in 0..Concurrency
      /\ capacity + Cardinality(active) <= Concurrency
  BY <1>2 DEF WorkerInv, TypeOK, Loop
<1>6. TypeOK'
  <2>1. leases' \in [Claims -> Leases]
    BY <1>1 DEF WorkerInv, TypeOK, Leases
  <2>2. claims' \subseteq Claims /\ errors' \in 0..MaxErrors /\ capacity' \in 0..Concurrency
        /\ loop' \in {"SPAWN", "SLEEP"}
    BY <1>1, <1>3, <1>5, BoundAssumption
  <2> QED
    BY <1>2, <2>1, <2>2 DEF WorkerInv, TypeOK, Leases
<1>7. Checks'
  BY <1>1, <1>2 DEF WorkerInv, Checks, Sound, Idle
<1>8. Loop'
  <2>1. CASE claims' = due /\ loop' = "SPAWN"
    <3>1. \A c \in due : tasks'[c].pc = "IDLE" /\ leases'[c] = "HELD"
      BY <1>1, <1>2 DEF WorkerInv, Checks, Sound
    <3>2. Cardinality(due) + Cardinality(active) <= Concurrency
      BY <1>1, <1>4, <1>5, OptionsAssumption
    <3> QED
      BY <1>1, <1>2, <1>4, <2>1, <3>1, <3>2 DEF Loop
  <2>2. CASE claims' = {} /\ loop' = "SLEEP"
    <3>1. IsFiniteSet({}) /\ Cardinality({}) = 0
      BY FS_EmptySet
    <3>2. 0 + Cardinality(active) <= Concurrency
      BY <1>4, <1>5, OptionsAssumption
    <3> QED
      BY <1>2, <1>4, <2>2, <3>1, <3>2 DEF Loop
  <2> QED
    BY <1>3, <2>1, <2>2
<1>9. StopHoldsNothing'
  <2>1. CASE claims' = due /\ loop' = "SPAWN" /\ errors' = errors
    BY <1>1, <1>2, <2>1 DEF WorkerInv, StopHoldsNothing
  <2>2. CASE loop' = "SLEEP" /\ errors' = errors + 1
    BY <1>5, <2>2, BoundAssumption DEF StopHoldsNothing
  <2> QED
    BY <1>3, <2>1, <2>2
<1> QED
  BY <1>6, <1>7, <1>8, <1>9 DEF WorkerInv

\* Starting the claims keeps the invariant: there is room for all of them, and each begins
\* with its first query.
LEMMA SpawnStep ==
    ASSUME WorkerInv, Spawn
    PROVE  WorkerInv'
<1>1. PICK protocol \in [claims -> Protocols] :
         tasks' = [c \in Claims |->
             IF c \in claims
             THEN [tasks[c] EXCEPT !.pc = "WAIT", !.exchange = Asking(protocol[c])]
             ELSE tasks[c]]
  BY DEF Spawn
<1>2. /\ claims' = {} /\ loop' = "SLEEP" /\ loop = "SPAWN"
      /\ UNCHANGED <<capacity, leases, signal, cutting, errors>>
  BY DEF Spawn
<1>3. ASSUME NEW c \in claims
      PROVE  /\ tasks[c] = Idle /\ leases[c] \notin {"DUE", "COMPLETED"}
             /\ tasks'[c] = [pc |-> "WAIT", left |-> Queries, cut |-> FALSE,
                             exchange |-> Asking(protocol[c])]
             /\ Underway(tasks'[c]) /\ tasks'[c].pc = "WAIT"
  <2>1. c \in Claims /\ tasks[c] = Idle /\ leases[c] \notin {"DUE", "COMPLETED"}
    BY DEF WorkerInv, TypeOK, Loop, Checks, Sound, Idle
  <2>2. tasks'[c] = [pc |-> "WAIT", left |-> Queries, cut |-> FALSE,
                     exchange |-> Asking(protocol[c])]
    <3>1. tasks'[c] = [Idle EXCEPT !.pc = "WAIT", !.exchange = Asking(protocol[c])]
      BY <1>1, <2>1
    <3> QED
      BY <3>1 DEF Idle
  <2>3. protocol[c] \in Protocols
    BY <1>1
  <2>4. Underway([pc |-> "WAIT", left |-> Queries, cut |-> FALSE,
                  exchange |-> Asking(protocol[c])])
    BY <2>3, AskingType, OptionsAssumption DEF Underway, TaskType
  <2> QED
    BY <2>1, <2>2, <2>4
<1>4. \A c \in Claims \ claims : tasks'[c] = tasks[c]
  BY <1>1
<1>5. active' = active \cup claims
  <2>1. claims \subseteq Claims
    BY DEF WorkerInv, TypeOK
  <2>2. \A c \in claims : tasks'[c].pc = "WAIT"
    BY <1>3
  <2> QED
    BY <1>4, <2>1, <2>2 DEF active
<1>6. /\ IsFiniteSet(active)' /\ Cardinality(active)' <= Concurrency
      /\ Cardinality(active)' \in Nat
  <2>1. /\ IsFiniteSet(active) /\ IsFiniteSet(claims)
        /\ Cardinality(claims) + Cardinality(active) <= Concurrency
    BY DEF WorkerInv, Loop
  <2>2. active \cap claims = {}
    BY DEF WorkerInv, Loop, active
  <2>3. /\ IsFiniteSet(active \cup claims)
        /\ Cardinality(active \cup claims) =
               Cardinality(active) + Cardinality(claims) - Cardinality({})
    BY <2>1, <2>2, FS_Union
  <2>4. /\ Cardinality(active) \in Nat /\ Cardinality(claims) \in Nat /\ Cardinality({}) = 0
        /\ Cardinality(active \cup claims) \in Nat
    BY <2>1, <2>3, FS_CardinalityType, FS_EmptySet
  <2> HIDE <1>5
  <2>5. Cardinality(active \cup claims) <= Concurrency
    BY <2>1, <2>3, <2>4, OptionsAssumption
  <2> QED
    BY <1>5, <2>3, <2>4, <2>5
<1>7. TypeOK'
  <2>1. \A c \in Claims : tasks'[c] \in TaskType
    BY <1>3, <1>4 DEF Underway, WorkerInv, TypeOK, TaskType
  <2>2. tasks' \in [Claims -> TaskType]
    BY <1>1, <2>1
  <2> QED
    BY <1>2, <1>6, <2>2 DEF WorkerInv, TypeOK, TaskType
<1>8. Checks'
  <2>1. ASSUME NEW c \in Claims PROVE Sound(c)'
    <3>1. Sound(c) /\ leases'[c] = leases[c]
      BY <1>2 DEF WorkerInv, Checks
    <3>2. CASE c \in claims
      BY <1>2, <1>3, <3>2 DEF Sound, Underway
    <3>3. CASE c \notin claims
      BY <1>4, <3>1, <3>3 DEF Sound, Idle
    <3> QED
      BY <3>2, <3>3
  <2> QED
    BY <2>1 DEF Checks
<1>9. Loop'
  BY <1>2, <1>6, FS_EmptySet, OptionsAssumption DEF Loop
<1>10. StopHoldsNothing'
  BY <1>2, <1>5 DEF WorkerInv, StopHoldsNothing
<1> QED
  BY <1>7, <1>8, <1>9, <1>10 DEF WorkerInv

\* Giving claims back keeps the invariant: none is forgotten unless the database failed.
LEMMA GiveBackStep ==
    ASSUME WorkerInv, GiveBack
    PROVE  WorkerInv'
<1>1. UNCHANGED <<capacity, tasks, signal, cutting>> /\ active' = active /\ loop = "SPAWN"
  BY DEF GiveBack, Goto, active
<1>2. ASSUME NEW c \in claims
      PROVE  /\ leases[c] \in Leases /\ leases[c] \notin {"DUE", "COMPLETED"} /\ c \in Claims
             /\ \A x \in Claims : Given(c)[x] = IF x = c /\ leases[c] = "HELD" THEN "RELEASED"
                                                ELSE leases[x]
             /\ Given(c) \in [Claims -> Leases]
  BY DEF WorkerInv, TypeOK, Loop, Checks, Sound, Given, Leases
<1>3. \/ claims = {} /\ claims' = {} /\ loop' = "SLEEP" /\ UNCHANGED <<leases, errors>>
      \/ \E c \in claims :
             \/ claims' = claims \ {c} /\ leases' = Given(c) /\ UNCHANGED <<loop, errors>>
             \/ claims' = {} /\ loop' = "SLEEP" /\ leases' \in {leases, Given(c)} /\ Error
  BY DEF GiveBack, Goto
<1>4. /\ leases' \in [Claims -> Leases]
      /\ \A x \in Claims : \/ leases'[x] = leases[x]
                           \/ leases'[x] = "RELEASED" /\ leases[x] = "HELD"
  BY <1>2, <1>3 DEF WorkerInv, TypeOK, Leases
<1>5. claims' \subseteq claims /\ loop' \in {"SPAWN", "SLEEP"}
      /\ (claims' # {} => loop' = "SPAWN")
  BY <1>1, <1>3
<1>6. errors' \in 0..MaxErrors /\ (errors' = 0 => errors = 0 /\ errors' = errors)
  BY <1>3, BoundAssumption DEF Error, WorkerInv, TypeOK
<1>7. TypeOK'
  BY <1>1, <1>4, <1>5, <1>6 DEF WorkerInv, TypeOK, Leases
<1>8. Checks'
  BY <1>1, <1>4 DEF WorkerInv, Checks, Sound, Idle
<1>9. Loop'
  <2>1. /\ IsFiniteSet(claims') /\ Cardinality(claims') <= Cardinality(claims)
    BY <1>5, FS_Subset DEF WorkerInv, Loop
  <2>2. /\ Cardinality(claims') \in Nat /\ Cardinality(claims) \in Nat
        /\ Cardinality(active) \in Nat
    BY <2>1, FS_CardinalityType DEF WorkerInv, Loop
  <2>3. Cardinality(claims') + Cardinality(active) <= Concurrency
    BY <2>1, <2>2, OptionsAssumption DEF WorkerInv, Loop
  <2>4. \A x \in claims' : tasks'[x].pc = "IDLE" /\ leases'[x] # "DUE"
    BY <1>1, <1>4, <1>5 DEF WorkerInv, Loop, TypeOK
  <2> QED
    BY <1>1, <1>5, <2>1, <2>3, <2>4 DEF WorkerInv, Loop
<1>10. StopHoldsNothing'
  <2>1. ASSUME errors' = 0, NEW x \in Claims, leases'[x] = "HELD"
        PROVE  x \in active' \cup claims'
    <3>1. leases[x] = "HELD" /\ x \in active \cup claims
      BY <1>4, <1>6, <2>1 DEF WorkerInv, StopHoldsNothing
    <3>2. ~Error
      BY <1>6, <2>1 DEF Error, WorkerInv, TypeOK
    <3> QED
      BY <1>1, <1>2, <1>3, <2>1, <3>1, <3>2
  <2> QED
    BY <1>5, <2>1 DEF StopHoldsNothing
<1> QED
  BY <1>7, <1>8, <1>9, <1>10 DEF WorkerInv

-----------------------------------------------------------------------------
(****************************** the theorems *******************************)

\* A worker starts with the invariant.
LEMMA WorkerInit == Init => WorkerInv
<1> SUFFICES ASSUME Init PROVE WorkerInv
  OBVIOUS
<1>1. active = {} /\ IsFiniteSet({}) /\ Cardinality({}) = 0
  BY FS_EmptySet DEF Init, active, Idle
<1>2. Idle \in TaskType
  BY OptionsAssumption DEF Idle, TaskType
<1>3. TypeOK
  <2>1. Cardinality(active) <= Concurrency /\ 0 \in 0..Concurrency /\ 0 \in 0..MaxErrors
    BY <1>1, OptionsAssumption, BoundAssumption
  <2>2. tasks \in [Claims -> TaskType] /\ leases \in [Claims -> Leases]
    BY <1>2 DEF Init, Leases
  <2> QED
    BY <2>1, <2>2 DEF Init, TypeOK, TaskType, Leases
<1>4. Checks
  BY OptionsAssumption DEF Init, Checks, Sound, Idle, None
<1>5. Loop /\ StopHoldsNothing
  BY <1>1, OptionsAssumption DEF Init, Loop, StopHoldsNothing
<1> QED
  BY <1>3, <1>4, <1>5 DEF WorkerInv

\* Every step of a worker keeps the invariant.
LEMMA WorkerStep == WorkerInv /\ [Next]_vars => WorkerInv'
<1> SUFFICES ASSUME WorkerInv, [Next]_vars PROVE WorkerInv'
  OBVIOUS
<1>1. CASE Looping
  BY <1>1, LoopStep, ClaimStep, SpawnStep, GiveBackStep DEF Looping
<1>2. CASE Deadline \/ Terminate
  BY <1>2, DeadlineStep, LoopStep
<1>3. ASSUME NEW c \in Claims, Executing(c) \/ Querying(c) \/ Lose(c) PROVE WorkerInv'
  BY <1>3, ExecuteStep, QueryStep, LoseStep
<1>4. CASE UNCHANGED vars
  BY <1>4
  DEF vars, run, WorkerInv, TypeOK, Checks, Sound, Idle, Loop, StopHoldsNothing, active
<1> QED
  BY <1>1, <1>2, <1>3, <1>4 DEF Next

\* The invariant holds throughout.
LEMMA WorkerInvariant == Spec => []WorkerInv
BY WorkerInit, WorkerStep, PTL DEF Spec

\* Types, and never more checks in flight than the concurrency that was asked for, however
\* many fail, are lost or are given back: the loop of run, with claimDue's limit.
THEOREM TypeCorrect == Spec => []TypeOK
BY WorkerInvariant, PTL DEF WorkerInv

\* A worker that stops holds no lease any more, unless its database failed: the drain of run.
THEOREM StopsEmptyHanded == Spec => []StopHoldsNothing
BY WorkerInvariant, PTL DEF WorkerInv

\* A query never takes longer than its timeout, whatever is retried over TCP, and leaves no
\* exchange behind: query.
THEOREM QueriesEndInTime == Spec => []QueriesKeepTheirTime
<1>1. WorkerInv => QueriesKeepTheirTime
  BY DEF WorkerInv, Checks, Sound, QueriesKeepTheirTime
<1> QED
  BY <1>1, WorkerInvariant, PTL

\* A query that the shutdown cut off is never counted as an answer: execute, which looks at
\* the signal before it completes a check.
THEOREM CutQueriesAreNoAnswers == Spec => []ShutdownIsNoAnswer
<1>1. WorkerInv => ShutdownIsNoAnswer
  BY DEF WorkerInv, Checks, Sound, ShutdownIsNoAnswer
<1> QED
  BY <1>1, WorkerInvariant, PTL
=============================================================================
