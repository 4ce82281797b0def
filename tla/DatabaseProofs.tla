---------------------------- MODULE DatabaseProofs ----------------------------
(***************************************************************************)
(* What the processes do with the database, for any number of them.        *)
(*                                                                         *)
(* Connections: Limits implements LimiterLife, for every number of         *)
(* requests, processes, keys and connections, every maximum, window and    *)
(* number of attempts.                                                     *)
(*                                                                         *)
(* Migrations: the schema in a rolling update, and what a process that     *)
(* serves finds in it, for every set of releases that Migrations takes for *)
(* granted and any number of deaths.  Run and Result are folds: what they  *)
(* make of the beginnings of a sequence is proved first, by induction over *)
(* a set of numbers.                                                       *)
(***************************************************************************)
EXTENDS Limits, Migrations, FiniteSetTheorems, TLAPS

(****************************** connections ********************************)

RowType == [attempts : Nat, left : 0 .. Window]

RequestType ==
    [pc : {"ended", "connect", "work", "sleep"}, attempt : Nat, counted : Nat,
     allowed : BOOLEAN, outcome : {"none", "asking", "in", "refused", "failed"}]

Typed ==
    /\ rows \in [Keys -> RowType]
    /\ committed \in [Keys -> RowType]
    /\ holder \in [Keys -> Requests \cup {Nobody}]
    /\ requests \in [Requests -> RequestType]

Key(r, i) == KeysOf[r][i]

\* Who is answered asks for nothing, and who is not waits for an answer.
Answered == \A r \in Requests : requests[r].outcome = "asking" <=> requests[r].pc # "ended"

\* The rows that a request has locked are those it has counted in this transaction.
Locked ==
    \A r \in Requests :
        /\ requests[r].pc = "work" => requests[r].counted \in 0 .. Len(KeysOf[r])
        /\ requests[r].pc # "work" => requests[r].counted = 0
        /\ \A i \in 1 .. requests[r].counted : holder[Key(r, i)] = r
        /\ \A k \in Keys :
               holder[k] = r => \E i \in 1 .. requests[r].counted : Key(r, i) = k

\* One more attempt than row, under a key, made in its window or after it.
OneMore(k, row, more) ==
    \/ /\ more.attempts = IF row.attempts > Maximum[k] THEN row.attempts ELSE row.attempts + 1
       /\ more.left = row.left
    \/ row.left = 0 /\ more.attempts = 1

\* A row that nobody holds is committed; one that is held has one attempt more.
OneAttempt ==
    \A k \in Keys :
        IF holder[k] = Nobody THEN rows[k] = committed[k] ELSE OneMore(k, committed[k], rows[k])

\* What a request has found so far still stands in the rows it holds.
Verdicts ==
    \A r \in Requests :
        requests[r].allowed <=>
            \A i \in 1 .. requests[r].counted : rows[Key(r, i)].attempts <= Maximum[Key(r, i)]

Inv == Typed /\ Answered /\ Locked /\ OneAttempt /\ Verdicts

(*************************** the invariant ***********************************)

\* Counting leaves one attempt more in a row.
LEMMA CountedIsOneMore ==
  ASSUME NEW k \in Keys, rows[k] \in RowType
  PROVE  /\ Counted(k) \in RowType
         /\ OneMore(k, rows[k], Counted(k))
  BY LimitsAssumption DEF Counted, RowType, OneMore

\* The keys of a request are keys, and each is there once.
LEMMA KeysAreDistinct ==
  ASSUME NEW r \in Requests
  PROVE  /\ Len(KeysOf[r]) \in Nat
         /\ \A i \in 1 .. Len(KeysOf[r]) : Key(r, i) \in Keys
         /\ \A i, j \in 1 .. Len(KeysOf[r]) : Key(r, i) = Key(r, j) => i = j
<1>1. KeysOf[r] \in Seq(Keys) /\ IsInjective(KeysOf[r])
  BY RequestsAssumption
<1>2. DOMAIN KeysOf[r] = 1 .. Len(KeysOf[r])
  BY <1>1
<1> QED
  BY <1>1, <1>2 DEF IsInjective, Key

\* What a request is when it holds nothing.
Blank(q) ==
    /\ q \in RequestType
    /\ q.counted = 0 /\ q.allowed
    /\ q.outcome = "asking" <=> q.pc # "ended"

\* The records that the steps put in place of one another.
LEMMA BlankRequests ==
  /\ \A attempt \in Nat :
        /\ Blank(Attempting(attempt))
        /\ Blank([Attempting(attempt) EXCEPT !.pc = "sleep"])
        /\ Attempting(attempt).outcome = "asking" /\ Attempting(attempt).pc = "connect"
        /\ [Attempting(attempt) EXCEPT !.pc = "sleep"].outcome = "asking"
        /\ [Attempting(attempt) EXCEPT !.pc = "sleep"].pc = "sleep"
  /\ \A outcome \in {"none", "in", "refused", "failed"} :
        Blank(Ended(outcome)) /\ Ended(outcome).outcome = outcome /\ Ended(outcome).pc = "ended"
  BY DEF Blank, Attempting, Ended, RequestType

\* The invariant survives what a request does without a connection.
LEMMA InvWaiting ==
  ASSUME Inv, NEW r \in Requests, NEW q, Blank(q),
         requests[r].pc # "work",
         requests' = [requests EXCEPT ![r] = q],
         UNCHANGED <<rows, committed, holder>>
  PROVE  Inv'
<1> requests[r].counted = 0
  BY DEF Inv, Locked
<1>1. requests'[r] = q /\ \A s \in Requests \ {r} : requests'[s] = requests[s]
  BY DEF Inv, Typed
<1>2. Typed'
  BY DEF Inv, Typed, Blank
<1>3. Answered'
  BY <1>1 DEF Inv, Answered, Blank
<1>4. Locked'
  <2>1. Len(KeysOf[r]) \in Nat
    BY KeysAreDistinct
  <2> QED
    BY <1>1, <2>1 DEF Inv, Locked, Blank
<1>5. OneAttempt'
  BY DEF Inv, OneAttempt
<1>6. Verdicts'
  BY <1>1 DEF Inv, Verdicts, Blank
<1> QED
  BY <1>2, <1>3, <1>4, <1>5, <1>6 DEF Inv

\* The invariant survives the end of a transaction, whichever of the two tables stays.
LEMMA InvClosed ==
  ASSUME Inv, NEW r \in Requests, NEW q, Blank(q), q.pc # "work",
         requests' = [requests EXCEPT ![r] = q],
         NEW table \in {rows, committed}, Closed(r, table)
  PROVE  Inv'
<1>1. requests'[r] = q /\ \A s \in Requests \ {r} : requests'[s] = requests[s]
  BY DEF Inv, Typed
<1>2. /\ \A k \in Keys : rows'[k] = IF holder[k] = r THEN table[k] ELSE rows[k]
      /\ \A k \in Keys : committed'[k] = IF holder[k] = r THEN table[k] ELSE committed[k]
      /\ \A k \in Keys : holder'[k] = IF holder[k] = r THEN Nobody ELSE holder[k]
  BY DEF Closed
<1>3. r # Nobody /\ \A s \in Requests : s # Nobody
  BY RequestsAssumption
<1>4. \A s \in Requests \ {r} : \A i \in 1 .. requests[s].counted :
          Key(s, i) \in Keys /\ holder[Key(s, i)] = s
  <2> TAKE s \in Requests \ {r}
  <2>1. Len(KeysOf[s]) \in Nat /\ \A i \in 1 .. Len(KeysOf[s]) : Key(s, i) \in Keys
    BY KeysAreDistinct
  <2>2. requests[s].counted \in 0 .. Len(KeysOf[s])
    BY <2>1 DEF Inv, Locked
  <2> QED
    BY <2>1, <2>2 DEF Inv, Locked
<1>5. Typed'
  BY <1>2 DEF Inv, Typed, Blank, Closed
<1>6. Answered'
  BY <1>1 DEF Inv, Answered, Blank
<1>7. Locked'
  BY <1>1, <1>2, <1>3, <1>4 DEF Inv, Locked, Blank
<1>8. OneAttempt'
  BY <1>2, <1>3 DEF Inv, OneAttempt
<1>9. Verdicts'
  BY <1>1, <1>2, <1>4 DEF Inv, Verdicts, Blank
<1> QED
  BY <1>5, <1>6, <1>7, <1>8, <1>9 DEF Inv

\* The invariant survives counting one key.
LEMMA InvCount ==
  ASSUME Inv, NEW r \in Requests, Count(r)
  PROVE  Inv'
<1> DEFINE n == requests[r].counted
           k == Key(r, n + 1)
<1>1. /\ n \in Nat /\ n + 1 \in 1 .. Len(KeysOf[r]) /\ k \in Keys
      /\ \A i \in 1 .. n : Key(r, i) \in Keys /\ Key(r, i) # k
  <2>1. /\ Len(KeysOf[r]) \in Nat
        /\ \A i \in 1 .. Len(KeysOf[r]) : Key(r, i) \in Keys
        /\ \A i, j \in 1 .. Len(KeysOf[r]) : Key(r, i) = Key(r, j) => i = j
    BY KeysAreDistinct
  <2>2. n \in Nat /\ n < Len(KeysOf[r])
    BY DEF Count, Inv, Typed, RequestType
  <2> QED
    BY <2>1, <2>2
<1>2. /\ requests[r].pc = "work" /\ holder[k] \in {Nobody, r}
      /\ holder' = [holder EXCEPT ![k] = r]
      /\ rows' = [rows EXCEPT ![k] = Counted(k)]
      /\ requests' = [requests EXCEPT ![r].counted = n + 1,
                                      ![r].allowed = @ /\ Counted(k).attempts <= Maximum[k]]
      /\ committed' = committed
  BY DEF Count, Key
<1>3. r # Nobody /\ \A s \in Requests : s # Nobody
  BY RequestsAssumption
<1>4. holder[k] = Nobody /\ rows[k] = committed[k]
  <2>1. holder[k] # r
    BY <1>1 DEF Inv, Locked
  <2> QED
    BY <1>1, <1>2, <2>1 DEF Inv, OneAttempt
<1>5. Counted(k) \in RowType /\ OneMore(k, rows[k], Counted(k))
  BY <1>1, CountedIsOneMore DEF Inv, Typed
<1>6. /\ requests'[r].pc = "work" /\ requests'[r].counted = n + 1
      /\ requests'[r].outcome = requests[r].outcome
      /\ requests'[r].allowed <=> requests[r].allowed /\ Counted(k).attempts <= Maximum[k]
      /\ \A s \in Requests \ {r} : requests'[s] = requests[s]
      /\ requests' \in [Requests -> RequestType]
  <2> DEFINE verdict == requests[r].allowed /\ Counted(k).attempts <= Maximum[k]
             q == [requests[r] EXCEPT !.counted = n + 1, !.allowed = verdict]
  <2>1. requests[r] \in RequestType /\ requests \in [Requests -> RequestType]
    BY DEF Inv, Typed
  <2>2. verdict \in BOOLEAN /\ n + 1 \in Nat
    BY <1>1
  <2>3. requests' = [requests EXCEPT ![r] = q]
    BY <1>2, <2>1
  <2> HIDE DEF verdict
  <2>4. /\ q \in RequestType /\ q.pc = requests[r].pc /\ q.outcome = requests[r].outcome
        /\ q.counted = n + 1 /\ q.allowed = verdict
    BY <2>1, <2>2 DEF RequestType
  <2> HIDE DEF q
  <2>5. requests'[r] = q /\ \A s \in Requests \ {r} : requests'[s] = requests[s]
    BY <2>1, <2>3
  <2>6. requests' \in [Requests -> RequestType]
    BY <2>1, <2>3, <2>4
  <2> QED
    BY <1>2, <2>4, <2>5, <2>6 DEF verdict
<1>7. /\ rows'[k] = Counted(k) /\ holder'[k] = r
      /\ \A l \in Keys \ {k} : rows'[l] = rows[l] /\ holder'[l] = holder[l]
  BY <1>1, <1>2 DEF Inv, Typed
<1>8. \A s \in Requests \ {r} : \A i \in 1 .. requests[s].counted :
          Key(s, i) \in Keys \ {k} /\ holder[Key(s, i)] = s
  <2> TAKE s \in Requests \ {r}
  <2>1. Len(KeysOf[s]) \in Nat /\ \A i \in 1 .. Len(KeysOf[s]) : Key(s, i) \in Keys
    BY KeysAreDistinct
  <2>2. requests[s].counted \in 0 .. Len(KeysOf[s])
    BY <2>1 DEF Inv, Locked
  <2> QED
    BY <1>3, <1>4, <2>1, <2>2 DEF Inv, Locked
<1> HIDE DEF n, k
<1>9. Typed'
  BY <1>1, <1>2, <1>5, <1>6 DEF Inv, Typed
<1>10. Answered'
  BY <1>2, <1>6 DEF Inv, Answered
<1>11. Locked'
  <2>1. /\ requests'[r].counted \in 0 .. Len(KeysOf[r])
        /\ \A i \in 1 .. requests'[r].counted : holder'[Key(r, i)] = r
        /\ \A l \in Keys : holder'[l] = r => \E i \in 1 .. requests'[r].counted : Key(r, i) = l
    <3>1. 1 .. (n + 1) = (1 .. n) \cup {n + 1}
      BY <1>1
    <3>2. \A i \in 1 .. n : holder[Key(r, i)] = r
      BY DEF Inv, Locked, n
    <3>3. \A l \in Keys : holder[l] = r => \E i \in 1 .. n : Key(r, i) = l
      BY DEF Inv, Locked, n
    <3>4. k = Key(r, n + 1)
      BY DEF k
    <3> QED
      BY <1>1, <1>6, <1>7, <3>1, <3>2, <3>3, <3>4
  <2>2. ASSUME NEW s \in Requests \ {r}
        PROVE  /\ requests'[s].pc = "work" => requests'[s].counted \in 0 .. Len(KeysOf[s])
               /\ requests'[s].pc # "work" => requests'[s].counted = 0
               /\ \A i \in 1 .. requests'[s].counted : holder'[Key(s, i)] = s
               /\ \A l \in Keys :
                      holder'[l] = s => \E i \in 1 .. requests'[s].counted : Key(s, i) = l
    BY <1>6, <1>7, <1>8 DEF Inv, Locked
  <2> QED
    BY <1>6, <2>1, <2>2 DEF Locked
<1>12. OneAttempt'
  BY <1>2, <1>3, <1>4, <1>5, <1>7 DEF Inv, OneAttempt
<1>13. Verdicts'
  <2>1. requests'[r].allowed <=>
            \A i \in 1 .. requests'[r].counted : rows'[Key(r, i)].attempts <= Maximum[Key(r, i)]
    <3>1. 1 .. (n + 1) = (1 .. n) \cup {n + 1}
      BY <1>1
    <3>2. requests[r].allowed <=> \A i \in 1 .. n : rows[Key(r, i)].attempts <= Maximum[Key(r, i)]
      BY DEF Inv, Verdicts, n
    <3>3. k = Key(r, n + 1)
      BY DEF k
    <3>4. requests'[r].counted = n + 1
      BY <1>6
    <3>5. \A i \in 1 .. n : rows'[Key(r, i)] = rows[Key(r, i)]
      BY <1>1, <1>7
    <3>6. rows'[Key(r, n + 1)] = Counted(k)
      BY <1>7, <3>3
    <3>7. (\A i \in 1 .. n + 1 : rows'[Key(r, i)].attempts <= Maximum[Key(r, i)])
          <=> /\ \A i \in 1 .. n : rows[Key(r, i)].attempts <= Maximum[Key(r, i)]
              /\ Counted(k).attempts <= Maximum[k]
      BY <3>1, <3>3, <3>5, <3>6
    <3> QED
      BY <1>6, <3>2, <3>4, <3>7
  <2>2. ASSUME NEW s \in Requests \ {r}
        PROVE  requests'[s].allowed <=>
                   \A i \in 1 .. requests'[s].counted :
                       rows'[Key(s, i)].attempts <= Maximum[Key(s, i)]
    BY <1>6, <1>7, <1>8 DEF Inv, Verdicts
  <2> QED
    BY <2>1, <2>2 DEF Verdicts
<1> QED
  BY <1>9, <1>10, <1>11, <1>12, <1>13 DEF Inv

\* The invariant survives time and cleanup.
LEMMA InvTime ==
  ASSUME Inv, Tick \/ Cleanup
  PROVE  Inv'
<1>1. /\ rows' \in [Keys -> RowType] /\ committed' \in [Keys -> RowType]
      /\ holder' = holder /\ requests' = requests
  <2>1. \A row \in RowType : Later(row) \in RowType
    BY LimitsAssumption DEF Later, RowType
  <2>2. NoRow \in RowType
    BY LimitsAssumption DEF NoRow, RowType
  <2> QED
    BY <2>1, <2>2 DEF Inv, Typed, Tick, Cleanup
<1>2. OneAttempt'
  <2> SUFFICES ASSUME NEW k \in Keys
               PROVE  IF holder[k] = Nobody THEN rows'[k] = committed'[k]
                      ELSE OneMore(k, committed'[k], rows'[k])
    BY <1>1 DEF OneAttempt
  <2>1. rows[k] \in RowType /\ committed[k] \in RowType
    BY DEF Inv, Typed
  <2>2. CASE Tick
    <3>1. rows'[k] = Later(rows[k]) /\ committed'[k] = Later(committed[k])
      BY <2>2 DEF Tick
    <3>2. ASSUME OneMore(k, committed[k], rows[k])
          PROVE  OneMore(k, Later(committed[k]), Later(rows[k]))
      BY <2>1, <3>2 DEF OneMore, Later, RowType
    <3> QED
      BY <3>1, <3>2 DEF Inv, OneAttempt
  <2>3. CASE Cleanup
    BY <2>3 DEF Inv, OneAttempt, Cleanup, Expired
  <2> QED
    BY <2>2, <2>3
<1>3. Verdicts'
  <2>1. \A k \in Keys : holder[k] # Nobody => rows'[k].attempts = rows[k].attempts
    <3>1. \A row \in RowType : Later(row).attempts = row.attempts
      BY DEF Later, RowType
    <3> QED
      BY <3>1 DEF Inv, Typed, Tick, Cleanup, Expired
  <2>2. ASSUME NEW r \in Requests, NEW i \in 1 .. requests[r].counted
        PROVE  Key(r, i) \in Keys /\ holder[Key(r, i)] # Nobody
    <3>1. Len(KeysOf[r]) \in Nat /\ \A j \in 1 .. Len(KeysOf[r]) : Key(r, j) \in Keys
      BY KeysAreDistinct
    <3>2. requests[r].counted \in 0 .. Len(KeysOf[r])
      BY <3>1 DEF Inv, Locked
    <3>3. holder[Key(r, i)] = r
      BY DEF Inv, Locked
    <3> QED
      BY <3>1, <3>2, <3>3, RequestsAssumption
  <2> QED
    BY <1>1, <2>1, <2>2 DEF Inv, Verdicts
<1> QED
  BY <1>1, <1>2, <1>3 DEF Inv, Typed, Answered, Locked

\* Every transaction keeps the invariant, whatever becomes of it.
LEMMA InvStep == Inv /\ [LimitsNext]_limitsVars => Inv'
<1> SUFFICES ASSUME Inv, [LimitsNext]_limitsVars PROVE Inv'
  OBVIOUS
<1>1. \A r \in Requests : requests[r] \in RequestType
  BY DEF Inv, Typed
<1>2. ASSUME NEW r \in Requests, Ask(r) \/ NoConnection(r) \/ Again(r)
      PROVE  Inv'
  <2>1. /\ requests[r].pc # "work" /\ UNCHANGED <<rows, committed, holder>>
        /\ \E q : Blank(q) /\ requests' = [requests EXCEPT ![r] = q]
    <3>1. requests[r].attempt + 1 \in Nat /\ 0 \in Nat
      BY <1>1 DEF RequestType
    <3> QED
      BY <1>2, <3>1, BlankRequests DEF Ask, NoConnection, Again
  <2> QED
    BY <2>1, InvWaiting
<1>3. ASSUME NEW r \in Requests, Connect(r)
      PROVE  Inv'
  <2>1. /\ requests[r].pc = "connect" /\ requests[r].counted = 0 /\ requests[r].outcome = "asking"
        /\ UNCHANGED <<rows, committed, holder>>
    BY <1>3 DEF Connect, Inv, Locked, Answered
  <2>2. requests[r].allowed
    <3>1. 1 .. 0 = {}
      OBVIOUS
    <3> QED
      BY <2>1, <3>1 DEF Inv, Verdicts
  <2> DEFINE q == [requests[r] EXCEPT !.pc = "work"]
  <2>3. Blank(q)
    BY <1>1, <2>1, <2>2 DEF Blank, RequestType
  <2>4. requests' = [requests EXCEPT ![r] = q]
    BY <1>3 DEF Connect, Inv, Typed
  <2> HIDE DEF q
  <2> QED
    BY <2>1, <2>3, <2>4, InvWaiting
<1>4. ASSUME NEW r \in Requests,
             Conflict(r) \/ Break(r) \/ Commit(r) \/ CommitLost(r)
      PROVE  Inv'
  <2>1. /\ \E table \in {rows, committed} : Closed(r, table)
        /\ \E q : Blank(q) /\ q.pc # "work" /\ requests' = [requests EXCEPT ![r] = q]
    <3>1. requests[r].attempt \in Nat
      BY <1>1 DEF RequestType
    <3> QED
      BY <1>4, <3>1, BlankRequests DEF Conflict, Break, Commit, CommitLost, AfterLostCommit
  <2> QED
    BY <2>1, InvClosed
<1>5. CASE UNCHANGED limitsVars
  BY <1>5 DEF Inv, Typed, Answered, Locked, OneAttempt, Verdicts, limitsVars
<1> QED
  BY <1>2, <1>3, <1>4, <1>5, InvCount, InvTime DEF LimitsNext, Handle

\* It holds when there are no rows.
LEMMA InvInit == LimitsInit => Inv
<1> SUFFICES ASSUME LimitsInit PROVE Inv
  OBVIOUS
<1>1. NoRow \in RowType
  BY LimitsAssumption DEF NoRow, RowType
<1>2. \A r \in Requests :
          /\ requests[r] = Ended("none") /\ Ended("none") \in RequestType
          /\ Len(KeysOf[r]) \in Nat
  BY BlankRequests, KeysAreDistinct DEF LimitsInit, Blank
<1>3. Typed
  BY <1>1, <1>2 DEF LimitsInit, Typed
<1>4. Answered /\ Locked /\ Verdicts
  BY <1>2, RequestsAssumption DEF LimitsInit, Answered, Locked, Verdicts, Ended
<1>5. OneAttempt
  BY DEF LimitsInit, OneAttempt
<1> QED
  BY <1>3, <1>4, <1>5 DEF Inv

(*************************** what it implements ******************************)

LifeKeys(r) == Range(KeysOf[r])
LifeCount == [k \in Keys |-> committed[k].attempts]
LifeLeft == [k \in Keys |-> committed[k].left]
LifeOutcome == [r \in Requests |-> requests[r].outcome]

LifeStep == [Limiter!Next]_(Limiter!vars)

\* What a request becomes is its outcome, and nobody else's.
LEMMA OutcomeOf ==
  ASSUME Inv, NEW r \in Requests, NEW q, requests' = [requests EXCEPT ![r] = q]
  PROVE  LifeOutcome' = [LifeOutcome EXCEPT ![r] = q.outcome]
  BY DEF Inv, Typed, LifeOutcome

\* A step after which nobody sees another count or another outcome is none of LimiterLife.
LEMMA Stutters ==
  ASSUME LifeCount' = LifeCount, LifeLeft' = LifeLeft, LifeOutcome' = LifeOutcome
  PROVE  LifeStep
  BY DEF LifeStep, Limiter!vars, LifeCount, LifeLeft, LifeOutcome

\* The end of a transaction is seen in the rows of its request, each with one attempt more.
LEMMA CommittedOnce ==
  ASSUME Inv, NEW r \in Requests, requests[r].pc = "work",
         requests[r].counted = Len(KeysOf[r]), Closed(r, rows)
  PROVE  /\ \A k \in Keys :
                IF k \in LifeKeys(r)
                THEN /\ committed'[k] = rows[k]
                     /\ rows[k] \in RowType
                     /\ OneMore(k, committed[k], rows[k])
                ELSE committed'[k] = committed[k]
         /\ requests[r].allowed <=> \A k \in LifeKeys(r) : rows[k].attempts <= Maximum[k]
<1>1. /\ DOMAIN KeysOf[r] = 1 .. Len(KeysOf[r])
      /\ \A i \in 1 .. Len(KeysOf[r]) : Key(r, i) \in Keys
  BY RequestsAssumption, KeysAreDistinct
<1>2. LifeKeys(r) = {Key(r, i) : i \in 1 .. Len(KeysOf[r])}
  BY <1>1 DEF LifeKeys, Range, Key
<1>3. \A k \in Keys : k \in LifeKeys(r) <=> holder[k] = r
  BY <1>2 DEF Inv, Locked
<1>4. \A k \in Keys : committed'[k] = IF holder[k] = r THEN rows[k] ELSE committed[k]
  BY DEF Closed
<1>5. \A k \in Keys : holder[k] = r => OneMore(k, committed[k], rows[k])
  BY RequestsAssumption DEF Inv, OneAttempt
<1>6. requests[r].allowed <=> \A k \in LifeKeys(r) : rows[k].attempts <= Maximum[k]
  BY <1>2 DEF Inv, Verdicts
<1> QED
  BY <1>3, <1>4, <1>5, <1>6 DEF Inv, Typed

\* A request that asks is asking.
LEMMA AskIsAsk ==
  ASSUME Inv, NEW r \in Requests, Ask(r)
  PROVE  LifeStep
<1>1. Attempting(0).outcome = "asking"
  BY DEF Attempting
<1>2. LifeOutcome' = [LifeOutcome EXCEPT ![r] = "asking"]
  BY <1>1, OutcomeOf DEF Ask
<1>3. LifeOutcome[r] # "asking" /\ UNCHANGED <<LifeCount, LifeLeft>>
  BY DEF Ask, Inv, Answered, LifeOutcome, LifeCount, LifeLeft
<1>4. Limiter!Ask(r)
  BY <1>2, <1>3 DEF Limiter!Ask, LifeOutcome, LifeCount, LifeLeft
<1> QED
  BY <1>4 DEF LifeStep, Limiter!Next

\* A rolled back transaction, a request without a connection and the wait for the next
\* attempt leave no trace, but for a failure.
LEMMA RolledBackIsFail ==
  ASSUME Inv, NEW r \in Requests,
         Connect(r) \/ NoConnection(r) \/ Count(r) \/ Conflict(r) \/ Again(r) \/ Break(r)
  PROVE  LifeStep
<1>1. \A k \in Keys : committed'[k] = committed[k]
  BY DEF Connect, NoConnection, Count, Conflict, Again, Break, Closed
<1>2. LifeCount' = LifeCount /\ LifeLeft' = LifeLeft
  BY <1>1 DEF LifeCount, LifeLeft
<1>3. requests[r].pc # "ended" /\ LifeOutcome[r] = "asking" /\ requests[r] \in RequestType
  BY DEF Connect, NoConnection, Count, Conflict, Again, Break, Inv, Typed, Answered, LifeOutcome
<1>4. \E answer \in {"asking", "failed"} : LifeOutcome' = [LifeOutcome EXCEPT ![r] = answer]
  <2>1. ASSUME Connect(r) \/ Count(r)
        PROVE  \A s \in Requests : requests'[s].outcome = requests[s].outcome
    <3>1. requests \in [Requests -> RequestType]
      BY DEF Inv, Typed
    <3>2. CASE Connect(r)
      BY <3>1, <3>2 DEF Connect, RequestType
    <3>3. CASE Count(r)
      <4> DEFINE verdict == requests[r].allowed
                            /\ Counted(Key(r, requests[r].counted + 1)).attempts
                                   <= Maximum[Key(r, requests[r].counted + 1)]
      <4>1. requests' = [requests EXCEPT ![r].counted = requests[r].counted + 1,
                                         ![r].allowed = verdict]
        BY <3>3 DEF Count, Key
      <4> HIDE DEF verdict
      <4> QED
        BY <3>1, <4>1 DEF RequestType
    <3> QED
      BY <2>1, <3>2, <3>3
  <2>2. ASSUME NoConnection(r) \/ Break(r)
        PROVE  requests' = [requests EXCEPT ![r] = Ended("failed")]
    BY <2>2 DEF NoConnection, Break
  <2>3. ASSUME Again(r)
        PROVE  requests' = [requests EXCEPT ![r] = Attempting(requests[r].attempt + 1)]
    BY <2>3 DEF Again
  <2>4. ASSUME Conflict(r)
        PROVE  \/ requests' = [requests EXCEPT ![r] = Ended("failed")]
               \/ requests' = [requests EXCEPT ![r] =
                      [Attempting(requests[r].attempt) EXCEPT !.pc = "sleep"]]
    BY <2>4 DEF Conflict
  <2>5. /\ Ended("failed").outcome = "failed"
        /\ Attempting(requests[r].attempt + 1).outcome = "asking"
        /\ [Attempting(requests[r].attempt) EXCEPT !.pc = "sleep"].outcome = "asking"
    BY DEF Ended, Attempting
  <2>6. ASSUME Connect(r) \/ Count(r)
        PROVE  LifeOutcome' = [LifeOutcome EXCEPT ![r] = "asking"]
    BY <1>3, <2>1, <2>6 DEF LifeOutcome
  <2>7. ASSUME NEW q, requests' = [requests EXCEPT ![r] = q]
        PROVE  LifeOutcome' = [LifeOutcome EXCEPT ![r] = q.outcome]
    BY <2>7, OutcomeOf
  <2> QED
    BY <2>2, <2>3, <2>4, <2>5, <2>6, <2>7
<1>5. CASE LifeOutcome' = [LifeOutcome EXCEPT ![r] = "asking"]
  <2>1. LifeOutcome' = LifeOutcome
    BY <1>3, <1>5 DEF LifeOutcome
  <2> QED
    BY <1>2, <2>1, Stutters
<1>6. CASE LifeOutcome' = [LifeOutcome EXCEPT ![r] = "failed"]
  <2>1. Limiter!Fail(r)
    BY <1>2, <1>3, <1>6 DEF Limiter!Fail, LifeOutcome, LifeCount, LifeLeft
  <2> QED
    BY <2>1 DEF LifeStep, Limiter!Next
<1> QED
  BY <1>4, <1>5, <1>6

\* COMMIT counts a request under all its keys and answers it, or counts it in vain.
LEMMA CommitIsAnswer ==
  ASSUME Inv, NEW r \in Requests, Commit(r) \/ CommitLost(r)
  PROVE  LifeStep
<1>1. /\ requests[r].pc = "work" /\ requests[r].counted = Len(KeysOf[r]) /\ Closed(r, rows)
      /\ LifeOutcome[r] = "asking"
  BY DEF Commit, CommitLost, Inv, Answered, LifeOutcome
<1>2. \A k \in Keys : IF k \in LifeKeys(r) THEN Limiter!CountedOnce(k)
                      ELSE LifeCount'[k] = LifeCount[k] /\ LifeLeft'[k] = LifeLeft[k]
  <2> TAKE k \in Keys
  <2>1. CASE k \in LifeKeys(r)
    <3>1. /\ committed'[k] = rows[k] /\ rows[k] \in RowType
          /\ OneMore(k, committed[k], rows[k])
      BY <1>1, <2>1, CommittedOnce
    <3> QED
      BY <2>1, <3>1 DEF Limiter!CountedOnce, OneMore, RowType
  <2>2. CASE k \notin LifeKeys(r)
    BY <1>1, <2>2, CommittedOnce DEF LifeCount, LifeLeft
  <2> QED
    BY <2>1, <2>2
<1>3. requests[r].allowed <=> \A k \in LifeKeys(r) : LifeCount'[k] <= Maximum[k]
  <2>1. LifeKeys(r) \subseteq Keys
    BY RequestsAssumption, KeysAreDistinct DEF LifeKeys, Range, Key
  <2> QED
    BY <1>1, <2>1, CommittedOnce DEF LifeCount
<1>4. CASE CommitLost(r)
  <2>1. LifeOutcome' = [LifeOutcome EXCEPT ![r] = "failed"]
    <3>1. Ended("failed").outcome = "failed"
      BY DEF Ended
    <3>2. requests' = [requests EXCEPT ![r] = Ended("failed")]
      BY <1>4 DEF CommitLost, AfterLostCommit
    <3> QED
      BY <3>1, <3>2, OutcomeOf
  <2>2. Limiter!CountedInVain(r)
    BY <1>1, <1>2, <2>1 DEF Limiter!CountedInVain, LifeOutcome, LifeCount, LifeLeft, LifeKeys
  <2> QED
    BY <2>2 DEF LifeStep, Limiter!Next
<1>5. CASE Commit(r)
  <2>1. CASE requests[r].allowed
    <3>1. /\ requests' = [requests EXCEPT ![r] = Ended("in")]
          /\ Ended("in").outcome = "in"
      BY <1>5, <2>1 DEF Commit, Ended
    <3>2. LifeOutcome' = [LifeOutcome EXCEPT ![r] = "in"]
      BY <3>1, OutcomeOf
    <3>3. Limiter!Answer(r, "in")
      BY <1>1, <1>2, <1>3, <2>1, <3>2
         DEF Limiter!Answer, LifeOutcome, LifeCount, LifeLeft, LifeKeys
    <3> QED
      BY <3>3 DEF LifeStep, Limiter!Next
  <2>2. CASE ~requests[r].allowed
    <3>1. /\ requests' = [requests EXCEPT ![r] = Ended("refused")]
          /\ Ended("refused").outcome = "refused"
      BY <1>5, <2>2 DEF Commit, Ended
    <3>2. LifeOutcome' = [LifeOutcome EXCEPT ![r] = "refused"]
      BY <3>1, OutcomeOf
    <3>3. Limiter!Answer(r, "refused")
      BY <1>1, <1>2, <1>3, <2>2, <3>2
         DEF Limiter!Answer, LifeOutcome, LifeCount, LifeLeft, LifeKeys
    <3> QED
      BY <3>3 DEF LifeStep, Limiter!Next
  <2> QED
    BY <2>1, <2>2
<1> QED
  BY <1>4, <1>5

\* Time passes, and what is over is forgotten.
LEMMA TimeIsTime ==
  ASSUME Inv, Tick \/ Cleanup
  PROVE  LifeStep
<1>1. \A k \in Keys : committed[k] \in RowType
  BY DEF Inv, Typed
<1>2. LifeOutcome' = LifeOutcome
  BY DEF Tick, Cleanup, LifeOutcome
<1>3. CASE Tick
  <2>1. Limiter!Tick
    BY <1>1, <1>2, <1>3 DEF Tick, Later, RowType, Limiter!Tick, LifeOutcome
  <2> QED
    BY <2>1 DEF LifeStep, Limiter!Next
<1>4. CASE Cleanup
  <2>1. \A k \in Keys : \/ committed'[k] = committed[k]
                        \/ committed[k].left = 0 /\ committed'[k] = NoRow
    BY <1>4 DEF Cleanup, Expired
  <2>2. Limiter!Forget
    BY <1>1, <1>2, <2>1 DEF NoRow, RowType, Limiter!Forget, LifeOutcome
  <2> QED
    BY <2>2 DEF LifeStep, Limiter!Next
<1> QED
  BY <1>3, <1>4

\* Limits implements LimiterLife: whatever is rolled back, retried, waits or loses its
\* answer, a request is counted at most once, at one instant, under all its keys, is let
\* in exactly if none of them is above its maximum, and no window starts again before
\* its time (index.ts:27-35, 103-119; connection.ts: transaction).
THEOREM LimitsImplementLimiter == LimitsSpec => ImplementsLimiter
<1>1. LimitsInit => Limiter!Init
  BY DEF LimitsInit, Limiter!Init, NoRow, Ended
<1>2. Inv /\ [LimitsNext]_limitsVars => LifeStep
  <2> SUFFICES ASSUME Inv, [LimitsNext]_limitsVars PROVE LifeStep
    OBVIOUS
  <2>1. CASE UNCHANGED limitsVars
    BY <2>1, Stutters DEF limitsVars, LifeCount, LifeLeft, LifeOutcome
  <2> QED
    BY <2>1, AskIsAsk, RolledBackIsFail, CommitIsAnswer, TimeIsTime DEF LimitsNext, Handle
<1>3. Inv /\ [LimitsNext]_limitsVars => [Limiter!Next]_(Limiter!vars)
  BY <1>2 DEF LifeStep
<1> QED
  BY <1>1, <1>3, InvInit, InvStep, PTL DEF LimitsSpec, ImplementsLimiter, Limiter!Spec

-----------------------------------------------------------------------------
(******************************* migrations ********************************)

\* What holds of zero, and of the next number with each, holds of every number.
LEMMA SetInduction ==
    ASSUME NEW S, 0 \in S, \A n \in Nat : n \in S => n + 1 \in S
    PROVE  Nat \subseteq S
<1> SUFFICES ASSUME NEW n \in Nat, n \notin S PROVE FALSE
  OBVIOUS
<1> DEFINE F == (0..n) \ S
           f == [x \in F |-> x - 1]
<1>1. IsFiniteSet(F)
  <2>1. IsFiniteSet(0..n)
    BY FS_Interval
  <2>2. F \in SUBSET (0..n)
    OBVIOUS
  <2> HIDE DEF F
  <2> QED BY <2>1, <2>2, FS_Subset
<1>2. \A x \in F : x \in Nat /\ x # 0 /\ x - 1 \in F
  <2> TAKE x \in F
  <2>1. x \in Nat /\ x # 0 /\ x - 1 \in Nat /\ x <= n
    OBVIOUS
  <2>2. x - 1 \notin S
    BY <2>1
  <2> QED BY <2>1, <2>2
<1>3. f \in [F -> F] /\ \A x, y \in F : f[x] = f[y] => x = y
  BY <1>2
<1> HIDE DEF f
<1>4. f \in Injection(F, F)
  BY <1>3 DEF Injection, IsInjective
<1>5. f \in Surjection(F, F)
  BY <1>1, <1>4, FS_Injection
<1>6. n \in F
  OBVIOUS
<1> HIDE DEF F
<1>7. PICK x \in F : f[x] = n
  BY <1>5, <1>6 DEF Surjection
<1>8. f[x] = x - 1
  BY DEF f
<1> QED BY <1>2, <1>7, <1>8 DEF F

\* The last position of a set of positions.
LastOf(X) == CHOOSE x \in X : \A y \in X : x >= y

\* It exists.
LEMMA LastExists ==
    ASSUME NEW n \in Nat, NEW X \in SUBSET (1..n)
    PROVE  /\ X # {} => LastOf(X) \in X /\ \A y \in X : LastOf(X) >= y
           /\ \A k \in 1..n : k \in X /\ (\A y \in X : k >= y) => LastOf(X) = k
<1> DEFINE P(m) == \A Y \in SUBSET (1..m) : Y # {} => \E x \in Y : \A y \in Y : x >= y
           S == {m \in Nat : P(m)}
<1>1. P(0)
  <2>1. \A Y \in SUBSET (1..0) : Y = {}
    OBVIOUS
  <2> QED
    BY <2>1
<1>2. ASSUME NEW m \in Nat, P(m) PROVE P(m + 1)
  <2> SUFFICES ASSUME NEW Y \in SUBSET (1..(m + 1)), Y # {}
               PROVE  \E x \in Y : \A y \in Y : x >= y
    OBVIOUS
  <2>1. CASE m + 1 \in Y
    BY <2>1
  <2>2. CASE m + 1 \notin Y
    <3>1. Y \in SUBSET (1..m)
      BY <2>2
    <3> QED
      BY <3>1, <1>2
  <2> QED
    BY <2>1, <2>2
<1> HIDE DEF P
<1>3. Nat \subseteq S
  <2>1. 0 \in S /\ \A m \in Nat : m \in S => m + 1 \in S
    BY <1>1, <1>2
  <2> HIDE DEF S
  <2> QED
    BY <2>1, SetInduction
<1>4. P(n)
  BY <1>3
<1>5. X # {} => LastOf(X) \in X /\ \A y \in X : LastOf(X) >= y
  BY <1>4 DEF P, LastOf
<1>6. ASSUME NEW k \in 1..n, k \in X, \A y \in X : k >= y PROVE LastOf(X) = k
  <2>1. LastOf(X) \in 1..n /\ LastOf(X) >= k /\ k >= LastOf(X)
    BY <1>5, <1>6
  <2> QED
    BY <2>1
<1> QED
  BY <1>5, <1>6

\* iter is the function that a fold is defined by, as far as its values are in S.
Iterates(iter, S, step, base, q) ==
    \A X \in SUBSET (1..Len(q)) :
        /\ X = {} => iter[X] = base
        /\ X # {} /\ iter[X \ {LastOf(X)}] \in S =>
               iter[X] = step[<<iter[X \ {LastOf(X)}], q[LastOf(X)]>>]

\* There is one, if a step leads from values to values.
LEMMA FoldExists ==
    ASSUME NEW S, NEW T, NEW step, \A s \in S : \A x \in T : step[<<s, x>>] \in S,
           NEW base \in S, NEW q \in Seq(T)
    PROVE  \E iter \in [SUBSET (1..Len(q)) -> S] : Iterates(iter, S, step, base, q)
<1> DEFINE E(n, iter) == \A X \in SUBSET (1..n) :
               iter[X] = IF X = {} THEN base
                         ELSE step[<<iter[X \ {LastOf(X)}], q[LastOf(X)]>>]
           P(n) == n <= Len(q) => \E iter \in [SUBSET (1..n) -> S] : E(n, iter)
           N == {n \in Nat : P(n)}
<1>0. Len(q) \in Nat /\ \A k \in 1..Len(q) : q[k] \in T
  OBVIOUS
<1>1. P(0)
  <2>1. [X \in SUBSET (1..0) |-> base] \in [SUBSET (1..0) -> S]
    OBVIOUS
  <2>2. \A X \in SUBSET (1..0) : X = {}
    OBVIOUS
  <2>3. E(0, [X \in SUBSET (1..0) |-> base])
    BY <2>2
  <2> QED
    BY <2>1, <2>3
<1>2. ASSUME NEW n \in Nat, P(n) PROVE P(n + 1)
  <2> SUFFICES ASSUME n + 1 <= Len(q)
               PROVE  \E iter \in [SUBSET (1..(n + 1)) -> S] : E(n + 1, iter)
    OBVIOUS
  <2>1. PICK old \in [SUBSET (1..n) -> S] : E(n, old)
    <3>1. n <= Len(q)
      BY <1>0
    <3> QED
      BY <1>2, <3>1
  <2> DEFINE new == [X \in SUBSET (1..(n + 1)) |->
                        IF n + 1 \in X THEN step[<<old[X \ {n + 1}], q[n + 1]>>] ELSE old[X]]
  <2>2. \A X \in SUBSET (1..(n + 1)) : /\ X \ {n + 1} \in SUBSET (1..n)
                                       /\ n + 1 \notin X => X \in SUBSET (1..n)
                                       /\ n + 1 \in X => LastOf(X) = n + 1
    <3>1. n + 1 \in Nat /\ n + 1 \in 1..(n + 1)
      OBVIOUS
    <3>2. \A X \in SUBSET (1..(n + 1)) : n + 1 \in X => LastOf(X) = n + 1
      <4> SUFFICES ASSUME NEW X \in SUBSET (1..(n + 1)), n + 1 \in X PROVE LastOf(X) = n + 1
        OBVIOUS
      <4>1. \A y \in X : n + 1 >= y
        OBVIOUS
      <4> QED
        BY <3>1, <4>1, LastExists
    <3> QED
      BY <3>2
  <2>3. q[n + 1] \in T
    BY <1>0
  <2>4. new \in [SUBSET (1..(n + 1)) -> S]
    BY <2>2, <2>3
  <2>5. E(n + 1, new)
    <3> SUFFICES ASSUME NEW X \in SUBSET (1..(n + 1))
                 PROVE  new[X] = IF X = {} THEN base
                                 ELSE step[<<new[X \ {LastOf(X)}], q[LastOf(X)]>>]
      OBVIOUS
    <3>1. CASE n + 1 \in X
      <4>1. LastOf(X) = n + 1 /\ X # {} /\ n + 1 \notin X \ {n + 1}
            /\ X \ {n + 1} \in SUBSET (1..(n + 1))
        BY <3>1, <2>2
      <4>2. new[X \ {n + 1}] = old[X \ {n + 1}]
        BY <4>1
      <4>3. new[X] = step[<<old[X \ {n + 1}], q[n + 1]>>]
        BY <3>1
      <4> HIDE DEF new
      <4> QED
        BY <4>1, <4>2, <4>3
    <3>2. CASE n + 1 \notin X
      <4>1. X \in SUBSET (1..n) /\ new[X] = old[X]
        BY <3>2, <2>2
      <4>2. X = {} => new[X] = base
        BY <4>1, <2>1
      <4>3. ASSUME X # {}
            PROVE  new[X] = step[<<new[X \ {LastOf(X)}], q[LastOf(X)]>>]
        <5>1. X \ {LastOf(X)} \in SUBSET (1..n) /\ n + 1 \notin X \ {LastOf(X)}
              /\ X \ {LastOf(X)} \in SUBSET (1..(n + 1))
          <6> HIDE DEF new, E
          <6> QED
            BY <4>1, <3>2
        <5>2. new[X \ {LastOf(X)}] = old[X \ {LastOf(X)}]
          BY <5>1
        <5>3. old[X] = step[<<old[X \ {LastOf(X)}], q[LastOf(X)]>>]
          BY <4>1, <4>3, <2>1
        <5> HIDE DEF new
        <5> QED
          BY <4>1, <5>2, <5>3
      <4> QED
        BY <4>2, <4>3
    <3> QED
      BY <3>1, <3>2
  <2> HIDE DEF new, E
  <2> QED
    BY <2>4, <2>5
<1> HIDE DEF P
<1>3. Nat \subseteq N
  <2>1. 0 \in N /\ \A n \in Nat : n \in N => n + 1 \in N
    BY <1>1, <1>2
  <2> HIDE DEF N
  <2> QED
    BY <2>1, SetInduction
<1>4. P(Len(q))
  BY <1>0, <1>3
<1>5. Len(q) <= Len(q)
  BY <1>0
<1> HIDE DEF E
<1>6. \E iter \in [SUBSET (1..Len(q)) -> S] : E(Len(q), iter)
  BY <1>4, <1>5 DEF P
<1> QED
  BY <1>6 DEF E, Iterates


\* g has what a fold makes of each beginning of q.
Follows(g, S, step, base, q) ==
    /\ \A k \in 0..Len(q) : g[k] \in S
    /\ g[0] = base
    /\ \A k \in 1..Len(q) : g[k] = step[<<g[k - 1], q[k]>>]

\* What an iteration makes of the beginnings of q.
LEMMA IterationFollows ==
    ASSUME NEW S, NEW T, NEW step, \A s \in S : \A x \in T : step[<<s, x>>] \in S,
           NEW base \in S, NEW q \in Seq(T), NEW iter, Iterates(iter, S, step, base, q)
    PROVE  Follows([k \in 0..Len(q) |-> iter[1..k]], S, step, base, q)
<1> DEFINE D == SUBSET (1..Len(q))
           g == [k \in 0..Len(q) |-> iter[1..k]]
<1>2. Len(q) \in Nat
  OBVIOUS
<1>3. \A k \in 0..Len(q) : 1..k \in D
  BY <1>2
<1>4. g[0] = base
  <2>1. 1..0 = {} /\ 0 \in 0..Len(q)
    BY <1>2
  <2> QED
    BY <1>3, <2>1 DEF Iterates
<1>5. \A k \in 1..Len(q) : g[k - 1] \in S => g[k] = step[<<g[k - 1], q[k]>>]
  <2> TAKE k \in 1..Len(q)
  <2>1. /\ k \in 1..k /\ \A y \in 1..k : k >= y
        /\ k \in 0..Len(q) /\ k - 1 \in 0..Len(q) /\ k \in Nat
    BY <1>2
  <2>2. (1..k) \ {k} = 1..(k - 1) /\ 1..k # {}
    BY <2>1
  <2>3. LastOf(1..k) = k
    BY <2>1, <1>2, <1>3, LastExists
  <2>4. iter[1..(k - 1)] \in S => iter[1..k] = step[<<iter[1..(k - 1)], q[k]>>]
    BY <1>3, <2>1, <2>2, <2>3 DEF Iterates
  <2> HIDE DEF D
  <2> QED
    BY <2>1, <2>4
<1> HIDE DEF g
<1> DEFINE N == {k \in Nat : k <= Len(q) => g[k] \in S}
<1>6. Nat \subseteq N
  <2>1. 0 \in N
    BY <1>4
  <2>2. ASSUME NEW k \in Nat, k \in N PROVE k + 1 \in N
    <3> SUFFICES ASSUME k + 1 <= Len(q) PROVE g[k + 1] \in S
      OBVIOUS
    <3>1. k + 1 \in 1..Len(q) /\ (k + 1) - 1 = k /\ g[k] \in S
      BY <1>2, <2>2
    <3>2. g[k + 1] = step[<<g[k], q[k + 1]>>] /\ q[k + 1] \in T
      BY <1>5, <3>1
    <3> QED
      BY <3>1, <3>2
  <2> HIDE DEF N
  <2> QED
    BY <2>1, <2>2, SetInduction
<1>7. \A k \in 0..Len(q) : g[k] \in S
  BY <1>2, <1>6
<1>8. \A k \in 1..Len(q) : g[k] = step[<<g[k - 1], q[k]>>]
  <2> TAKE k \in 1..Len(q)
  <2>1. k - 1 \in 0..Len(q)
    BY <1>2
  <2> QED
    BY <1>5, <1>7, <2>1
<1>9. Follows(g, S, step, base, q)
  BY <1>4, <1>7, <1>8 DEF Follows
<1> QED
  BY <1>9 DEF g

\* Sequences that begin in the same way are taken in in the same way.
LEMMA FollowsAgree ==
    ASSUME NEW S, NEW step, NEW base, NEW q, NEW r, NEW n \in Nat,
           Len(q) \in Nat, Len(r) \in Nat, n <= Len(q), n <= Len(r), \A k \in 1..n : q[k] = r[k],
           NEW g, Follows(g, S, step, base, q), NEW h, Follows(h, S, step, base, r)
    PROVE  g[n] = h[n]
<1> DEFINE N == {k \in Nat : k <= n => g[k] = h[k]}
<1>1. 0 \in N
  BY DEF Follows
<1>2. ASSUME NEW k \in Nat, k \in N PROVE k + 1 \in N
  <2> SUFFICES ASSUME k + 1 <= n PROVE g[k + 1] = h[k + 1]
    OBVIOUS
  <2>1. g[k] = h[k] /\ k + 1 \in 1..n /\ k + 1 \in 1..Len(q) /\ k + 1 \in 1..Len(r)
        /\ (k + 1) - 1 = k
    BY <1>2
  <2>2. g[k + 1] = step[<<g[k], q[k + 1]>>] /\ h[k + 1] = step[<<h[k], r[k + 1]>>]
    BY <2>1 DEF Follows
  <2> QED
    BY <2>1, <2>2
<1>3. Nat \subseteq N
  <2> HIDE DEF N
  <2> QED
    BY <1>1, <1>2, SetInduction
<1> QED
  BY <1>3
-----------------------------------------------------------------------------
Values == Nat \cup {None}
Schemas == [Names -> Values]

StatementStep == [p \in Schemas \X Statements |-> Applied(p[1], p[2])]
MigrationStep == [p \in Schemas \X Seq(Statements) |-> Run(p[1], p[2])]

\* What a statement has.
LEMMA StatementFields ==
    ASSUME NEW x \in Statements
    PROVE  x.op \in {"ENSURE", "DROP"} /\ x.name \in Names /\ x.def \in Nat
BY DEF Statements

\* What a statement does to each name.
LEMMA AppliedIs ==
    ASSUME NEW s \in Schemas, NEW x \in Statements
    PROVE  /\ Applied(s, x) \in Schemas
           /\ \A n \in Names :
                  Applied(s, x)[n] = IF n # x.name THEN s[n]
                                       ELSE IF x.op = "DROP" THEN None
                                       ELSE IF s[n] = None THEN x.def ELSE s[n]
<1>1. x.op \in {"ENSURE", "DROP"} /\ x.name \in Names /\ x.def \in Nat
  BY DEF Statements
<1>2. Applied(s, x) = [n \in Names |-> IF n # x.name THEN s[n]
                                         ELSE IF x.op = "DROP" THEN None
                                         ELSE IF s[n] = None THEN x.def ELSE s[n]]
  BY <1>1 DEF Applied, Schemas
<1> QED
  BY <1>1, <1>2 DEF Schemas, Values

\* Run takes the statements in from the first to the last.
LEMMA RunIsFold ==
    ASSUME NEW m \in Seq(Statements), NEW s \in Schemas
    PROVE  \E g : Follows(g, Schemas, StatementStep, s, m) /\ Run(s, m) = g[Len(m)]
<1> DEFINE F(iter) == [X \in SUBSET (DOMAIN m) |->
                         IF X = {} THEN s
                         ELSE Applied(iter[X \ {Max(X)}], m[Max(X)])]
           it == CHOOSE iter : iter = F(iter)
           g == [k \in 0..Len(m) |-> it[1..k]]
<1>1. Run(s, m) = it[1..Len(m)]
  BY DEF Run, FoldLeft, MapThenFoldSet
<1>2. DOMAIN m = 1..Len(m) /\ Len(m) \in Nat
  OBVIOUS
<1>3. \A X : Max(X) = LastOf(X)
  BY DEF Max, LastOf
<1>4. \A x \in Schemas : \A y \in Statements :
          StatementStep[<<x, y>>] = Applied(x, y) /\ StatementStep[<<x, y>>] \in Schemas
  BY AppliedIs DEF StatementStep
<1>5. \A X \in SUBSET (1..Len(m)) :
          X # {} => /\ LastOf(X) \in 1..Len(m) /\ m[LastOf(X)] \in Statements
                    /\ X \ {LastOf(X)} \in SUBSET (1..Len(m))
  <2> TAKE X \in SUBSET (1..Len(m))
  <2>1. X # {} => LastOf(X) \in 1..Len(m)
    BY <1>2, LastExists
  <2>2. \A k \in 1..Len(m) : m[k] \in Statements
    OBVIOUS
  <2>3. X \ {LastOf(X)} \in SUBSET (1..Len(m))
    OBVIOUS
  <2> HIDE DEF F, it, g
  <2> QED
    BY <2>1, <2>2, <2>3
<1>6. \E iter : iter = F(iter)
  <2>1. PICK iter \in [SUBSET (1..Len(m)) -> Schemas] :
            Iterates(iter, Schemas, StatementStep, s, m)
    BY <1>4, FoldExists
  <2>2. ASSUME NEW X \in SUBSET (1..Len(m))
        PROVE  iter[X] = IF X = {} THEN s
                         ELSE Applied(iter[X \ {Max(X)}], m[Max(X)])
    <3>1. X = {} => iter[X] = s
      BY <2>1 DEF Iterates
    <3>2. ASSUME X # {} PROVE iter[X] = Applied(iter[X \ {LastOf(X)}], m[LastOf(X)])
      <4>1. iter[X \ {LastOf(X)}] \in Schemas /\ m[LastOf(X)] \in Statements
        BY <1>5, <2>1, <3>2
      <4>2. iter[X] = StatementStep[<<iter[X \ {LastOf(X)}], m[LastOf(X)]>>]
        BY <2>1, <3>2, <4>1 DEF Iterates
      <4> QED
        BY <1>4, <4>1, <4>2
    <3> QED
      BY <1>3, <3>1, <3>2
  <2>3. iter = F(iter)
    BY <1>2, <2>1, <2>2
  <2> QED
    BY <2>3
<1>7. it = F(it)
  BY <1>6
<1> HIDE DEF it
<1>8. Iterates(it, Schemas, StatementStep, s, m)
  <2> SUFFICES ASSUME NEW X \in SUBSET (1..Len(m))
               PROVE  /\ X = {} => it[X] = s
                      /\ X # {} /\ it[X \ {LastOf(X)}] \in Schemas =>
                             it[X] = StatementStep[<<it[X \ {LastOf(X)}], m[LastOf(X)]>>]
    BY DEF Iterates
  <2>1. it[X] = IF X = {} THEN s
                ELSE Applied(it[X \ {LastOf(X)}], m[LastOf(X)])
    BY <1>2, <1>3, <1>7
  <2> QED
    BY <1>4, <1>5, <2>1
<1>9. Follows(g, Schemas, StatementStep, s, m)
  BY <1>4, <1>8, IterationFollows
<1>10. Run(s, m) = g[Len(m)]
  BY <1>1, <1>2
<1> HIDE DEF g
<1> QED
  BY <1>9, <1>10

\* What they make is a schema.
LEMMA RunIsTyped ==
    ASSUME NEW s \in Schemas, NEW m \in Seq(Statements)
    PROVE  Run(s, m) \in Schemas
<1>1. PICK g : Follows(g, Schemas, StatementStep, s, m) /\ Run(s, m) = g[Len(m)]
  BY RunIsFold
<1>2. Len(m) \in 0..Len(m)
  OBVIOUS
<1> QED
  BY <1>1, <1>2 DEF Follows

\* An empty database has a schema.
LEMMA EmptyIsTyped == Empty \in Schemas
BY DEF Empty, Schemas, Values

\* Result takes the migrations in from the first to the last.
LEMMA ResultIsFold ==
    ASSUME NEW a \in Seq(Seq(Statements))
    PROVE  \E g : Follows(g, Schemas, MigrationStep, Empty, a) /\ Result(a) = g[Len(a)]
<1> DEFINE F(iter) == [X \in SUBSET (DOMAIN a) |->
                         IF X = {} THEN Empty
                         ELSE Run(iter[X \ {Max(X)}], a[Max(X)])]
           it == CHOOSE iter : iter = F(iter)
           g == [k \in 0..Len(a) |-> it[1..k]]
<1>1. Result(a) = it[1..Len(a)]
  BY DEF Result, FoldLeft, MapThenFoldSet
<1>2. DOMAIN a = 1..Len(a) /\ Len(a) \in Nat
  OBVIOUS
<1>3. \A X : Max(X) = LastOf(X)
  BY DEF Max, LastOf
<1>4. \A x \in Schemas : \A y \in Seq(Statements) :
          MigrationStep[<<x, y>>] = Run(x, y) /\ MigrationStep[<<x, y>>] \in Schemas
  BY RunIsTyped DEF MigrationStep
<1>5. \A X \in SUBSET (1..Len(a)) :
          X # {} => /\ LastOf(X) \in 1..Len(a) /\ a[LastOf(X)] \in Seq(Statements)
                    /\ X \ {LastOf(X)} \in SUBSET (1..Len(a))
  <2> TAKE X \in SUBSET (1..Len(a))
  <2>1. X # {} => LastOf(X) \in 1..Len(a)
    BY <1>2, LastExists
  <2>2. \A k \in 1..Len(a) : a[k] \in Seq(Statements)
    OBVIOUS
  <2>3. X \ {LastOf(X)} \in SUBSET (1..Len(a))
    OBVIOUS
  <2> HIDE DEF F, it, g
  <2> QED
    BY <2>1, <2>2, <2>3
<1>6. \E iter : iter = F(iter)
  <2>1. PICK iter \in [SUBSET (1..Len(a)) -> Schemas] :
            Iterates(iter, Schemas, MigrationStep, Empty, a)
    BY <1>4, FoldExists, EmptyIsTyped
  <2>2. ASSUME NEW X \in SUBSET (1..Len(a))
        PROVE  iter[X] = IF X = {} THEN Empty
                         ELSE Run(iter[X \ {Max(X)}], a[Max(X)])
    <3>1. X = {} => iter[X] = Empty
      BY <2>1 DEF Iterates
    <3>2. ASSUME X # {} PROVE iter[X] = Run(iter[X \ {LastOf(X)}], a[LastOf(X)])
      <4>1. iter[X \ {LastOf(X)}] \in Schemas /\ a[LastOf(X)] \in Seq(Statements)
        BY <1>5, <2>1, <3>2
      <4>2. iter[X] = MigrationStep[<<iter[X \ {LastOf(X)}], a[LastOf(X)]>>]
        BY <2>1, <3>2, <4>1 DEF Iterates
      <4> QED
        BY <1>4, <4>1, <4>2
    <3> QED
      BY <1>3, <3>1, <3>2
  <2>3. iter = F(iter)
    BY <1>2, <2>1, <2>2
  <2> QED
    BY <2>3
<1>7. it = F(it)
  BY <1>6
<1> HIDE DEF it
<1>8. Iterates(it, Schemas, MigrationStep, Empty, a)
  <2> SUFFICES ASSUME NEW X \in SUBSET (1..Len(a))
               PROVE  /\ X = {} => it[X] = Empty
                      /\ X # {} /\ it[X \ {LastOf(X)}] \in Schemas =>
                             it[X] = MigrationStep[<<it[X \ {LastOf(X)}], a[LastOf(X)]>>]
    BY DEF Iterates
  <2>1. it[X] = IF X = {} THEN Empty
                ELSE Run(it[X \ {LastOf(X)}], a[LastOf(X)])
    BY <1>2, <1>3, <1>7
  <2> QED
    BY <1>4, <1>5, <2>1
<1>9. Follows(g, Schemas, MigrationStep, Empty, a)
  BY <1>4, <1>8, IterationFollows, EmptyIsTyped
<1>10. Result(a) = g[Len(a)]
  BY <1>1, <1>2
<1> HIDE DEF g
<1> QED
  BY <1>9, <1>10

-----------------------------------------------------------------------------
\* A step takes in what it takes in from what it takes it from.
LEMMA FollowsNext ==
    ASSUME NEW S, NEW step, NEW base, NEW T, NEW q \in Seq(T), NEW e \in T,
           NEW g, Follows(g, S, step, base, q),
           NEW h, Follows(h, S, step, base, Append(q, e))
    PROVE  h[Len(Append(q, e))] = step[<<g[Len(q)], e>>]
<1> DEFINE r == Append(q, e)
<1>1. /\ Len(q) \in Nat /\ Len(r) = Len(q) + 1 /\ r[Len(r)] = e
      /\ \A k \in 1..Len(q) : q[k] = r[k]
  OBVIOUS
<1> HIDE DEF r
<1>2. Follows(h, S, step, base, r)
  BY DEF r
<1>3. Len(r) \in Nat /\ Len(q) <= Len(q) /\ Len(q) <= Len(r)
  BY <1>1
<1>4. g[Len(q)] = h[Len(q)]
  BY <1>1, <1>2, <1>3, FollowsAgree
<1>5. Len(r) \in 1..Len(r) /\ Len(r) - 1 = Len(q)
  BY <1>1
<1>6. h[Len(r)] = step[<<h[Len(r) - 1], r[Len(r)]>>]
  BY <1>2, <1>5 DEF Follows
<1> QED
  BY <1>1, <1>4, <1>5, <1>6 DEF r

\* No statements make nothing.
LEMMA RunNothing ==
    ASSUME NEW s \in Schemas
    PROVE  Run(s, <<>>) = s
<1>1. <<>> \in Seq(Statements) /\ Len(<<>>) = 0
  OBVIOUS
<1>2. PICK g : Follows(g, Schemas, StatementStep, s, <<>>) /\ Run(s, <<>>) = g[Len(<<>>)]
  BY <1>1, RunIsFold
<1> QED
  BY <1>1, <1>2 DEF Follows

\* The last statement acts on what those before it made.
LEMMA RunAppend ==
    ASSUME NEW s \in Schemas, NEW m \in Seq(Statements), NEW x \in Statements
    PROVE  Run(s, Append(m, x)) = Applied(Run(s, m), x)
<1>1. Append(m, x) \in Seq(Statements)
  OBVIOUS
<1>2. PICK g : Follows(g, Schemas, StatementStep, s, m) /\ Run(s, m) = g[Len(m)]
  BY RunIsFold
<1>3. PICK h : /\ Follows(h, Schemas, StatementStep, s, Append(m, x))
               /\ Run(s, Append(m, x)) = h[Len(Append(m, x))]
  BY <1>1, RunIsFold
<1>4. Run(s, Append(m, x)) = StatementStep[<<Run(s, m), x>>]
  BY <1>2, <1>3, FollowsNext
<1> QED
  BY <1>4, RunIsTyped DEF StatementStep

\* What the first k statements of m make of s.
Begun(s, m, k) == Run(s, SubSeq(m, 1, k))

\* One statement after the other.
LEMMA BegunNext ==
    ASSUME NEW s \in Schemas, NEW m \in Seq(Statements)
    PROVE  /\ Begun(s, m, 0) = s
           /\ Begun(s, m, Len(m)) = Run(s, m)
           /\ \A k \in 0..Len(m) : Begun(s, m, k) \in Schemas
           /\ \A k \in 1..Len(m) : Begun(s, m, k) = Applied(Begun(s, m, k - 1), m[k])
<1>1. SubSeq(m, 1, 0) = <<>> /\ SubSeq(m, 1, Len(m)) = m /\ Len(m) \in Nat
  OBVIOUS
<1>2. \A k \in 0..Len(m) : SubSeq(m, 1, k) \in Seq(Statements)
  OBVIOUS
<1>3. ASSUME NEW k \in 1..Len(m)
      PROVE  Begun(s, m, k) = Applied(Begun(s, m, k - 1), m[k])
  <2>1. SubSeq(m, 1, k) = Append(SubSeq(m, 1, k - 1), m[k])
    OBVIOUS
  <2>2. k - 1 \in 0..Len(m) /\ m[k] \in Statements
    OBVIOUS
  <2> QED
    BY <1>2, <2>1, <2>2, RunAppend DEF Begun
<1> QED
  BY <1>1, <1>2, <1>3, RunNothing, RunIsTyped DEF Begun

\* No migrations make nothing of an empty database.
LEMMA ResultNothing == Result(<<>>) = Empty
<1>1. <<>> \in Seq(Seq(Statements)) /\ Len(<<>>) = 0
  OBVIOUS
<1>2. PICK g : /\ Follows(g, Schemas, MigrationStep, Empty, <<>>)
               /\ Result(<<>>) = g[Len(<<>>)]
  BY <1>1, ResultIsFold
<1> QED
  BY <1>1, <1>2 DEF Follows

\* What migrations make is a schema, and the last one acts on what those before it made.
LEMMA ResultAppend ==
    ASSUME NEW a \in Seq(Seq(Statements))
    PROVE  /\ Result(a) \in Schemas
           /\ \A m \in Seq(Statements) : Result(Append(a, m)) = Run(Result(a), m)
<1>1. PICK g : Follows(g, Schemas, MigrationStep, Empty, a) /\ Result(a) = g[Len(a)]
  BY ResultIsFold
<1>2. Result(a) \in Schemas
  <2>1. Len(a) \in 0..Len(a)
    OBVIOUS
  <2> QED
    BY <1>1, <2>1 DEF Follows
<1>3. ASSUME NEW m \in Seq(Statements)
      PROVE  Result(Append(a, m)) = Run(Result(a), m)
  <2>1. Append(a, m) \in Seq(Seq(Statements))
    OBVIOUS
  <2>2. PICK h : /\ Follows(h, Schemas, MigrationStep, Empty, Append(a, m))
                 /\ Result(Append(a, m)) = h[Len(Append(a, m))]
    BY <2>1, ResultIsFold
  <2>3. Result(Append(a, m)) = MigrationStep[<<Result(a), m>>]
    BY <1>1, <2>2, FollowsNext
  <2> QED
    BY <1>2, <2>3 DEF MigrationStep
<1> QED
  BY <1>2, <1>3

\* The statements of m from the i-th on.
Rest(m, i) == SubSeq(m, i, Len(m))

\* The first statement acts first.
LEMMA RunRest ==
    ASSUME NEW s \in Schemas, NEW m \in Seq(Statements)
    PROVE  /\ Run(s, Rest(m, 1)) = Run(s, m)
           /\ Run(s, Rest(m, Len(m) + 1)) = s
           /\ \A i \in 1..Len(m) :
                  Run(s, Rest(m, i)) = Run(Applied(s, m[i]), Rest(m, i + 1))
<1>1. Rest(m, 1) = m
  BY DEF Rest
<1>2. Rest(m, Len(m) + 1) = <<>>
  BY DEF Rest
<1>3. ASSUME NEW i \in 1..Len(m)
      PROVE  Run(s, Rest(m, i)) = Run(Applied(s, m[i]), Rest(m, i + 1))
  <2> DEFINE q == Rest(m, i)
             r == Rest(m, i + 1)
             t == Applied(s, m[i])
  <2>1. /\ q \in Seq(Statements) /\ r \in Seq(Statements) /\ m[i] \in Statements
        /\ Len(q) = Len(r) + 1 /\ Len(r) \in Nat /\ q[1] = m[i]
        /\ \A k \in 1..Len(r) : q[k + 1] = r[k]
    <3>1. i \in Nat /\ i >= 1 /\ i <= Len(m) /\ Len(m) \in Nat /\ m[i] \in Statements
      OBVIOUS
    <3>2. q \in Seq(Statements) /\ Len(q) = (Len(m) - i) + 1
          /\ \A k \in 1..Len(q) : q[k] = m[(i + k) - 1]
      BY <3>1 DEF Rest
    <3>3. r \in Seq(Statements) /\ Len(r) = Len(m) - i
          /\ \A k \in 1..Len(r) : r[k] = m[((i + 1) + k) - 1]
      BY <3>1 DEF Rest
    <3> HIDE DEF q, r
    <3>4. Len(q) = Len(r) + 1 /\ Len(r) \in Nat /\ 1 \in 1..Len(q) /\ (i + 1) - 1 = i
      BY <3>1, <3>2, <3>3
    <3>5. ASSUME NEW k \in 1..Len(r) PROVE q[k + 1] = r[k]
      <4>1. k + 1 \in 1..Len(q) /\ (i + (k + 1)) - 1 = ((i + 1) + k) - 1
        BY <3>1, <3>4
      <4> QED
        BY <3>2, <3>3, <4>1
    <3> QED
      BY <3>1, <3>2, <3>3, <3>4, <3>5
  <2>2. t \in Schemas
    BY <2>1, AppliedIs
  <2> HIDE DEF q, r, t
  <2>3. PICK g : Follows(g, Schemas, StatementStep, s, q) /\ Run(s, q) = g[Len(q)]
    BY <2>1, RunIsFold
  <2>4. PICK h : Follows(h, Schemas, StatementStep, t, r) /\ Run(t, r) = h[Len(r)]
    BY <2>1, <2>2, RunIsFold
  <2> DEFINE N == {k \in Nat : k <= Len(r) => g[k + 1] = h[k]}
  <2>5. 0 \in N
    <3>1. 1 \in 1..Len(q)
      BY <2>1
    <3>2. g[1] = StatementStep[<<g[1 - 1], q[1]>>] /\ g[0] = s
      BY <2>3, <3>1 DEF Follows
    <3>3. g[1] = StatementStep[<<s, m[i]>>]
      <4>1. 1 - 1 = 0
        OBVIOUS
      <4> QED
        BY <2>1, <3>2, <4>1
    <3>4. g[1] = t
      BY <2>1, <3>3 DEF StatementStep, t
    <3> QED
      BY <2>4, <3>4 DEF Follows
  <2>6. ASSUME NEW k \in Nat, k \in N PROVE k + 1 \in N
    <3> SUFFICES ASSUME k + 1 <= Len(r) PROVE g[(k + 1) + 1] = h[k + 1]
      OBVIOUS
    <3>1. /\ (k + 1) + 1 \in 1..Len(q) /\ k + 1 \in 1..Len(r)
          /\ ((k + 1) + 1) - 1 = k + 1 /\ (k + 1) - 1 = k /\ g[k + 1] = h[k]
      BY <2>1, <2>6
    <3>2. g[(k + 1) + 1] = StatementStep[<<g[k + 1], q[(k + 1) + 1]>>]
      BY <2>3, <3>1 DEF Follows
    <3>3. h[k + 1] = StatementStep[<<h[k], r[k + 1]>>]
      BY <2>4, <3>1 DEF Follows
    <3> QED
      BY <2>1, <3>1, <3>2, <3>3
  <2>7. Nat \subseteq N
    <3> HIDE DEF N
    <3> QED
      BY <2>5, <2>6, SetInduction
  <2>8. g[Len(r) + 1] = h[Len(r)]
    BY <2>1, <2>7
  <2>9. Run(s, q) = Run(t, r)
    BY <2>1, <2>3, <2>4, <2>8
  <2> QED
    BY <2>9 DEF q, r, t
<1> QED
  BY <1>1, <1>2, <1>3, RunNothing

-----------------------------------------------------------------------------
\* Statements about different names can be swapped, and a statement that was executed does
\* nothing when it is executed again, which is what the first removal of a name does too.
LEMMA StatementsPass ==
    ASSUME None \notin Nat, NEW s \in Schemas, NEW x \in Statements, NEW y \in Statements
    PROVE  /\ x.name # y.name =>
                  Applied(Applied(s, x), y) = Applied(Applied(s, y), x)
           /\ Applied(Applied(s, x), x) = Applied(s, x)
           /\ y.op = "DROP" /\ x.name = y.name =>
                  Applied(Applied(s, x), y) = Applied(s, y)
<1> DEFINE value(n, v, z) == IF n # z.name THEN v
                             ELSE IF z.op = "DROP" THEN None
                             ELSE IF v = None THEN z.def ELSE v
<1>1. \A t \in Schemas : \A z \in Statements :
          /\ Applied(t, z) \in Schemas
          /\ \A n \in Names : Applied(t, z)[n] = value(n, t[n], z)
  BY AppliedIs
<1>2. /\ Applied(s, x) \in Schemas /\ Applied(s, y) \in Schemas
      /\ Applied(Applied(s, x), y) \in Schemas /\ Applied(Applied(s, y), x) \in Schemas
      /\ Applied(Applied(s, x), x) \in Schemas
  BY <1>1
<1>3. \A n \in Names :
          /\ Applied(Applied(s, x), y)[n] = value(n, value(n, s[n], x), y)
          /\ Applied(Applied(s, y), x)[n] = value(n, value(n, s[n], y), x)
          /\ Applied(Applied(s, x), x)[n] = value(n, value(n, s[n], x), x)
          /\ Applied(s, x)[n] = value(n, s[n], x)
          /\ Applied(s, y)[n] = value(n, s[n], y)
  <2> HIDE DEF value
  <2> QED
    BY <1>1, <1>2
<1>4. \A t, u \in Schemas : (\A n \in Names : t[n] = u[n]) => t = u
  BY DEF Schemas
<1>5. x.def \in Nat /\ y.def \in Nat
  BY DEF Statements
<1>6. ASSUME NEW n \in Names, NEW v
      PROVE  /\ x.name # y.name => value(n, value(n, v, x), y) = value(n, value(n, v, y), x)
             /\ value(n, value(n, v, x), x) = value(n, v, x)
             /\ y.op = "DROP" /\ x.name = y.name => value(n, value(n, v, x), y) = value(n, v, y)
  BY <1>5
<1> HIDE DEF value
<1>7. x.name # y.name => Applied(Applied(s, x), y) = Applied(Applied(s, y), x)
  BY <1>2, <1>3, <1>4, <1>6
<1>8. Applied(Applied(s, x), x) = Applied(s, x)
  BY <1>2, <1>3, <1>4, <1>6
<1>9. y.op = "DROP" /\ x.name = y.name => Applied(Applied(s, x), y) = Applied(s, y)
  BY <1>2, <1>3, <1>4, <1>6
<1> QED
  BY <1>7, <1>8, <1>9

\* In a migration that is restartable, no statement before one that makes a name is about
\* that name, unless it is its removal.
LEMMA MadeOnce ==
    ASSUME NEW m \in Seq(Statements), Restartable(m), NEW i \in 1..Len(m),
           ~(m[1].op = "DROP" /\ m[1].name = m[i].name)
    PROVE  m[i].op = "ENSURE" /\ \A k \in 1..Len(m) : k < i => m[k].name # m[i].name
<1>1. \A k \in 1..Len(m) : m[k].op \in {"ENSURE", "DROP"}
  <2>1. \A k \in 1..Len(m) : m[k] \in Statements
    OBVIOUS
  <2> QED
    BY <2>1, StatementFields
<1>2. \A k \in 1..Len(m) : k = 1 \/ k \in 2..Len(m)
  OBVIOUS
<1>3. \A k \in 1..Len(m) : m[k].op = "DROP" => k = 1
  BY <1>1, <1>2 DEF Restartable
<1>4. m[i].op = "ENSURE"
  BY <1>1, <1>3
<1>5. ASSUME NEW k \in 1..Len(m), k < i PROVE m[k].name # m[i].name
  <2>1. CASE m[k].op = "DROP"
    BY <1>3, <2>1
  <2>2. CASE m[k].op = "ENSURE"
    <3>1. m[k].name = m[i].name => k = i
      BY <1>4, <2>2 DEF Restartable
    <3> QED
      BY <1>5, <3>1
  <2> QED
    BY <1>1, <2>1, <2>2
<1> QED
  BY <1>4, <1>5

\* Who runs a migration on a schema that a statement of it, or of one that it builds anew,
\* has acted on makes what he would have made without that.
LEMMA PassesOver ==
    ASSUME None \notin Nat, NEW s \in Schemas,
           NEW m \in Seq(Statements), NEW w \in Seq(Statements), NEW i \in 1..Len(m),
           \/ w = m /\ Restartable(m)
           \/ Len(w) > 0 /\ w[1].op = "DROP" /\ w[1].name = m[i].name
    PROVE  Run(Applied(s, m[i]), w) = Run(s, w)
<1> DEFINE x == m[i]
           t == Applied(s, x)
<1>1. x \in Statements /\ t \in Schemas
  BY AppliedIs
<1> HIDE DEF x, t
<1>2. CASE Len(w) > 0 /\ w[1].op = "DROP" /\ w[1].name = x.name
  <2>1. 1 \in 1..Len(w) /\ w[1] \in Statements
    BY <1>2
  <2>2. Applied(t, w[1]) = Applied(s, w[1])
    BY <1>1, <1>2, <2>1, StatementsPass DEF t
  <2>3. /\ Run(t, w) = Run(Applied(t, w[1]), Rest(w, 1 + 1))
        /\ Run(s, w) = Run(Applied(s, w[1]), Rest(w, 1 + 1))
    BY <1>1, <2>1, RunRest
  <2> QED
    BY <2>2, <2>3 DEF t, x
<1>3. CASE w = m /\ Restartable(m) /\ ~(m[1].op = "DROP" /\ m[1].name = x.name)
  <2>1. \A k \in 1..Len(m) : k < i => m[k].name # x.name
    BY <1>3, MadeOnce DEF x
  <2> DEFINE g(k) == Begun(s, m, k)
             h(k) == Begun(t, m, k)
  <2>2. /\ g(0) = s /\ h(0) = t
        /\ g(Len(m)) = Run(s, m) /\ h(Len(m)) = Run(t, m)
        /\ \A k \in 0..Len(m) : g(k) \in Schemas /\ h(k) \in Schemas
        /\ \A k \in 1..Len(m) : /\ g(k) = Applied(g(k - 1), m[k])
                                /\ h(k) = Applied(h(k - 1), m[k])
    BY <1>1, BegunNext
  <2> HIDE DEF g, h
  <2>3. Len(m) \in Nat /\ i \in Nat /\ i >= 1 /\ i <= Len(m)
    OBVIOUS
  <2> DEFINE N == {k \in Nat : k < i => h(k) = Applied(g(k), x)}
  <2>4. 0 \in N
    BY <2>2 DEF t
  <2>5. ASSUME NEW k \in Nat, k \in N PROVE k + 1 \in N
    <3> SUFFICES ASSUME k + 1 < i PROVE h(k + 1) = Applied(g(k + 1), x)
      OBVIOUS
    <3>1. /\ k + 1 \in 1..Len(m) /\ (k + 1) - 1 = k /\ k \in 0..Len(m)
          /\ h(k) = Applied(g(k), x)
      BY <2>3, <2>5
    <3>2. m[k + 1] \in Statements /\ m[k + 1].name # x.name
      BY <2>1, <3>1
    <3>3. /\ h(k + 1) = Applied(Applied(g(k), x), m[k + 1])
          /\ g(k + 1) = Applied(g(k), m[k + 1])
      BY <2>2, <3>1
    <3>4. Applied(Applied(g(k), x), m[k + 1]) = Applied(Applied(g(k), m[k + 1]), x)
      BY <1>1, <2>2, <3>1, <3>2, StatementsPass
    <3> QED
      BY <3>3, <3>4
  <2>6. Nat \subseteq N
    <3> HIDE DEF N
    <3> QED
      BY <2>4, <2>5, SetInduction
  <2>7. h(i) = g(i)
    <3>1. i - 1 \in Nat /\ i - 1 < i /\ i - 1 \in 0..Len(m)
      BY <2>3
    <3>2. h(i - 1) = Applied(g(i - 1), x)
      BY <2>6, <3>1
    <3>3. h(i) = Applied(Applied(g(i - 1), x), x) /\ g(i) = Applied(g(i - 1), x)
      BY <2>2, <3>2 DEF x
    <3> QED
      BY <1>1, <2>2, <3>1, <3>3, StatementsPass
  <2> DEFINE L == {k \in Nat : i + k <= Len(m) => h(i + k) = g(i + k)}
  <2>8. 0 \in L
    BY <2>3, <2>7
  <2>9. ASSUME NEW k \in Nat, k \in L PROVE k + 1 \in L
    <3> SUFFICES ASSUME i + (k + 1) <= Len(m) PROVE h(i + (k + 1)) = g(i + (k + 1))
      OBVIOUS
    <3>1. /\ i + (k + 1) \in 1..Len(m) /\ (i + (k + 1)) - 1 = i + k /\ h(i + k) = g(i + k)
      BY <2>3, <2>9
    <3> QED
      BY <2>2, <3>1
  <2>10. Nat \subseteq L
    <3> HIDE DEF L
    <3> QED
      BY <2>8, <2>9, SetInduction
  <2>11. h(Len(m)) = g(Len(m))
    <3>1. Len(m) - i \in Nat /\ i + (Len(m) - i) = Len(m) /\ i + (Len(m) - i) <= Len(m)
      BY <2>3
    <3>2. Len(m) - i \in L
      BY <2>10, <3>1
    <3> QED
      BY <3>1, <3>2
  <2> QED
    BY <1>3, <2>2, <2>11 DEF t, x
<1>4. CASE w = m /\ Restartable(m) /\ m[1].op = "DROP" /\ m[1].name = x.name
  <2>1. Len(w) > 0
    BY <1>4
  <2> QED
    BY <1>2, <1>4, <2>1
<1> QED
  BY <1>2, <1>3, <1>4 DEF x

\* Who starts a migration again that stopped half-way is always somewhere in it.
LEMMA StaysInside ==
    ASSUME None \notin Nat, NEW s \in Schemas, NEW m \in Seq(Statements), Restartable(m),
           NEW i \in 1..Len(m), NEW k \in (i - 1)..Len(m)
    PROVE  \E j \in i..Len(m) : Applied(Begun(s, m, k), m[i]) = Begun(s, m, j)
<1> DEFINE x == m[i]
           g(j) == Begun(s, m, j)
<1>1. /\ \A j \in 0..Len(m) : g(j) \in Schemas
      /\ \A j \in 1..Len(m) : g(j) = Applied(g(j - 1), m[j])
  BY BegunNext
<1> HIDE DEF g
<1>2. /\ Len(m) \in Nat /\ i \in Nat /\ i >= 1 /\ i <= Len(m)
      /\ k \in Nat /\ k <= Len(m) /\ k >= i - 1 /\ k \in 0..Len(m)
      /\ i - 1 \in 0..Len(m) /\ x \in Statements
  OBVIOUS
<1>3. \A j \in 1..Len(m) : /\ m[j] \in Statements /\ m[j].op \in {"ENSURE", "DROP"}
                           /\ m[j].name \in Names /\ m[j].def \in Nat
  <2>1. \A j \in 1..Len(m) : m[j] \in Statements
    OBVIOUS
  <2> QED
    BY <2>1, StatementFields
<1>4. \A j \in 1..Len(m) : j # 1 => m[j].op = "ENSURE"
  <2>1. \A j \in 1..Len(m) : j # 1 => j \in 2..Len(m)
    OBVIOUS
  <2> QED
    BY <2>1 DEF Restartable
<1> HIDE DEF x
<1>5. ASSUME NEW j \in 1..Len(m), NEW n \in Names
      PROVE  g(j)[n] = IF n # m[j].name THEN g(j - 1)[n]
                       ELSE IF m[j].op = "DROP" THEN None
                       ELSE IF g(j - 1)[n] = None THEN m[j].def ELSE g(j - 1)[n]
  <2>1. j - 1 \in 0..Len(m)
    OBVIOUS
  <2>2. g(j - 1) \in Schemas /\ m[j] \in Statements /\ g(j) = Applied(g(j - 1), m[j])
    BY <1>1, <1>3, <2>1
  <2>3. Applied(g(j - 1), m[j])[n] = IF n # m[j].name THEN g(j - 1)[n]
                       ELSE IF m[j].op = "DROP" THEN None
                       ELSE IF g(j - 1)[n] = None THEN m[j].def ELSE g(j - 1)[n]
    BY <2>2, AppliedIs
  <2> QED
    BY <2>2, <2>3
<1>9. \A j \in 0..Len(m) :
          /\ Applied(g(j), x) \in Schemas
          /\ \A n \in Names : Applied(g(j), x)[n] =
                 IF n # x.name THEN g(j)[n]
                 ELSE IF x.op = "DROP" THEN None
                 ELSE IF g(j)[n] = None THEN x.def ELSE g(j)[n]
  BY <1>1, <1>2, AppliedIs
<1>6. CASE k = i - 1
  <2>1. i \in i..Len(m)
    BY <1>2
  <2> QED
    BY <1>1, <1>6, <2>1 DEF x, g
<1>7. CASE k >= i /\ x.op = "ENSURE"
  <2> DEFINE N == {j \in Nat : i + j <= Len(m) => g(i + j)[x.name] # None}
  <2>1. x.name \in Names /\ x.def \in Nat
    BY <1>2 DEF Statements
  <2>2. 0 \in N
    <3>1. i + 0 = i
      BY <1>2
    <3>2. g(i)[x.name] # None
      BY <1>5, <1>7, <2>1 DEF x
    <3> QED
      BY <3>1, <3>2
  <2>3. ASSUME NEW j \in Nat, j \in N PROVE j + 1 \in N
    <3> SUFFICES ASSUME i + (j + 1) <= Len(m) PROVE g(i + (j + 1))[x.name] # None
      OBVIOUS
    <3>1. /\ i + (j + 1) \in 1..Len(m) /\ i + (j + 1) # 1 /\ (i + (j + 1)) - 1 = i + j
          /\ g(i + j)[x.name] # None
      BY <1>2, <2>3
    <3>2. m[i + (j + 1)].op = "ENSURE" /\ m[i + (j + 1)].def \in Nat
      BY <1>3, <1>4, <3>1
    <3> QED
      BY <1>5, <2>1, <3>1, <3>2
  <2>4. Nat \subseteq N
    <3> HIDE DEF N
    <3> QED
      BY <2>2, <2>3, SetInduction
  <2>5. g(k)[x.name] # None
    <3>1. k - i \in Nat /\ i + (k - i) = k
      BY <1>2, <1>7
    <3> QED
      BY <1>2, <2>4, <3>1
  <2>6. Applied(g(k), x) = g(k)
    <3>1. /\ Applied(g(k), x) \in Schemas /\ g(k) \in Schemas
          /\ \A n \in Names : Applied(g(k), x)[n] = g(k)[n]
      BY <1>1, <1>2, <1>7, <1>9, <2>5
    <3> QED
      BY <3>1 DEF Schemas
  <2>7. k \in i..Len(m)
    BY <1>2, <1>7
  <2> QED
    BY <2>6, <2>7 DEF x, g
<1>8. CASE k >= i /\ x.op = "DROP"
  <2>1. i = 1 /\ x.name \in Names
    BY <1>2, <1>4, <1>8 DEF x, Statements
  <2>2. \A j \in 2..Len(m) : m[j].name = x.name => j = Len(m)
    BY <1>8, <2>1 DEF Restartable, x
  <2> DEFINE N == {j \in Nat : j + 1 <= Len(m) /\ (j = 0 \/ m[j + 1].name # x.name) =>
                                   g(j + 1)[x.name] = None}
  <2>3. 0 \in N
    <3>1. 1 \in 1..Len(m) /\ 0 + 1 = 1
      BY <1>2
    <3>2. g(1)[x.name] = None
      BY <1>5, <1>8, <2>1, <3>1 DEF x
    <3> QED
      BY <3>1, <3>2
  <2>4. ASSUME NEW j \in Nat, j \in N PROVE j + 1 \in N
    <3> SUFFICES ASSUME (j + 1) + 1 <= Len(m), m[(j + 1) + 1].name # x.name
                 PROVE  g((j + 1) + 1)[x.name] = None
      OBVIOUS
    <3>1. /\ (j + 1) + 1 \in 1..Len(m) /\ ((j + 1) + 1) - 1 = j + 1 /\ j + 1 <= Len(m)
          /\ j + 1 # Len(m) /\ (j # 0 => j + 1 \in 2..Len(m))
      BY <1>2
    <3>2. j = 0 \/ m[j + 1].name # x.name
      BY <2>2, <3>1
    <3>3. g(j + 1)[x.name] = None
      BY <2>4, <3>1, <3>2
    <3> QED
      BY <1>5, <2>1, <3>1, <3>3
  <2>5. Nat \subseteq N
    <3> HIDE DEF N
    <3> QED
      BY <2>3, <2>4, SetInduction
  <2>6. \A j \in 1..Len(m) : j = 1 \/ m[j].name # x.name => g(j)[x.name] = None
    <3> TAKE j \in 1..Len(m)
    <3>1. j - 1 \in Nat /\ (j - 1) + 1 = j /\ (j - 1 = 0 <=> j = 1) /\ j <= Len(m)
      OBVIOUS
    <3>2. j - 1 \in N
      BY <2>5, <3>1
    <3> QED
      BY <3>1, <3>2
  <2>7. CASE k = 1 \/ m[k].name # x.name
    <3>1. k \in 1..Len(m) /\ k \in i..Len(m)
      BY <1>2, <1>8
    <3>2. g(k)[x.name] = None
      BY <2>6, <2>7, <3>1
    <3>3. /\ Applied(g(k), x) \in Schemas /\ g(k) \in Schemas
          /\ \A n \in Names : Applied(g(k), x)[n] = g(k)[n]
      BY <1>1, <1>2, <1>8, <1>9, <3>2
    <3>4. Applied(g(k), x) = g(k)
      BY <3>3 DEF Schemas
    <3> QED
      BY <3>1, <3>4 DEF x, g
  <2>8. CASE k # 1 /\ m[k].name = x.name
    <3>1. /\ k \in 2..Len(m) /\ k \in 1..Len(m) /\ k - 1 \in 1..Len(m) /\ k - 1 \in i..Len(m)
          /\ k - 1 \in 0..Len(m) /\ k - 1 # Len(m) /\ (k - 1 # 1 => k - 1 \in 2..Len(m))
      BY <1>2, <1>8, <2>1, <2>8
    <3>2. k - 1 = 1 \/ m[k - 1].name # x.name
      BY <2>2, <3>1
    <3>3. g(k - 1)[x.name] = None
      BY <2>6, <3>1, <3>2
    <3>4. ASSUME NEW n \in Names PROVE Applied(g(k), x)[n] = g(k - 1)[n]
      <4>1. Applied(g(k), x)[n] = IF n # x.name THEN g(k)[n] ELSE None
        BY <1>2, <1>8, <1>9
      <4>2. n # x.name => g(k)[n] = g(k - 1)[n]
        BY <1>5, <2>8, <3>1
      <4> QED
        BY <3>3, <4>1, <4>2
    <3>5. Applied(g(k), x) \in Schemas /\ g(k - 1) \in Schemas
      BY <1>1, <1>2, <1>9, <3>1
    <3>6. Applied(g(k), x) = g(k - 1)
      BY <3>4, <3>5 DEF Schemas
    <3> QED
      BY <3>1, <3>6 DEF x, g
  <2> QED
    BY <2>7, <2>8
<1> QED
  <2>1. x.op \in {"ENSURE", "DROP"} /\ (k = i - 1 \/ k >= i)
    BY <1>2, <1>3 DEF x
  <2> QED
    BY <1>6, <1>7, <1>8, <2>1

-----------------------------------------------------------------------------
\* s is how t begins.
Beginning(s, t) == Len(s) <= Len(t) /\ \A i \in 1..Len(s) : s[i] = t[i]

ProcessType ==
    [pc : {"OFF", "LOCK", "LOOK", "RUN", "CHECK", "SERVE", "REFUSED"},
     version : Nat, statement : Nat]

MigrationsTyped ==
    /\ releases \in Deployments
    /\ schema \in Schemas
    /\ applied \in Seq(Seq(Statements))
    /\ lock \in Processes \cup {None}
    /\ processes \in [Processes -> ProcessType]

\* Who has the lock, and nobody else, looks and runs.
OneMigrates ==
    \A p \in Processes : lock = p <=> processes[p].pc \in {"LOOK", "RUN"}

\* p has a migration that comes next.
Pending(p) == Len(releases[p]) > Len(applied) /\ Beginning(applied, releases[p])
Upcoming(p) == releases[p][Len(applied) + 1]

\* What a process that is at r has compared is recorded as it is written in its release.
ComparedAt(p, r) ==
    /\ r.pc = "LOOK" =>
           /\ r.statement = 1
           /\ r.version \in 1..(Len(applied) + 1)
           /\ r.version <= Len(releases[p]) + 1
           /\ \A v \in 1..(r.version - 1) : applied[v] = releases[p][v]
    /\ r.pc = "RUN" =>
           /\ r.version = Len(applied) + 1
           /\ Pending(p)
           /\ r.statement \in 1..(Len(Upcoming(p)) + 1)
    /\ r.pc \in {"CHECK", "SERVE"} /\ p \in Migrators => Beginning(releases[p], applied)
    /\ r.pc = "SERVE" => Len(releases[p]) <= Len(applied)

Compared == \A p \in Processes : ComparedAt(p, processes[p])

\* Only migrations of a release are recorded, in its order.
Written == applied = <<>> \/ \E p \in Processes : Beginning(applied, releases[p])

History == MigrationsTyped /\ OneMigrates /\ Compared /\ Written

\* Whoever migrates next, and who does now, makes what he would make of a schema in which
\* nothing was left half done.
Resumable ==
    /\ \A p \in Processes : Pending(p) =>
           Run(schema, Upcoming(p)) = Run(Result(applied), Upcoming(p))
    /\ \A p \in Processes : processes[p].pc = "RUN" =>
           Run(schema, Rest(Upcoming(p), processes[p].statement)) =
               Run(Result(applied), Upcoming(p))

\* What a release makes is there from the time its last migration is recorded.
Kept ==
    \A p \in Processes : Beginning(releases[p], applied) =>
        \A n \in Names : Result(releases[p])[n] # None =>
                             schema[n] = Result(releases[p])[n]

\* The next migration is done up to some statement, and by who runs it at least as far as
\* he has come.
Halfway ==
    /\ \/ schema = Result(applied)
       \/ \E p \in Processes : Pending(p) /\ \E k \in 1..Len(Upcoming(p)) :
              schema = Begun(Result(applied), Upcoming(p), k)
    /\ \A p \in Processes : processes[p].pc = "RUN" =>
           \E k \in (processes[p].statement - 1)..Len(Upcoming(p)) :
               schema = Begun(Result(applied), Upcoming(p), k)

\* No release has a migration that another has in a form which it does not build anew.
Reconciled == Rolling \/ Rebuilt(releases)

SchemaInv == History /\ (Reconciled => Resumable /\ Kept)
PrefixInv == History /\ (Rolling => Halfway)

\* The releases of a deployment.
LEMMA ReleasesTyped ==
    ASSUME MigrationsTyped
    PROVE  /\ None \notin Processes /\ None \notin Nat
           /\ Len(applied) \in Nat
           /\ \A p \in Processes :
                  /\ releases[p] \in Seq(Seq(Statements))
                  /\ Len(releases[p]) \in Nat /\ Len(releases[p]) > 0
                  /\ \A v \in 1..Len(releases[p]) :
                         /\ releases[p][v] \in Seq(Statements)
                         /\ Restartable(releases[p][v])
                         /\ Len(releases[p][v]) \in Nat
<1>1. None \notin Processes /\ None \notin Nat /\ Len(applied) \in Nat /\ Deployable(releases)
  BY ProcessesAssumption, DeploymentsAssumption DEF MigrationsTyped
<1>2. ASSUME NEW p \in Processes
      PROVE  /\ releases[p] \in Seq(Seq(Statements))
             /\ Len(releases[p]) \in Nat /\ Len(releases[p]) > 0
             /\ \A v \in 1..Len(releases[p]) :
                    /\ releases[p][v] \in Seq(Statements)
                    /\ Restartable(releases[p][v])
                    /\ Len(releases[p][v]) \in Nat
  <2>1. /\ releases[p] \in Seq(Seq(Statements)) /\ releases[p] # <<>>
        /\ \A v \in 1..Len(releases[p]) : Restartable(releases[p][v])
    BY <1>1 DEF Deployable
  <2>2. Len(releases[p]) \in Nat /\ Len(releases[p]) > 0
    BY <2>1
  <2>3. \A v \in 1..Len(releases[p]) : releases[p][v] \in Seq(Statements)
    BY <2>1
  <2> QED
    BY <2>1, <2>2, <2>3
<1> QED
  BY <1>1, <1>2

\* A process that goes somewhere without recording a migration leaves the others where they
\* are.
LEMMA QuietHistory ==
    ASSUME History, NEW p \in Processes, NEW r \in ProcessType,
           processes' = [processes EXCEPT ![p] = r],
           releases' = releases, applied' = applied, schema' \in Schemas,
           \/ r.pc \in {"LOOK", "RUN"} /\ lock' = p /\ lock \in {None, p}
           \/ r.pc \notin {"LOOK", "RUN"} /\ lock' = IF lock = p THEN None ELSE lock,
           ComparedAt(p, r)
    PROVE  History'
<1>1. MigrationsTyped /\ OneMigrates /\ Compared /\ Written
  BY DEF History
<1>2. /\ processes' \in [Processes -> ProcessType]
      /\ processes'[p] = r
      /\ \A q \in Processes : q # p => processes'[q] = processes[q]
  BY <1>1 DEF MigrationsTyped
<1>3. MigrationsTyped'
  BY <1>1, <1>2 DEF MigrationsTyped
<1>4. OneMigrates'
  <2> SUFFICES ASSUME NEW q \in Processes
               PROVE  lock' = q <=> processes'[q].pc \in {"LOOK", "RUN"}
    BY DEF OneMigrates
  <2>1. None \notin Processes
    BY <1>1, ReleasesTyped
  <2>2. lock = q <=> processes[q].pc \in {"LOOK", "RUN"}
    BY <1>1 DEF OneMigrates
  <2>3. CASE q = p
    BY <1>2, <2>1, <2>3
  <2>4. CASE q # p
    BY <1>2, <2>1, <2>2, <2>4
  <2> QED
    BY <2>3, <2>4
<1>5. Compared'
  <2> SUFFICES ASSUME NEW q \in Processes PROVE ComparedAt(q, processes[q])'
    BY DEF Compared
  <2>1. CASE q = p
    BY <1>2, <2>1 DEF ComparedAt, Pending, Upcoming, Beginning
  <2>2. CASE q # p
    <3>1. ComparedAt(q, processes[q]) /\ processes'[q] = processes[q]
      BY <1>1, <1>2, <2>2 DEF Compared
    <3> QED
      BY <3>1 DEF ComparedAt, Pending, Upcoming, Beginning
  <2> QED
    BY <2>1, <2>2
<1>6. Written'
  BY <1>1 DEF Written, Beginning
<1> QED
  BY <1>3, <1>4, <1>5, <1>6 DEF History

\* A process that moves is described by its new place.
LEMMA Moves ==
    ASSUME MigrationsTyped, NEW p \in Processes
    PROVE  /\ processes[p] \in ProcessType
           /\ \A c : [processes EXCEPT ![p].pc = c] =
                     [processes EXCEPT ![p] = [pc |-> c, version |-> processes[p].version,
                                               statement |-> processes[p].statement]]
           /\ [processes EXCEPT ![p].version = @ + 1] =
                  [processes EXCEPT ![p] = [pc |-> processes[p].pc,
                                            version |-> processes[p].version + 1,
                                            statement |-> processes[p].statement]]
           /\ [processes EXCEPT ![p].statement = @ + 1] =
                  [processes EXCEPT ![p] = [pc |-> processes[p].pc,
                                            version |-> processes[p].version,
                                            statement |-> processes[p].statement + 1]]
<1>1. processes \in [Processes -> ProcessType] /\ processes[p] \in ProcessType
  BY DEF MigrationsTyped
<1>2. \A r \in ProcessType :
          /\ \A c : [r EXCEPT !.pc = c] =
                        [pc |-> c, version |-> r.version, statement |-> r.statement]
          /\ [r EXCEPT !.version = @ + 1] =
                 [pc |-> r.pc, version |-> r.version + 1, statement |-> r.statement]
          /\ [r EXCEPT !.statement = @ + 1] =
                 [pc |-> r.pc, version |-> r.version, statement |-> r.statement + 1]
  BY DEF ProcessType
<1>3. \A c : [processes EXCEPT ![p].pc = c] = [processes EXCEPT ![p] = [processes[p] EXCEPT !.pc = c]]
  BY <1>1
<1> QED
  BY <1>1, <1>2, <1>3

\* Starting.
LEMMA StartHistory ==
    ASSUME History, NEW p \in Processes, Start(p)
    PROVE  History'
<1> DEFINE r == [pc |-> IF p \in Migrators THEN "LOCK" ELSE "CHECK",
                 version |-> processes[p].version, statement |-> processes[p].statement]
<1>1. MigrationsTyped
  BY DEF History
<1>2. /\ processes[p] \in ProcessType /\ processes[p].pc = "OFF"
      /\ processes' = [processes EXCEPT ![p] = r]
      /\ releases' = releases /\ schema' = schema /\ applied' = applied /\ lock' = lock
  BY <1>1, Moves DEF Start, At, Go
<1>3. r \in ProcessType
  BY <1>2 DEF ProcessType
<1>4. lock # p
  BY <1>2 DEF History, OneMigrates
<1>5. ComparedAt(p, r)
  BY DEF ComparedAt
<1>6. r.pc \notin {"LOOK", "RUN"}
  OBVIOUS
<1>7. schema' \in Schemas
  BY <1>1, <1>2 DEF MigrationsTyped
<1> HIDE DEF r
<1> QED
  BY <1>2, <1>3, <1>4, <1>5, <1>6, <1>7, QuietHistory

\* Getting the lock.
LEMMA LockHistory ==
    ASSUME History, NEW p \in Processes, Lock(p)
    PROVE  History'
<1> DEFINE r == [pc |-> "LOOK", version |-> 1, statement |-> 1]
<1>1. MigrationsTyped
  BY DEF History
<1>2. /\ lock = None /\ lock' = p /\ processes' = [processes EXCEPT ![p] = r]
      /\ releases' = releases /\ schema' = schema /\ applied' = applied
  BY DEF Lock, Obtains
<1>3. r \in ProcessType
  BY DEF ProcessType
<1>4. ComparedAt(p, r)
  <2>1. Len(applied) \in Nat /\ Len(releases[p]) \in Nat
    BY <1>1, ReleasesTyped
  <2> QED
    BY <2>1 DEF ComparedAt
<1>5. r.pc \in {"LOOK", "RUN"}
  OBVIOUS
<1>6. schema' \in Schemas
  BY <1>1, <1>2 DEF MigrationsTyped
<1> HIDE DEF r
<1> QED
  BY <1>2, <1>3, <1>4, <1>5, <1>6, QuietHistory

\* Giving up or being done: the lock, if p has it, is given back.
LEMMA LeaveHistory ==
    ASSUME History, NEW p \in Processes, NEW r \in ProcessType,
           processes' = [processes EXCEPT ![p] = r], r.pc \notin {"LOOK", "RUN"},
           Unlock(p) \/ (lock' = lock /\ processes[p].pc \notin {"LOOK", "RUN"}),
           releases' = releases /\ schema' = schema /\ applied' = applied,
           r.pc \in {"CHECK", "SERVE"} /\ p \in Migrators => Beginning(releases[p], applied),
           r.pc = "SERVE" => Len(releases[p]) <= Len(applied)
    PROVE  History'
<1>1. MigrationsTyped /\ OneMigrates
  BY DEF History
<1>2. lock' = IF lock = p THEN None ELSE lock
  BY <1>1 DEF Unlock, OneMigrates
<1>3. schema' \in Schemas
  BY <1>1 DEF MigrationsTyped
<1>4. ComparedAt(p, r)
  BY DEF ComparedAt
<1> QED
  BY <1>2, <1>3, <1>4, QuietHistory

\* Looking at the next version.
LEMMA LookHistory ==
    ASSUME History, NEW p \in Processes, Look(p)
    PROVE  History'
<1> DEFINE v == processes[p].version
<1>1. MigrationsTyped /\ OneMigrates /\ Compared
  BY DEF History
<1>2. /\ processes[p] \in ProcessType /\ processes[p].pc = "LOOK"
      /\ releases' = releases /\ schema' = schema /\ applied' = applied
      /\ lock = p
  BY <1>1, Moves DEF Look, At, OneMigrates
<1>3. /\ processes[p].statement = 1 /\ v \in 1..(Len(applied) + 1)
      /\ v <= Len(releases[p]) + 1 /\ \A u \in 1..(v - 1) : applied[u] = releases[p][u]
      /\ Len(applied) \in Nat /\ Len(releases[p]) \in Nat /\ v \in Nat
  <2>1. ComparedAt(p, processes[p])
    BY <1>1 DEF Compared
  <2> QED
    BY <1>1, <1>2, <2>1, ReleasesTyped DEF ComparedAt
<1>4. schema' \in Schemas
  BY <1>1, <1>2 DEF MigrationsTyped
<1>5. CASE v > Len(releases[p]) /\ Unlock(p)
           /\ processes' = [processes EXCEPT ![p] = [Off EXCEPT !.pc = "CHECK"]]
  <2> DEFINE r == [pc |-> "CHECK", version |-> 0, statement |-> 0]
  <2>1. r \in ProcessType /\ processes' = [processes EXCEPT ![p] = r] /\ r.pc = "CHECK"
    <3>1. [Off EXCEPT !.pc = "CHECK"] = r
      BY DEF Off
    <3>2. r \in ProcessType /\ r.pc = "CHECK"
      BY DEF ProcessType
    <3> HIDE DEF r
    <3> QED
      BY <1>5, <3>1, <3>2
  <2>2. Beginning(releases[p], applied)
    <3>1. v = Len(releases[p]) + 1
      BY <1>3, <1>5
    <3>2. Len(releases[p]) <= Len(applied) /\ v - 1 = Len(releases[p])
      BY <1>3, <3>1
    <3> HIDE DEF v
    <3> QED
      BY <1>3, <3>2 DEF Beginning
  <2> HIDE DEF r, v
  <2> QED
    BY <1>2, <1>5, <2>1, <2>2, LeaveHistory
<1>6. CASE v <= Len(releases[p]) /\ v > Len(applied) /\ Go(p, "RUN") /\ lock' = lock
  <2> DEFINE r == [pc |-> "RUN", version |-> v, statement |-> 1]
  <2>1. r \in ProcessType /\ processes' = [processes EXCEPT ![p] = r]
        /\ r.pc = "RUN" /\ r.version = v /\ r.statement = 1
    <3>1. processes' = [processes EXCEPT ![p] = [pc |-> "RUN", version |-> v,
                                                 statement |-> processes[p].statement]]
      BY <1>1, <1>6, Moves DEF Go
    <3>2. processes' = [processes EXCEPT ![p] = r]
      BY <1>3, <3>1
    <3>3. r \in ProcessType
      BY <1>3 DEF ProcessType
    <3> HIDE DEF v
    <3> QED
      BY <3>2, <3>3
  <2>2. v = Len(applied) + 1 /\ v - 1 = Len(applied)
    BY <1>3, <1>6
  <2>3. Pending(p)
    <3>1. Len(releases[p]) > Len(applied)
      BY <1>3, <1>6, <2>2
    <3> HIDE DEF v
    <3> QED
      BY <1>3, <2>2, <3>1 DEF Pending, Beginning
  <2>4. 1 \in 1..(Len(Upcoming(p)) + 1)
    <3>1. Len(applied) + 1 \in 1..Len(releases[p])
      BY <1>3, <1>6, <2>2
    <3>2. Len(Upcoming(p)) \in Nat
      BY <1>1, <3>1, ReleasesTyped DEF Upcoming
    <3> QED
      BY <3>2
  <2> HIDE DEF r, v
  <2>5. ComparedAt(p, r)
    BY <2>1, <2>2, <2>3, <2>4 DEF ComparedAt
  <2> QED
    BY <1>2, <1>4, <1>6, <2>1, <2>5, QuietHistory
<1>7. CASE v <= Len(releases[p]) /\ v <= Len(applied) /\ Unedited(p) /\ lock' = lock
           /\ processes' = [processes EXCEPT ![p].version = @ + 1]
  <2> DEFINE r == [pc |-> "LOOK", version |-> v + 1, statement |-> 1]
  <2>1. r \in ProcessType /\ processes' = [processes EXCEPT ![p] = r]
        /\ r.pc = "LOOK" /\ r.version = v + 1 /\ r.statement = 1
    <3>1. processes' = [processes EXCEPT ![p] = [pc |-> processes[p].pc, version |-> v + 1,
                                                 statement |-> processes[p].statement]]
      BY <1>1, <1>7, Moves
    <3> QED
      BY <1>2, <1>3, <3>1 DEF ProcessType
  <2>2. applied[v] = releases[p][v]
    BY <1>7 DEF Unedited, Migration, Version
  <2>3. \A u \in 1..((v + 1) - 1) : applied[u] = releases[p][u]
    <3> TAKE u \in 1..((v + 1) - 1)
    <3>1. u = v \/ u \in 1..(v - 1)
      BY <1>3
    <3> QED
      BY <1>3, <2>2, <3>1
  <2>4. v + 1 \in 1..(Len(applied) + 1) /\ v + 1 <= Len(releases[p]) + 1
    BY <1>3, <1>7
  <2> HIDE DEF r, v
  <2>5. ComparedAt(p, r)
    BY <2>1, <2>3, <2>4 DEF ComparedAt
  <2> QED
    BY <1>2, <1>4, <1>7, <2>1, <2>5, QuietHistory
<1>8. CASE Unlock(p) /\ processes' = [processes EXCEPT ![p] = [Off EXCEPT !.pc = "REFUSED"]]
  <2> DEFINE r == [pc |-> "REFUSED", version |-> 0, statement |-> 0]
  <2>1. r \in ProcessType /\ processes' = [processes EXCEPT ![p] = r] /\ r.pc = "REFUSED"
    <3>1. [Off EXCEPT !.pc = "REFUSED"] = r
      BY DEF Off
    <3>2. r \in ProcessType /\ r.pc = "REFUSED"
      BY DEF ProcessType
    <3> HIDE DEF r
    <3> QED
      BY <1>8, <3>1, <3>2
  <2> HIDE DEF r, v
  <2> QED
    BY <1>2, <1>8, <2>1, LeaveHistory
<1> QED
  BY <1>5, <1>6, <1>7, <1>8 DEF Look, Version

\* What Execute and RecordVersion start from and what they do.
LEMMA RunningStep ==
    ASSUME History, NEW p \in Processes, processes[p].pc = "RUN"
    PROVE  /\ lock = p /\ Pending(p) /\ processes[p].version = Len(applied) + 1
           /\ Upcoming(p) = Migration(p) /\ Upcoming(p) \in Seq(Statements)
           /\ Restartable(Upcoming(p)) /\ Len(Upcoming(p)) \in Nat
           /\ Len(applied) + 1 \in 1..Len(releases[p])
           /\ processes[p].statement \in 1..(Len(Upcoming(p)) + 1)
           /\ \A q \in Processes : processes[q].pc = "RUN" => q = p
<1>1. MigrationsTyped /\ OneMigrates /\ ComparedAt(p, processes[p])
  BY DEF History, Compared
<1>2. /\ lock = p /\ Pending(p) /\ processes[p].version = Len(applied) + 1
      /\ processes[p].statement \in 1..(Len(Upcoming(p)) + 1)
      /\ \A q \in Processes : processes[q].pc = "RUN" => q = p
  BY <1>1 DEF ComparedAt, OneMigrates
<1>3. Len(applied) + 1 \in 1..Len(releases[p])
  BY <1>1, <1>2, ReleasesTyped DEF Pending
<1>4. /\ Upcoming(p) \in Seq(Statements) /\ Restartable(Upcoming(p))
      /\ Len(Upcoming(p)) \in Nat
  BY <1>1, <1>3, ReleasesTyped DEF Upcoming
<1>5. Upcoming(p) = Migration(p)
  BY <1>2 DEF Upcoming, Migration, Version
<1> QED
  BY <1>2, <1>3, <1>4, <1>5

\* One statement.
Executes(p) ==
    /\ processes[p].pc = "RUN"
    /\ processes[p].statement \in 1..Len(Upcoming(p))
    /\ schema' = Applied(schema, Upcoming(p)[processes[p].statement])
    /\ processes' = [processes EXCEPT ![p] =
                        [pc |-> "RUN", version |-> processes[p].version,
                         statement |-> processes[p].statement + 1]]
    /\ releases' = releases /\ applied' = applied /\ lock' = lock

\* The row of a migration that is done.
Records(p) ==
    /\ processes[p].pc = "RUN"
    /\ processes[p].statement = Len(Upcoming(p)) + 1
    /\ applied' = Append(applied, Upcoming(p))
    /\ processes' = [processes EXCEPT ![p] =
                        [pc |-> "LOOK", version |-> processes[p].version + 1, statement |-> 1]]
    /\ releases' = releases /\ schema' = schema /\ lock' = lock

\* The actions are these steps.
LEMMA RunningActions ==
    ASSUME History, NEW p \in Processes
    PROVE  (Execute(p) => Executes(p)) /\ (RecordVersion(p) => Records(p))
<1>1. MigrationsTyped
  BY DEF History
<1>2. processes[p] \in ProcessType /\ processes[p].statement \in Nat
  BY <1>1, Moves DEF ProcessType
<1>3. ASSUME Execute(p) PROVE Executes(p)
  <2>1. processes[p].pc = "RUN"
    BY <1>3 DEF Execute, At
  <2>2. processes[p].statement \in 1..Len(Upcoming(p))
    BY <1>2, <1>3, <2>1, RunningStep DEF Execute
  <2>3. schema' = Applied(schema, Upcoming(p)[processes[p].statement])
    BY <1>3, <2>1, RunningStep DEF Execute
  <2>4. processes' = [processes EXCEPT ![p] =
                        [pc |-> "RUN", version |-> processes[p].version,
                         statement |-> processes[p].statement + 1]]
    BY <1>1, <1>3, <2>1, Moves DEF Execute
  <2> QED
    BY <1>3, <2>1, <2>2, <2>3, <2>4 DEF Execute, Executes
<1>4. ASSUME RecordVersion(p) PROVE Records(p)
  <2>1. processes[p].pc = "RUN"
    BY <1>4 DEF RecordVersion, At
  <2>2. processes[p].statement = Len(Upcoming(p)) + 1
    BY <1>2, <1>4, <2>1, RunningStep DEF RecordVersion, Finished
  <2>3. applied' = Append(applied, Upcoming(p))
    BY <1>4, <2>1, RunningStep DEF RecordVersion
  <2>4. processes' = [processes EXCEPT ![p] =
                        [pc |-> "LOOK", version |-> processes[p].version + 1, statement |-> 1]]
    BY <1>1, <1>4 DEF RecordVersion, MigrationsTyped
  <2> QED
    BY <1>4, <2>1, <2>2, <2>3, <2>4 DEF RecordVersion, Records
<1> QED
  BY <1>3, <1>4

\* Recording.
LEMMA RecordHistory ==
    ASSUME History, NEW p \in Processes, Records(p)
    PROVE  History'
<1> DEFINE n == Len(applied)
           r == [pc |-> "LOOK", version |-> n + 2, statement |-> 1]
<1>1. MigrationsTyped /\ OneMigrates /\ Compared
  BY DEF History
<1>2. /\ releases' = releases /\ schema' = schema /\ lock' = lock
      /\ applied' = Append(applied, Upcoming(p)) /\ processes[p].pc = "RUN"
  BY DEF Records
<1>3. /\ lock = p /\ Pending(p) /\ Upcoming(p) \in Seq(Statements)
      /\ n \in Nat /\ n + 1 \in 1..Len(releases[p]) /\ processes[p].version = n + 1
      /\ Len(releases[p]) \in Nat
  BY <1>1, <1>2, RunningStep, ReleasesTyped
<1>4. /\ processes' = [processes EXCEPT ![p] = r] /\ r \in ProcessType
      /\ r.pc = "LOOK" /\ r.version = n + 2 /\ r.statement = 1
  <2>1. processes[p].version + 1 = n + 2
    BY <1>3
  <2>2. processes' = [processes EXCEPT ![p] =
                        [pc |-> "LOOK", version |-> processes[p].version + 1, statement |-> 1]]
    BY DEF Records
  <2> QED
    BY <1>3, <2>1, <2>2 DEF ProcessType
<1> HIDE DEF r
<1>5. /\ processes' \in [Processes -> ProcessType] /\ processes'[p] = r
      /\ \A q \in Processes : q # p => processes'[q] = processes[q]
  BY <1>1, <1>4 DEF MigrationsTyped
<1>6. /\ applied' \in Seq(Seq(Statements)) /\ Len(applied') = n + 1
      /\ \A v \in 1..n : applied'[v] = applied[v]
      /\ applied'[n + 1] = Upcoming(p)
  BY <1>1, <1>2, <1>3 DEF MigrationsTyped
<1>7. MigrationsTyped'
  BY <1>1, <1>2, <1>5, <1>6 DEF MigrationsTyped
<1>8. OneMigrates'
  <2>1. r.pc = "LOOK"
    BY <1>4
  <2> QED
    BY <1>1, <1>2, <1>5, <2>1 DEF OneMigrates
<1>9. \A v \in 1..(n + 1) : applied'[v] = releases[p][v]
  <2> TAKE v \in 1..(n + 1)
  <2>1. v \in 1..n \/ v = n + 1
    BY <1>3
  <2> QED
    BY <1>3, <1>6, <2>1 DEF Pending, Beginning, Upcoming
<1>10. \A q \in Processes : Beginning(releases[q], applied) => Beginning(releases[q], applied)'
  <2> SUFFICES ASSUME NEW q \in Processes, Beginning(releases[q], applied)
               PROVE  Beginning(releases[q], applied)'
    OBVIOUS
  <2>1. Len(releases[q]) \in Nat
    BY <1>1, ReleasesTyped
  <2>2. Len(releases[q]) <= n /\ \A v \in 1..Len(releases[q]) : releases[q][v] = applied[v]
    BY DEF Beginning
  <2>3. \A v \in 1..Len(releases[q]) : v \in 1..n
    BY <1>3, <2>1, <2>2
  <2>4. Len(releases[q]) <= Len(applied')
    BY <1>3, <1>6, <2>1, <2>2
  <2> QED
    BY <1>2, <1>6, <2>2, <2>3, <2>4 DEF Beginning
<1>11. Compared'
  <2> SUFFICES ASSUME NEW q \in Processes PROVE ComparedAt(q, processes[q])'
    BY DEF Compared
  <2>1. CASE q = p
    <3>1. n + 2 \in 1..(Len(applied') + 1) /\ n + 2 <= Len(releases[p]) + 1 /\ (n + 2) - 1 = n + 1
      BY <1>3, <1>6
    <3> HIDE DEF n
    <3> QED
      BY <1>2, <1>4, <1>5, <1>9, <2>1, <3>1 DEF ComparedAt
  <2>2. CASE q # p
    <3>1. ComparedAt(q, processes[q]) /\ processes'[q] = processes[q]
          /\ processes[q].pc \notin {"LOOK", "RUN"}
      BY <1>1, <1>3, <1>5, <2>2 DEF Compared, OneMigrates
    <3>2. processes[q].pc = "SERVE" => Len(releases[q]) <= Len(applied')
      <4>1. processes[q].pc = "SERVE" => Len(releases[q]) <= n
        BY <3>1 DEF ComparedAt
      <4>2. Len(releases[q]) \in Nat
        BY <1>1, ReleasesTyped
      <4> QED
        BY <1>3, <1>6, <4>1, <4>2
    <3>3. processes[q].pc \in {"CHECK", "SERVE"} /\ q \in Migrators =>
              Beginning(releases[q], applied)'
      BY <1>10, <3>1 DEF ComparedAt
    <3> QED
      BY <1>2, <3>1, <3>2, <3>3 DEF ComparedAt
  <2> QED
    BY <2>1, <2>2
<1>12. Written'
  <2>1. Len(applied') <= Len(releases[p])
    BY <1>3, <1>6
  <2>2. Beginning(applied, releases[p])'
    BY <1>2, <1>6, <1>9, <2>1 DEF Beginning
  <2> QED
    BY <2>2 DEF Written
<1> QED
  BY <1>7, <1>8, <1>11, <1>12 DEF History

\* A statement.
LEMMA ExecuteHistory ==
    ASSUME History, NEW p \in Processes, Executes(p)
    PROVE  History'
<1> DEFINE r == [pc |-> "RUN", version |-> processes[p].version,
                 statement |-> processes[p].statement + 1]
<1>1. MigrationsTyped /\ Compared
  BY DEF History
<1>2. /\ processes[p] \in ProcessType /\ processes[p].pc = "RUN"
      /\ processes' = [processes EXCEPT ![p] = r]
      /\ releases' = releases /\ applied' = applied /\ lock' = lock
      /\ processes[p].statement \in 1..Len(Upcoming(p))
      /\ schema' = Applied(schema, Upcoming(p)[processes[p].statement])
  BY <1>1, Moves DEF Executes
<1>3. /\ lock = p /\ Pending(p) /\ processes[p].version = Len(applied) + 1
      /\ Upcoming(p) \in Seq(Statements) /\ Len(Upcoming(p)) \in Nat
  BY <1>2, RunningStep
<1>4. r \in ProcessType /\ r.pc = "RUN" /\ r.version = Len(applied) + 1
      /\ r.statement \in 1..(Len(Upcoming(p)) + 1)
  <2>1. /\ processes[p].statement + 1 \in 1..(Len(Upcoming(p)) + 1)
        /\ processes[p].statement + 1 \in Nat /\ processes[p].version \in Nat
    BY <1>2, <1>3 DEF ProcessType
  <2> QED
    BY <1>3, <2>1 DEF ProcessType
<1> HIDE DEF r
<1>5. ComparedAt(p, r)
  BY <1>3, <1>4 DEF ComparedAt
<1>6. schema' \in Schemas
  <2>1. Upcoming(p)[processes[p].statement] \in Statements /\ schema \in Schemas
    BY <1>1, <1>2, <1>3 DEF MigrationsTyped
  <2> QED
    BY <1>2, <2>1, AppliedIs
<1> QED
  BY <1>2, <1>3, <1>4, <1>5, <1>6, QuietHistory

\* Who serves has found as many migrations as his release has.
LEMMA ServeHistory ==
    ASSUME History, NEW p \in Processes, Serve(p) \/ Refuse(p)
    PROVE  History'
<1> DEFINE c == IF Serve(p) THEN "SERVE" ELSE "REFUSED"
           r == [pc |-> c, version |-> processes[p].version,
                 statement |-> processes[p].statement]
<1>1. MigrationsTyped /\ ComparedAt(p, processes[p])
  BY DEF History, Compared
<1>2. /\ processes[p] \in ProcessType /\ processes[p].pc = "CHECK"
      /\ releases' = releases /\ schema' = schema /\ applied' = applied /\ lock' = lock
      /\ processes' = [processes EXCEPT ![p] = r]
  <2>1. CASE Serve(p)
    BY <1>1, <2>1, Moves DEF Serve, At, Go
  <2>2. CASE ~Serve(p)
    BY <1>1, <2>2, Moves DEF Refuse, At, Go
  <2> QED
    BY <2>1, <2>2
<1>3. r \in ProcessType /\ r.pc = c /\ r.pc \notin {"LOOK", "RUN", "CHECK"}
  BY <1>2 DEF ProcessType
<1>4. r.pc = "SERVE" => Len(releases[p]) <= Len(applied)
  <2>1. Len(releases[p]) \in Nat
    BY <1>1, ReleasesTyped
  <2>2. c = "SERVE" => Serve(p)
    OBVIOUS
  <2> HIDE DEF c, r
  <2> QED
    BY <1>3, <2>1, <2>2 DEF Serve, Expected
<1>5. r.pc \in {"CHECK", "SERVE"} /\ p \in Migrators => Beginning(releases[p], applied)
  BY <1>1, <1>2 DEF ComparedAt
<1> HIDE DEF r
<1> QED
  BY <1>2, <1>3, <1>4, <1>5, LeaveHistory

\* Death and restart.
LEMMA StopHistory ==
    ASSUME History, NEW p \in Processes, Crash(p) \/ Restart(p)
    PROVE  History'
<1> DEFINE r == [pc |-> "OFF", version |-> 0, statement |-> 0]
<1>1. MigrationsTyped
  BY DEF History
<1>2. r \in ProcessType /\ r.pc = "OFF"
  BY DEF ProcessType
<1>3. /\ releases' = releases /\ schema' = schema /\ applied' = applied
      /\ processes' = [processes EXCEPT ![p] = r]
      /\ Unlock(p) \/ (lock' = lock /\ processes[p].pc \notin {"LOOK", "RUN"})
  BY DEF Crash, Restart, Off, At
<1> HIDE DEF r
<1> QED
  BY <1>2, <1>3, LeaveHistory

\* Every step keeps the history, the lock and the places of the processes as they should be.
LEMMA HistoryKept ==
    ASSUME History, [Next]_vars
    PROVE  History'
<1>1. ASSUME NEW p \in Processes, Execute(p) PROVE History'
  BY <1>1, RunningActions, ExecuteHistory
<1>2. ASSUME NEW p \in Processes, RecordVersion(p) PROVE History'
  BY <1>2, RunningActions, RecordHistory
<1>3. CASE UNCHANGED vars
  <2>1. /\ releases' = releases /\ schema' = schema /\ applied' = applied /\ lock' = lock
        /\ processes' = processes
    BY <1>3 DEF vars
  <2> QED
    BY <2>1 DEF History, MigrationsTyped, OneMigrates, Compared, ComparedAt, Pending, Upcoming,
       Written, Beginning
<1> QED
  BY <1>1, <1>2, <1>3, StartHistory, LockHistory, LookHistory, ServeHistory, StopHistory
     DEF Next, Migrate

\* At the start nothing is there.
LEMMA HistoryStarts ==
    ASSUME Init
    PROVE  History
<1>1. /\ releases \in Deployments /\ schema = Empty /\ applied = <<>> /\ lock = None
      /\ processes = [p \in Processes |-> Off]
  BY DEF Init
<1>2. Off \in ProcessType /\ Off.pc = "OFF"
  BY DEF Off, ProcessType
<1>3. MigrationsTyped
  BY <1>1, <1>2, EmptyIsTyped DEF MigrationsTyped
<1>4. \A p \in Processes : processes[p].pc = "OFF"
  BY <1>1, <1>2
<1>5. OneMigrates
  BY <1>1, <1>4, ProcessesAssumption DEF OneMigrates
<1>6. Compared
  BY <1>4 DEF Compared, ComparedAt
<1> QED
  BY <1>1, <1>3, <1>5, <1>6 DEF History, Written

-----------------------------------------------------------------------------
\* The steps that neither change the schema nor record a migration.
Quiet ==
    /\ releases' = releases /\ schema' = schema /\ applied' = applied
    /\ \A q \in Processes : processes'[q].pc = "RUN" =>
           processes'[q] = processes[q] \/ processes'[q].statement = 1

\* What moves one process to where it does not run is quiet.
LEMMA ElsewhereIsQuiet ==
    ASSUME MigrationsTyped, NEW p \in Processes, NEW r \in ProcessType,
           processes' = [processes EXCEPT ![p] = r], r.pc = "RUN" => r.statement = 1,
           releases' = releases, schema' = schema, applied' = applied
    PROVE  Quiet
BY DEF Quiet, MigrationsTyped

\* A step is quiet, executes a statement or records a migration.
LEMMA StepKinds ==
    ASSUME History, [Next]_vars
    PROVE  Quiet \/ \E p \in Processes : Executes(p) \/ Records(p)
<1>1. MigrationsTyped /\ Compared
  BY DEF History
<1>2. CASE UNCHANGED vars
  BY <1>2 DEF vars, Quiet
<1>3. ASSUME NEW p \in Processes, Start(p) \/ Serve(p) \/ Refuse(p) PROVE Quiet
  <2>1. PICK c \in {"LOCK", "CHECK", "SERVE", "REFUSED"} :
            /\ processes' = [processes EXCEPT ![p].pc = c]
            /\ releases' = releases /\ schema' = schema /\ applied' = applied
    BY <1>3 DEF Start, Serve, Refuse, Go
  <2> DEFINE r == [pc |-> c, version |-> processes[p].version,
                   statement |-> processes[p].statement]
  <2>2. processes' = [processes EXCEPT ![p] = r] /\ r \in ProcessType /\ r.pc # "RUN"
    BY <1>1, <2>1, Moves DEF ProcessType
  <2> HIDE DEF r
  <2> QED
    BY <1>1, <2>1, <2>2, ElsewhereIsQuiet
<1>4. ASSUME NEW p \in Processes, Lock(p) \/ Crash(p) \/ Restart(p) PROVE Quiet
  <2>1. PICK r \in {[pc |-> "LOOK", version |-> 1, statement |-> 1],
                    [pc |-> "OFF", version |-> 0, statement |-> 0]} :
            /\ processes' = [processes EXCEPT ![p] = r]
            /\ releases' = releases /\ schema' = schema /\ applied' = applied
    BY <1>4 DEF Lock, Crash, Restart, Off
  <2>2. r \in ProcessType /\ r.pc # "RUN"
    BY DEF ProcessType
  <2> QED
    BY <1>1, <2>1, <2>2, ElsewhereIsQuiet
<1>5. ASSUME NEW p \in Processes, Look(p) PROVE Quiet
  <2>1. /\ releases' = releases /\ schema' = schema /\ applied' = applied
        /\ processes[p] \in ProcessType /\ processes[p].pc = "LOOK"
        /\ processes[p].statement = 1
    <3>1. processes[p] \in ProcessType /\ processes[p].pc = "LOOK"
      BY <1>1, <1>5, Moves DEF Look, At
    <3>2. ComparedAt(p, processes[p])
      BY <1>1 DEF Compared
    <3> QED
      BY <1>5, <3>1, <3>2 DEF Look, ComparedAt
  <2>2. CASE \E c \in {"CHECK", "REFUSED"} :
                 processes' = [processes EXCEPT ![p] = [Off EXCEPT !.pc = c]]
    <3>1. PICK c \in {"CHECK", "REFUSED"} :
              processes' = [processes EXCEPT ![p] = [Off EXCEPT !.pc = c]]
      BY <2>2
    <3> DEFINE r == [pc |-> c, version |-> 0, statement |-> 0]
    <3>2. [Off EXCEPT !.pc = c] = r
      BY DEF Off
    <3>3. r \in ProcessType /\ r.pc # "RUN"
      BY DEF ProcessType
    <3> HIDE DEF r
    <3> QED
      BY <1>1, <2>1, <3>1, <3>2, <3>3, ElsewhereIsQuiet
  <2>3. CASE Go(p, "RUN")
    <3> DEFINE r == [pc |-> "RUN", version |-> processes[p].version,
                     statement |-> processes[p].statement]
    <3>1. processes' = [processes EXCEPT ![p] = r]
      BY <1>1, <2>3, Moves DEF Go
    <3>2. r \in ProcessType /\ r.statement = 1
      BY <2>1 DEF ProcessType
    <3> HIDE DEF r
    <3> QED
      BY <1>1, <2>1, <3>1, <3>2, ElsewhereIsQuiet
  <2>4. CASE processes' = [processes EXCEPT ![p].version = @ + 1]
    <3> DEFINE r == [pc |-> processes[p].pc, version |-> processes[p].version + 1,
                     statement |-> processes[p].statement]
    <3>1. processes' = [processes EXCEPT ![p] = r]
      BY <1>1, <2>4, Moves
    <3>2. r \in ProcessType /\ r.statement = 1
      BY <2>1 DEF ProcessType
    <3> HIDE DEF r
    <3> QED
      BY <1>1, <2>1, <3>1, <3>2, ElsewhereIsQuiet
  <2> QED
    BY <1>5, <2>2, <2>3, <2>4 DEF Look
<1> QED
  BY <1>2, <1>3, <1>4, <1>5, RunningActions DEF Next, Migrate

-----------------------------------------------------------------------------
\* A beginning is a prefix.
LEMMA BeginningIsPrefix ==
    ASSUME NEW T, NEW s \in Seq(T), NEW t \in Seq(T)
    PROVE  IsPrefix(s, t) <=> Beginning(s, t)
<1>1. Len(s) \in Nat /\ Len(t) \in Nat
  OBVIOUS
<1>2. ASSUME Len(s) <= Len(t)
      PROVE  SubSeq(s, 1, Len(s)) = SubSeq(t, 1, Len(s)) <=> \A i \in 1..Len(s) : s[i] = t[i]
  <2>1. SubSeq(s, 1, Len(s)) \in Seq(T) /\ SubSeq(t, 1, Len(s)) \in Seq(T)
    BY <1>1, <1>2
  <2>2. Len(SubSeq(s, 1, Len(s))) = Len(s) /\ Len(SubSeq(t, 1, Len(s))) = Len(s)
    BY <1>1, <1>2
  <2>3. \A i \in 1..Len(s) : SubSeq(s, 1, Len(s))[i] = s[i] /\ SubSeq(t, 1, Len(s))[i] = t[i]
    BY <1>1, <1>2
  <2> QED
    BY <2>1, <2>2, <2>3
<1> QED
  BY <1>2 DEF IsPrefix, Beginning

\* Two migrations that may come next are the same, or each builds anew what the other makes.
LEMMA UpcomingAreReconciled ==
    ASSUME History, NEW p \in Processes, NEW q \in Processes,
           Pending(p), Pending(q)
    PROVE  /\ Rolling => Upcoming(p) = Upcoming(q)
           /\ Reconciled => \/ Upcoming(p) = Upcoming(q)
                            \/ \A i \in 1..Len(Upcoming(p)) :
                                   /\ Len(Upcoming(q)) > 0
                                   /\ Upcoming(q)[1].op = "DROP"
                                   /\ Upcoming(q)[1].name = Upcoming(p)[i].name
<1> DEFINE v == Len(applied) + 1
<1>1. /\ releases[p] \in Seq(Seq(Statements)) /\ releases[q] \in Seq(Seq(Statements))
      /\ Len(applied) \in Nat /\ Len(releases[p]) \in Nat /\ Len(releases[q]) \in Nat
  BY ReleasesTyped DEF History
<1>2. v \in 1..Len(releases[p]) /\ v \in 1..Len(releases[q])
  BY <1>1 DEF Pending
<1>3. ASSUME Rolling PROVE Upcoming(p) = Upcoming(q)
  <2>1. Beginning(releases[p], releases[q]) \/ Beginning(releases[q], releases[p])
    BY <1>1, <1>3, BeginningIsPrefix DEF Rolling
  <2> QED
    BY <1>2, <2>1 DEF Beginning, Upcoming
<1>4. ASSUME Rebuilt(releases), Upcoming(p) # Upcoming(q)
      PROVE  \A i \in 1..Len(Upcoming(p)) : /\ Len(Upcoming(q)) > 0
                                            /\ Upcoming(q)[1].op = "DROP"
                                            /\ Upcoming(q)[1].name = Upcoming(p)[i].name
  <2>1. v <= Len(releases[q]) /\ releases[p][v] # releases[q][v]
    BY <1>2, <1>4 DEF Upcoming
  <2>2. \A u \in 1..(v - 1) : releases[p][u] = releases[q][u]
    <3> TAKE u \in 1..(v - 1)
    <3>1. u \in 1..Len(applied)
      BY <1>1
    <3> QED
      BY <3>1 DEF Pending, Beginning
  <2> HIDE DEF v
  <2>3. \A i \in 1..Len(releases[p][v]) : /\ Len(releases[q][v]) > 0
                                          /\ releases[q][v][1].op = "DROP"
                                          /\ releases[q][v][1].name = releases[p][v][i].name
    BY <1>2, <1>4, <2>1, <2>2 DEF Rebuilt
  <2> QED
    BY <2>3 DEF Upcoming, v
<1> QED
  BY <1>3, <1>4 DEF Reconciled

\* A migration that comes next is one of a release.
LEMMA PendingTyped ==
    ASSUME History, NEW p \in Processes, Pending(p)
    PROVE  /\ Upcoming(p) \in Seq(Statements) /\ Restartable(Upcoming(p))
           /\ Len(Upcoming(p)) \in Nat
           /\ Result(applied) \in Schemas /\ schema \in Schemas
<1>1. MigrationsTyped
  BY DEF History
<1>2. Len(applied) + 1 \in 1..Len(releases[p])
  BY <1>1, ReleasesTyped DEF Pending
<1>3. applied \in Seq(Seq(Statements)) /\ schema \in Schemas
  BY <1>1 DEF MigrationsTyped
<1>4. Result(applied) \in Schemas
  BY <1>3, ResultAppend
<1> QED
  BY <1>1, <1>2, <1>3, <1>4, ReleasesTyped DEF Upcoming

\* At the start no migration was begun and no release is there.
LEMMA SchemaStarts ==
    ASSUME Init
    PROVE  Resumable /\ Kept /\ Halfway
<1>1. schema = Empty /\ applied = <<>> /\ Result(applied) = Empty
  BY ResultNothing DEF Init
<1>2. \A p \in Processes : processes[p].pc = "OFF"
  BY DEF Init, Off
<1>3. \A p \in Processes : ~Beginning(releases[p], applied)
  <2>1. MigrationsTyped
    BY HistoryStarts DEF History
  <2> QED
    BY <1>1, <2>1, ReleasesTyped DEF Beginning
<1> QED
  BY <1>1, <1>2, <1>3 DEF Resumable, Kept, Halfway

\* A quiet step begins a migration at most.
LEMMA QuietKeeps ==
    ASSUME History, History', Quiet
    PROVE  /\ Resumable => Resumable'
           /\ Kept => Kept'
           /\ Rolling /\ Halfway => Halfway'
<1>1. releases' = releases /\ schema' = schema /\ applied' = applied
  BY DEF Quiet
<1>2. \A p \in Processes : (Pending(p)' <=> Pending(p)) /\ Upcoming(p)' = Upcoming(p)
  BY <1>1 DEF Pending, Upcoming, Beginning
<1>3. Result(applied)' = Result(applied)
  BY <1>1
<1>4. \A p \in Processes : processes'[p].pc = "RUN" =>
          /\ Pending(p)
          /\ processes'[p] = processes[p] \/ processes'[p].statement = 1
  <2> SUFFICES ASSUME NEW p \in Processes, processes'[p].pc = "RUN" PROVE Pending(p)
    BY DEF Quiet
  <2>1. ComparedAt(p, processes[p])'
    BY DEF History, Compared
  <2>2. Pending(p)'
    BY <2>1 DEF ComparedAt
  <2> QED
    BY <1>2, <2>2
<1>5. ASSUME Resumable PROVE Resumable'
  <2>1. ASSUME NEW p \in Processes, Pending(p)'
        PROVE  Run(schema, Upcoming(p))' = Run(Result(applied), Upcoming(p))'
    BY <1>1, <1>2, <1>3, <1>5, <2>1 DEF Resumable
  <2>2. ASSUME NEW p \in Processes, processes'[p].pc = "RUN"
        PROVE  Run(schema', Rest(Upcoming(p)', processes'[p].statement)) =
                   Run(Result(applied)', Upcoming(p)')
    <3>1. CASE processes'[p] = processes[p]
      BY <1>1, <1>2, <1>3, <1>5, <2>2, <3>1 DEF Resumable
    <3>2. CASE processes'[p].statement = 1
      <4>1. Pending(p) /\ Upcoming(p) \in Seq(Statements) /\ schema \in Schemas
        BY <1>4, <2>2, PendingTyped
      <4>2. Run(schema, Rest(Upcoming(p), 1)) = Run(schema, Upcoming(p))
        BY <4>1, RunRest
      <4>3. Run(schema, Upcoming(p)) = Run(Result(applied), Upcoming(p))
        BY <1>5, <4>1 DEF Resumable
      <4> QED
        BY <1>1, <1>2, <1>3, <3>2, <4>2, <4>3
    <3> QED
      BY <1>4, <2>2, <3>1, <3>2
  <2> QED
    BY <2>1, <2>2 DEF Resumable
<1>6. ASSUME Kept PROVE Kept'
  BY <1>1, <1>6 DEF Kept, Beginning
<1>7. ASSUME Rolling, Halfway PROVE Halfway'
  <2>1. \/ schema = Result(applied)
        \/ \E p \in Processes : Pending(p) /\ \E k \in 1..Len(Upcoming(p)) :
               schema = Begun(Result(applied), Upcoming(p), k)
    BY <1>7 DEF Halfway
  <2>2. ASSUME NEW p \in Processes, processes'[p].pc = "RUN"
        PROVE  \E k \in (processes'[p].statement - 1)..Len(Upcoming(p)) :
                   schema = Begun(Result(applied), Upcoming(p), k)
    <3>1. CASE processes'[p] = processes[p]
      BY <1>7, <2>2, <3>1 DEF Halfway
    <3>2. CASE processes'[p].statement = 1
      <4>1. /\ Pending(p) /\ Upcoming(p) \in Seq(Statements) /\ Len(Upcoming(p)) \in Nat
            /\ Result(applied) \in Schemas
        BY <1>4, <2>2, PendingTyped
      <4>2. CASE schema = Result(applied)
        <5>1. Begun(Result(applied), Upcoming(p), 0) = Result(applied)
          BY <4>1, BegunNext
        <5>2. 0 \in (processes'[p].statement - 1)..Len(Upcoming(p))
          BY <3>2, <4>1
        <5> QED
          BY <4>2, <5>1, <5>2
      <4>3. CASE \E q \in Processes : Pending(q) /\ \E k \in 1..Len(Upcoming(q)) :
                     schema = Begun(Result(applied), Upcoming(q), k)
        <5>1. PICK q \in Processes : Pending(q) /\ \E k \in 1..Len(Upcoming(q)) :
                     schema = Begun(Result(applied), Upcoming(q), k)
          BY <4>3
        <5>2. Upcoming(q) = Upcoming(p)
          BY <1>7, <4>1, <5>1, UpcomingAreReconciled
        <5>3. PICK k \in 1..Len(Upcoming(p)) :
                  schema = Begun(Result(applied), Upcoming(p), k)
          BY <5>1, <5>2
        <5>4. k \in (processes'[p].statement - 1)..Len(Upcoming(p))
          BY <3>2, <4>1
        <5> QED
          BY <5>3, <5>4
      <4> QED
        BY <2>1, <4>2, <4>3
    <3> QED
      BY <1>4, <2>2, <3>1, <3>2
  <2> QED
    BY <1>1, <1>2, <1>3, <2>1, <2>2 DEF Halfway
<1> QED
  BY <1>5, <1>6, <1>7

\* Where the processes are after a statement.
LEMMA ExecuteMoves ==
    ASSUME History, NEW p \in Processes, Executes(p)
    PROVE  /\ releases' = releases /\ applied' = applied
           /\ Result(applied)' = Result(applied)
           /\ \A q \in Processes : (Pending(q)' <=> Pending(q)) /\ Upcoming(q)' = Upcoming(q)
           /\ processes'[p].statement = processes[p].statement + 1
           /\ \A q \in Processes : processes'[q].pc = "RUN" => q = p
<1>1. releases' = releases /\ applied' = applied
  BY DEF Executes
<1>2. /\ processes'[p].statement = processes[p].statement + 1
      /\ \A q \in Processes : q # p => processes'[q] = processes[q]
  BY DEF Executes, History, MigrationsTyped
<1>3. \A q \in Processes : processes[q].pc = "RUN" => q = p
  BY RunningStep DEF Executes
<1> QED
  BY <1>1, <1>2, <1>3 DEF Pending, Upcoming, Beginning

\* A statement is passed over by whoever starts again, and takes nothing from a release
\* that is there.
LEMMA ExecuteKeeps ==
    ASSUME History, NEW p \in Processes, Executes(p),
           Reconciled, Resumable
    PROVE  /\ Resumable'
           /\ Compatible(releases) /\ Kept => Kept'
<1> DEFINE m == Upcoming(p)
           i == processes[p].statement
<1>1. /\ Pending(p) /\ m \in Seq(Statements) /\ Restartable(m) /\ i \in 1..Len(m)
      /\ Len(m) \in Nat /\ Len(applied) + 1 \in 1..Len(releases[p])
      /\ schema' = Applied(schema, m[i]) /\ processes[p].pc = "RUN"
  BY RunningStep DEF Executes
<1>2. /\ schema \in Schemas /\ Result(applied) \in Schemas /\ None \notin Nat
      /\ m[i] \in Statements
  BY <1>1, PendingTyped, ReleasesTyped DEF History
<1>3. ASSUME NEW q \in Processes, Pending(q)
      PROVE  Run(schema', Upcoming(q)) = Run(Result(applied), Upcoming(q))
  <2>1. Upcoming(q) \in Seq(Statements)
    BY <1>3, PendingTyped
  <2>2. \/ Upcoming(q) = m /\ Restartable(m)
        \/ /\ Len(Upcoming(q)) > 0 /\ Upcoming(q)[1].op = "DROP"
           /\ Upcoming(q)[1].name = m[i].name
    BY <1>1, <1>3, UpcomingAreReconciled
  <2>3. Run(Applied(schema, m[i]), Upcoming(q)) = Run(schema, Upcoming(q))
    BY <1>1, <1>2, <2>1, <2>2, PassesOver
  <2> QED
    BY <1>1, <1>3, <2>3 DEF Resumable
<1>4. Run(schema', Rest(m, i + 1)) = Run(Result(applied), m)
  <2>1. Run(schema, Rest(m, i)) = Run(Applied(schema, m[i]), Rest(m, i + 1))
    BY <1>1, <1>2, RunRest
  <2> QED
    BY <1>1, <2>1 DEF Resumable
<1>5. Resumable'
  BY <1>3, <1>4, ExecuteMoves DEF Resumable
<1>6. ASSUME Compatible(releases), Kept, NEW q \in Processes, Beginning(releases[q], applied),
             NEW n \in Names, Result(releases[q])[n] # None
      PROVE  schema'[n] = Result(releases[q])[n]
  <2> DEFINE v == Len(applied) + 1
  <2>1. schema[n] = Result(releases[q])[n]
    BY <1>6 DEF Kept
  <2>2. schema'[n] = IF n # m[i].name THEN schema[n]
                     ELSE IF m[i].op = "DROP" THEN None
                     ELSE IF schema[n] = None THEN m[i].def ELSE schema[n]
    BY <1>1, <1>2, AppliedIs
  <2>3. ASSUME m[i].op = "DROP" PROVE n # m[i].name
    <3>1. /\ releases[p] \in Seq(Seq(Statements)) /\ releases[q] \in Seq(Seq(Statements))
          /\ Len(applied) \in Nat /\ Len(releases[p]) \in Nat /\ Len(releases[q]) \in Nat
      BY ReleasesTyped DEF History
    <3>2. Beginning(releases[q], releases[p])
      BY <1>1, <1>6, <3>1 DEF Beginning, Pending
    <3>3. IsPrefix(releases[q], releases[p])
      BY <3>1, <3>2, BeginningIsPrefix
    <3>4. v \in (Len(releases[q]) + 1)..Len(releases[p])
      BY <1>1, <1>6, <3>1 DEF Beginning
    <3>5. i \in 1..Len(releases[p][v]) /\ m[i] = releases[p][v][i]
      BY <1>1 DEF Upcoming
    <3> HIDE DEF v, m, i
    <3>6. \A u \in (Len(releases[q]) + 1)..Len(releases[p]) : \A j \in 1..Len(releases[p][u]) :
              releases[p][u][j].op = "DROP" =>
                  Result(releases[q])[releases[p][u][j].name] = None
      BY <1>6, <3>3 DEF Compatible
    <3>7. releases[p][v][i].op = "DROP" =>
              Result(releases[q])[releases[p][v][i].name] = None
      BY <3>4, <3>5, <3>6
    <3> QED
      BY <1>6, <2>3, <3>5, <3>7
  <2> HIDE DEF m, i
  <2> QED
    BY <1>6, <2>1, <2>2, <2>3
<1>7. Compatible(releases) /\ Kept => Kept'
  <2> SUFFICES ASSUME Compatible(releases), Kept PROVE Kept'
    OBVIOUS
  <2>1. releases' = releases /\ applied' = applied
    BY ExecuteMoves
  <2> QED
    BY <1>6, <2>1 DEF Kept, Beginning
<1> QED
  BY <1>5, <1>7

\* Who executes a statement of a migration that stopped half-way stays in it.
LEMMA ExecuteStays ==
    ASSUME History, NEW p \in Processes, Executes(p), Halfway
    PROVE  Halfway'
<1> DEFINE m == Upcoming(p)
           i == processes[p].statement
           s == Result(applied)
<1>1. /\ Pending(p) /\ m \in Seq(Statements) /\ Restartable(m) /\ i \in 1..Len(m)
      /\ Len(m) \in Nat /\ schema' = Applied(schema, m[i]) /\ processes[p].pc = "RUN"
  BY RunningStep DEF Executes
<1>2. s \in Schemas /\ None \notin Nat
  BY <1>1, PendingTyped, ReleasesTyped DEF History
<1>3. PICK k \in (i - 1)..Len(m) : schema = Begun(s, m, k)
  BY <1>1 DEF Halfway
<1>4. PICK j \in i..Len(m) : schema' = Begun(s, m, j)
  <2> HIDE DEF m, i, s
  <2> QED
    BY <1>1, <1>2, <1>3, StaysInside
<1>5. j \in 1..Len(m) /\ j \in ((i + 1) - 1)..Len(m)
  BY <1>1, <1>4
<1> QED
  BY <1>1, <1>4, <1>5, ExecuteMoves DEF Halfway

\* When a migration is recorded, the schema is what it makes.
LEMMA RecordKeeps ==
    ASSUME History, NEW p \in Processes, Records(p),
           Resumable \/ Halfway
    PROVE  /\ Resumable' /\ Halfway'
           /\ Kept => Kept'
<1> DEFINE m == Upcoming(p)
           s == Result(applied)
<1>1. /\ Pending(p) /\ m \in Seq(Statements) /\ Len(m) \in Nat
      /\ processes[p].statement = Len(m) + 1 /\ processes[p].pc = "RUN"
      /\ releases' = releases /\ schema' = schema /\ applied' = Append(applied, m)
      /\ \A q \in Processes : processes[q].pc = "RUN" => q = p
  BY RunningStep DEF Records
<1>2. /\ s \in Schemas /\ schema \in Schemas /\ applied \in Seq(Seq(Statements))
      /\ Len(applied) \in Nat
  BY <1>1, PendingTyped, ReleasesTyped DEF History, MigrationsTyped
<1>3. Result(Append(applied, m)) = Run(s, m)
  BY <1>1, <1>2, ResultAppend
<1>4. schema = Run(s, m)
  <2>1. CASE Resumable
    <3>1. Run(schema, Rest(m, Len(m) + 1)) = Run(s, m)
      BY <1>1, <2>1 DEF Resumable
    <3> QED
      BY <1>1, <1>2, <3>1, RunRest
  <2>2. CASE Halfway
    <3>1. PICK k \in ((Len(m) + 1) - 1)..Len(m) : schema = Begun(s, m, k)
      BY <1>1, <2>2 DEF Halfway
    <3>2. k = Len(m)
      BY <1>1, <3>1
    <3> QED
      BY <1>1, <1>2, <3>1, <3>2, BegunNext
  <2> QED
    BY <2>1, <2>2
<1>5. schema' = Result(applied')
  BY <1>1, <1>3, <1>4
<1>6. \A q \in Processes : processes'[q].pc # "RUN"
  <2>1. /\ processes'[p].pc = "LOOK"
        /\ \A q \in Processes : q # p => processes'[q] = processes[q]
    BY DEF Records, History, MigrationsTyped
  <2> QED
    BY <1>1, <2>1
<1>7. Resumable' /\ Halfway'
  BY <1>5, <1>6 DEF Resumable, Halfway
<1>8. ASSUME Kept, NEW q \in Processes, Beginning(releases[q], applied'),
             NEW n \in Names, Result(releases[q])[n] # None
      PROVE  schema[n] = Result(releases[q])[n]
  <2>1. releases[q] \in Seq(Seq(Statements)) /\ Len(releases[q]) \in Nat
    BY ReleasesTyped DEF History
  <2>2. /\ applied' \in Seq(Seq(Statements)) /\ Len(applied') = Len(applied) + 1
        /\ \A v \in 1..Len(applied) : applied'[v] = applied[v]
    BY <1>1, <1>2
  <2>3. Len(releases[q]) <= Len(applied') /\ \A v \in 1..Len(releases[q]) : releases[q][v] = applied'[v]
    BY <1>8 DEF Beginning
  <2>4. CASE Len(releases[q]) <= Len(applied)
    <3>1. \A v \in 1..Len(releases[q]) : v \in 1..Len(applied)
      BY <1>2, <2>1, <2>4
    <3>2. Beginning(releases[q], applied)
      BY <2>2, <2>3, <2>4, <3>1 DEF Beginning
    <3> QED
      BY <1>8, <3>2 DEF Kept
  <2>5. CASE Len(releases[q]) = Len(applied')
    <3>1. releases[q] = applied'
      BY <2>1, <2>2, <2>3, <2>5
    <3> QED
      BY <1>1, <1>5, <3>1
  <2> QED
    BY <1>2, <2>1, <2>2, <2>3, <2>4, <2>5
<1>9. Kept => Kept'
  BY <1>1, <1>8 DEF Kept
<1> QED
  BY <1>7, <1>9

-----------------------------------------------------------------------------
\* What is invariant of a deployment whose releases are compatible.
LEMMA SchemaKept ==
    /\ Init => SchemaInv
    /\ SchemaInv /\ [Next]_vars => SchemaInv'
<1>1. Init => SchemaInv
  BY HistoryStarts, SchemaStarts DEF SchemaInv
<1>2. ASSUME SchemaInv, [Next]_vars PROVE SchemaInv'
  <2>1. History /\ History'
    BY <1>2, HistoryKept DEF SchemaInv
  <2>2. Compatible(releases)
    BY <2>1, CompatibleAssumption DEF History, MigrationsTyped
  <2>3. releases' = releases
    BY <1>2, <2>1, StepKinds DEF Quiet, Executes, Records
  <2>4. Reconciled' <=> Reconciled
    BY <2>3 DEF Reconciled, Rolling, Rebuilt
  <2>5. ASSUME Reconciled PROVE Resumable' /\ Kept'
    <3>1. Resumable /\ Kept
      BY <1>2, <2>5 DEF SchemaInv
    <3>2. CASE Quiet
      BY <2>1, <3>1, <3>2, QuietKeeps
    <3>3. ASSUME NEW p \in Processes, Executes(p) PROVE Resumable' /\ Kept'
      BY <2>1, <2>2, <2>5, <3>1, <3>3, ExecuteKeeps
    <3>4. ASSUME NEW p \in Processes, Records(p) PROVE Resumable' /\ Kept'
      BY <2>1, <3>1, <3>4, RecordKeeps
    <3> QED
      BY <1>2, <2>1, <3>2, <3>3, <3>4, StepKinds
  <2> QED
    BY <2>1, <2>4, <2>5 DEF SchemaInv
<1> QED
  BY <1>1, <1>2

\* What is invariant of a rolling update.
LEMMA PrefixKept ==
    /\ Init => PrefixInv
    /\ PrefixInv /\ [Next]_vars => PrefixInv'
<1>1. Init => PrefixInv
  BY HistoryStarts, SchemaStarts DEF PrefixInv
<1>2. ASSUME PrefixInv, [Next]_vars PROVE PrefixInv'
  <2>1. History /\ History'
    BY <1>2, HistoryKept DEF PrefixInv
  <2>2. releases' = releases
    BY <1>2, <2>1, StepKinds DEF Quiet, Executes, Records
  <2>3. Rolling' <=> Rolling
    BY <2>2 DEF Rolling
  <2>4. ASSUME Rolling PROVE Halfway'
    <3>1. Halfway
      BY <1>2, <2>4 DEF PrefixInv
    <3>2. CASE Quiet
      BY <2>1, <2>4, <3>1, <3>2, QuietKeeps
    <3>3. ASSUME NEW p \in Processes, Executes(p) PROVE Halfway'
      BY <2>1, <3>1, <3>3, ExecuteStays
    <3>4. ASSUME NEW p \in Processes, Records(p) PROVE Halfway'
      BY <2>1, <3>1, <3>4, RecordKeeps
    <3> QED
      BY <1>2, <2>1, <3>2, <3>3, <3>4, StepKinds
  <2> QED
    BY <2>1, <2>3, <2>4 DEF PrefixInv
<1> QED
  BY <1>1, <1>2

\* Who serves has found his release recorded, if it is the beginning of what is recorded or
\* if he has compared it himself.
LEMMA ServedIsRecorded ==
    ASSUME History, NEW p \in Processes, processes[p].pc = "SERVE",
           Rolling \/ p \in Migrators
    PROVE  Beginning(releases[p], applied)
<1>1. ComparedAt(p, processes[p]) /\ MigrationsTyped /\ Written
  BY DEF History, Compared
<1>2. CASE p \in Migrators
  BY <1>1, <1>2 DEF ComparedAt
<1>3. CASE Rolling
  <2>1. Len(releases[p]) <= Len(applied)
    BY <1>1 DEF ComparedAt
  <2>2. \A q \in Processes : releases[q] \in Seq(Seq(Statements)) /\ Len(releases[q]) \in Nat
    BY <1>1, ReleasesTyped
  <2>3. Len(releases[p]) > 0 /\ Len(applied) \in Nat
    BY <1>1, ReleasesTyped
  <2>4. applied # <<>>
    BY <2>1, <2>2, <2>3
  <2>5. PICK q \in Processes : Beginning(applied, releases[q])
    BY <1>1, <2>4 DEF Written
  <2>6. Beginning(releases[p], releases[q]) \/ Beginning(releases[q], releases[p])
    BY <1>3, <2>2, BeginningIsPrefix DEF Rolling
  <2>7. \A v \in 1..Len(releases[p]) : /\ v \in 1..Len(applied) /\ v \in 1..Len(releases[q])
                                        /\ releases[q][v] = releases[p][v]
    <3> TAKE v \in 1..Len(releases[p])
    <3>1. v \in 1..Len(applied) /\ v \in 1..Len(releases[q])
      BY <2>1, <2>2, <2>3, <2>5 DEF Beginning
    <3> QED
      BY <2>6, <3>1 DEF Beginning
  <2> QED
    BY <2>1, <2>5, <2>7 DEF Beginning
<1> QED
  BY <1>2, <1>3

\* One process migrates at a time, what is recorded is how a release begins, and a process
\* that migrates has compared every version that it has passed with what is recorded, from
\* when it gets the lock until it serves and stops: GET_LOCK and the loop over migrations
\* in migrate (migrations.ts:141-171), whatever crashes.
THEOREM MigrationsFollowARelease == Spec => []History
<1>1. Init => History
  BY HistoryStarts
<1>2. History /\ [Next]_vars => History'
  BY HistoryKept
<1> QED
  BY <1>1, <1>2, PTL DEF Spec

\* In a rolling update the schema is what the recorded migrations make of an empty
\* database, or what they and the first statements of the next one make: "Each statement is
\* restartable" (migrations.ts:4-5), for any number of processes, releases and deaths.
THEOREM SchemaStaysAPrefix == Spec => []SchemaIsAPrefix
<1>1. Init => PrefixInv
  BY PrefixKept
<1>2. PrefixInv /\ [Next]_vars => PrefixInv'
  BY PrefixKept
<1>3. PrefixInv => SchemaIsAPrefix
  <2> SUFFICES ASSUME History, Rolling, Halfway,
                      schema # Result(applied)
               PROVE  \E p \in Processes :
                          /\ Len(releases[p]) > Len(applied)
                          /\ \E k \in 1..Len(releases[p][Len(applied) + 1]) :
                                 schema = Run(Result(applied),
                                              SubSeq(releases[p][Len(applied) + 1], 1, k))
    BY DEF PrefixInv, SchemaIsAPrefix
  <2> QED
    BY DEF Halfway, Pending, Upcoming, Begun
<1> QED
  BY <1>1, <1>2, <1>3, PTL DEF Spec

\* Whoever serves finds all that its own release makes: in a rolling update whatever a later
\* release has begun (docs/DEPLOYMENT.md:137), and a process that migrates also where a
\* migration was edited before it was applied, since who finds another form of it recorded
\* stops (migrations.ts:155-158, 168-171) and who finds one half done makes it anew.
THEOREM SchemaStaysServed == Spec => []SchemaIsServed
<1>1. Init => SchemaInv
  BY SchemaKept
<1>2. SchemaInv /\ [Next]_vars => SchemaInv'
  BY SchemaKept
<1>3. SchemaInv => SchemaIsServed
  <2> SUFFICES ASSUME SchemaInv PROVE SchemaIsServed
    OBVIOUS
  <2>1. History /\ Rebuilt(releases)
    BY RebuiltAssumption DEF SchemaInv, History, MigrationsTyped
  <2>2. Kept
    BY <2>1 DEF SchemaInv, Reconciled
  <2> QED
    BY <2>1, <2>2, ServedIsRecorded DEF SchemaIsServed, At, Kept
<1> QED
  BY <1>1, <1>2, <1>3, PTL DEF Spec
===============================================================================
