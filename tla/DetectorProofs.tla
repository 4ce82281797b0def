---------------------------- MODULE DetectorProofs ----------------------------
(***************************************************************************)
(* Detector for all configurations, resolvers, thresholds and responses    *)
(* and any number of checks.  That the loop over the aliases reads a       *)
(* response as it is meant, however many records it has and in whatever    *)
(* order, is an induction over its records, and one over its passes.  An   *)
(* induction here is SetInduction on the set of the numbers for which      *)
(* something holds.                                                        *)
(***************************************************************************)
EXTENDS Detector, FiniteSetTheorems, TLAPS

States ==
    [status : Statuses, failures : Nat, successes : Nat, incidentOpen : BOOLEAN,
     baseline : Answers, candidate : Answers, candidateCount : Nat, lastCheckedAt : Nat]

\* What a check shows: at most one value.
Observations ==
    {o \in [agreed : SUBSET (Answers \ {NoValue}), unanimous : BOOLEAN] :
        o.agreed = {} \/ \E v \in Answers \ {NoValue} : o.agreed = {v}}

Typed ==
    /\ config \in Configs
    /\ state \in States
    /\ now \in Nat
    /\ window \in [open : BOOLEAN, baseline : Answers, seen : Seq(Observations)]

\* The counters are the lengths of the streaks that the history ends with, as far as their
\* thresholds.
Streaks ==
    /\ state.failures <= config.failureThreshold
    /\ \A n \in 1..config.failureThreshold : n <= state.failures <=> BadRun(Length, n)
    /\ state.successes <= config.recoveryThreshold
    /\ \A n \in 1..config.recoveryThreshold : n <= state.successes <=> GoodRun(Length, n)

\* The candidate is the value that the last candidateCount checks showed, and a value that is
\* on its way to replace the baseline is the candidate.
Candidates ==
    config.mode = "WATCH" =>
        /\ state.candidate # NoValue =>
               Steady(Length, state.candidateCount, state.candidate)
        /\ \A v \in Answers \ {NoValue} : \A n \in 1..config.changeThreshold :
               v # state.baseline /\ Steady(Length, n, v) =>
                   state.candidate = v /\ n <= state.candidateCount

\* The status of the last check or reset.
Reported ==
    /\ (state.status = "CRITICAL") <=> state.incidentOpen
    /\ state.status = "HEALTHY" =>
           /\ Length > 0 /\ ~Bad(Length) /\ Seen(Length).unanimous
           /\ config.mode = "WATCH" => Seen(Length).agreed = {state.baseline}

Inv ==
    /\ Typed /\ Streaks /\ Candidates /\ Reported
    /\ IncidentFollowsHistory /\ BaselineFollowsHistory
-----------------------------------------------------------------------------
(******************************** the folds ********************************)

\* What holds of zero, and of the next number with each, holds of every number.
LEMMA SetInduction ==
    ASSUME NEW S, 0 \in S, \A n \in Nat : n \in S => n + 1 \in S
    PROVE  Nat \subseteq S
<1> SUFFICES ASSUME NEW n \in Nat, n \notin S PROVE FALSE
  OBVIOUS
<1> DEFINE F == (0..n) \ S
           f == [x \in F |-> x - 1]
<1>1. IsFiniteSet(F)
  <2>1. IsFiniteSet(0..n)
    BY FS_Interval
  <2>2. F \in SUBSET (0..n)
    OBVIOUS
  <2> HIDE DEF F
  <2> QED BY <2>1, <2>2, FS_Subset
<1>2. \A x \in F : x \in Nat /\ x # 0 /\ x - 1 \in F
  <2> TAKE x \in F
  <2>1. x \in Nat /\ x # 0 /\ x - 1 \in Nat /\ x <= n
    OBVIOUS
  <2>2. x - 1 \notin S
    BY <2>1
  <2> QED BY <2>1, <2>2
<1>3. f \in [F -> F] /\ \A x, y \in F : f[x] = f[y] => x = y
  BY <1>2
<1> HIDE DEF f
<1>4. f \in Injection(F, F)
  BY <1>3 DEF Injection, IsInjective
<1>5. f \in Surjection(F, F)
  BY <1>1, <1>4, FS_Injection
<1>6. n \in F
  OBVIOUS
<1> HIDE DEF F
<1>7. PICK x \in F : f[x] = n
  BY <1>5, <1>6 DEF Surjection
<1>8. f[x] = x - 1
  BY DEF f
<1> QED BY <1>2, <1>7, <1>8 DEF F

\* The last position of a set of positions.
LastOf(X) == CHOOSE x \in X : \A y \in X : x >= y

\* It exists.
LEMMA LastExists ==
    ASSUME NEW n \in Nat, NEW X \in SUBSET (1..n)
    PROVE  /\ X # {} => LastOf(X) \in X /\ \A y \in X : LastOf(X) >= y
           /\ \A k \in 1..n : k \in X /\ (\A y \in X : k >= y) => LastOf(X) = k
<1> DEFINE P(m) == \A Y \in SUBSET (1..m) : Y # {} => \E x \in Y : \A y \in Y : x >= y
           S == {m \in Nat : P(m)}
<1>1. P(0)
  <2>1. \A Y \in SUBSET (1..0) : Y = {}
    OBVIOUS
  <2> QED
    BY <2>1
<1>2. ASSUME NEW m \in Nat, P(m) PROVE P(m + 1)
  <2> SUFFICES ASSUME NEW Y \in SUBSET (1..(m + 1)), Y # {}
               PROVE  \E x \in Y : \A y \in Y : x >= y
    OBVIOUS
  <2>1. CASE m + 1 \in Y
    BY <2>1
  <2>2. CASE m + 1 \notin Y
    <3>1. Y \in SUBSET (1..m)
      BY <2>2
    <3> QED
      BY <3>1, <1>2
  <2> QED
    BY <2>1, <2>2
<1> HIDE DEF P
<1>3. Nat \subseteq S
  <2>1. 0 \in S /\ \A m \in Nat : m \in S => m + 1 \in S
    BY <1>1, <1>2
  <2> HIDE DEF S
  <2> QED
    BY <2>1, SetInduction
<1>4. P(n)
  BY <1>3
<1>5. X # {} => LastOf(X) \in X /\ \A y \in X : LastOf(X) >= y
  BY <1>4 DEF P, LastOf
<1>6. ASSUME NEW k \in 1..n, k \in X, \A y \in X : k >= y PROVE LastOf(X) = k
  <2>1. LastOf(X) \in 1..n /\ LastOf(X) >= k /\ k >= LastOf(X)
    BY <1>5, <1>6
  <2> QED
    BY <2>1
<1> QED
  BY <1>5, <1>6

\* iter is the function that a fold is defined by.
Iterates(iter, S, step, base, q) ==
    /\ iter \in [SUBSET (1..Len(q)) -> S]
    /\ \A X \in SUBSET (1..Len(q)) :
           iter[X] = IF X = {} THEN base
                     ELSE step[<<iter[X \ {LastOf(X)}], q[LastOf(X)]>>]

\* A function that takes a sequence in, element by element, and that the fold over the
\* sequence is an instance of, exists.
LEMMA FoldExists ==
    ASSUME NEW S, NEW T, NEW step, \A s \in S : \A x \in T : step[<<s, x>>] \in S,
           NEW base \in S, NEW q \in Seq(T)
    PROVE  \E iter : Iterates(iter, S, step, base, q)
<1> DEFINE E(n, iter) == \A X \in SUBSET (1..n) :
               iter[X] = IF X = {} THEN base
                         ELSE step[<<iter[X \ {LastOf(X)}], q[LastOf(X)]>>]
           P(n) == n <= Len(q) => \E iter \in [SUBSET (1..n) -> S] : E(n, iter)
           N == {n \in Nat : P(n)}
<1>0. Len(q) \in Nat /\ \A k \in 1..Len(q) : q[k] \in T
  OBVIOUS
<1>1. P(0)
  <2>1. [X \in SUBSET (1..0) |-> base] \in [SUBSET (1..0) -> S]
    OBVIOUS
  <2>2. \A X \in SUBSET (1..0) : X = {}
    OBVIOUS
  <2>3. E(0, [X \in SUBSET (1..0) |-> base])
    BY <2>2
  <2> QED
    BY <2>1, <2>3
<1>2. ASSUME NEW n \in Nat, P(n) PROVE P(n + 1)
  <2> SUFFICES ASSUME n + 1 <= Len(q)
               PROVE  \E iter \in [SUBSET (1..(n + 1)) -> S] : E(n + 1, iter)
    OBVIOUS
  <2>1. PICK old \in [SUBSET (1..n) -> S] : E(n, old)
    <3>1. n <= Len(q)
      BY <1>0
    <3> QED
      BY <1>2, <3>1
  <2> DEFINE new == [X \in SUBSET (1..(n + 1)) |->
                        IF n + 1 \in X THEN step[<<old[X \ {n + 1}], q[n + 1]>>] ELSE old[X]]
  <2>2. \A X \in SUBSET (1..(n + 1)) : /\ X \ {n + 1} \in SUBSET (1..n)
                                       /\ n + 1 \notin X => X \in SUBSET (1..n)
                                       /\ n + 1 \in X => LastOf(X) = n + 1
    <3>1. n + 1 \in Nat /\ n + 1 \in 1..(n + 1)
      OBVIOUS
    <3>2. \A X \in SUBSET (1..(n + 1)) : n + 1 \in X => LastOf(X) = n + 1
      <4> SUFFICES ASSUME NEW X \in SUBSET (1..(n + 1)), n + 1 \in X PROVE LastOf(X) = n + 1
        OBVIOUS
      <4>1. \A y \in X : n + 1 >= y
        OBVIOUS
      <4> QED
        BY <3>1, <4>1, LastExists
    <3> QED
      BY <3>2
  <2>3. q[n + 1] \in T
    BY <1>0
  <2>4. new \in [SUBSET (1..(n + 1)) -> S]
    BY <2>2, <2>3
  <2>5. E(n + 1, new)
    <3> SUFFICES ASSUME NEW X \in SUBSET (1..(n + 1))
                 PROVE  new[X] = IF X = {} THEN base
                                 ELSE step[<<new[X \ {LastOf(X)}], q[LastOf(X)]>>]
      OBVIOUS
    <3>1. CASE n + 1 \in X
      <4>1. LastOf(X) = n + 1 /\ X # {} /\ n + 1 \notin X \ {n + 1}
            /\ X \ {n + 1} \in SUBSET (1..(n + 1))
        BY <3>1, <2>2
      <4>2. new[X \ {n + 1}] = old[X \ {n + 1}]
        BY <4>1
      <4>3. new[X] = step[<<old[X \ {n + 1}], q[n + 1]>>]
        BY <3>1
      <4> HIDE DEF new
      <4> QED
        BY <4>1, <4>2, <4>3
    <3>2. CASE n + 1 \notin X
      <4>1. X \in SUBSET (1..n) /\ new[X] = old[X]
        BY <3>2, <2>2
      <4>2. X = {} => new[X] = base
        BY <4>1, <2>1
      <4>3. ASSUME X # {}
            PROVE  new[X] = step[<<new[X \ {LastOf(X)}], q[LastOf(X)]>>]
        <5>1. X \ {LastOf(X)} \in SUBSET (1..n) /\ n + 1 \notin X \ {LastOf(X)}
              /\ X \ {LastOf(X)} \in SUBSET (1..(n + 1))
          <6> HIDE DEF new, E
          <6> QED
            BY <4>1, <3>2
        <5>2. new[X \ {LastOf(X)}] = old[X \ {LastOf(X)}]
          BY <5>1
        <5>3. old[X] = step[<<old[X \ {LastOf(X)}], q[LastOf(X)]>>]
          BY <4>1, <4>3, <2>1
        <5> HIDE DEF new
        <5> QED
          BY <4>1, <5>2, <5>3
      <4> QED
        BY <4>2, <4>3
    <3> QED
      BY <3>1, <3>2
  <2> HIDE DEF new, E
  <2> QED
    BY <2>4, <2>5
<1> HIDE DEF P
<1>3. Nat \subseteq N
  <2>1. 0 \in N /\ \A n \in Nat : n \in N => n + 1 \in N
    BY <1>1, <1>2
  <2> HIDE DEF N
  <2> QED
    BY <2>1, SetInduction
<1>4. P(Len(q))
  BY <1>0, <1>3
<1>5. Len(q) <= Len(q)
  BY <1>0
<1> HIDE DEF E
<1>6. \E iter \in [SUBSET (1..Len(q)) -> S] : E(Len(q), iter)
  BY <1>4, <1>5 DEF P
<1> QED
  BY <1>6 DEF E, Iterates

\* FoldLeft takes a sequence in from its first element to its last.
LEMMA FollowIsFold ==
    ASSUME NEW T, NEW q \in Seq(T), NEW owners
    PROVE  \E g : /\ g[0] = owners
                  /\ \A k \in 1..Len(q) : g[k] = Follow(g[k - 1], q[k])
                  /\ Lists!FoldLeft(Follow, owners, q) = g[Len(q)]
<1> DEFINE D == SUBSET (1..Len(q))
           F(iter) == [X \in SUBSET (DOMAIN q) |->
                         IF X = {} THEN owners
                         ELSE Follow(iter[X \ {Lists!Max(X)}], q[Lists!Max(X)])]
           it == CHOOSE iter : iter = F(iter)
           S == SUBSET (owners \cup {Normal(x.data) : x \in T})
           step == [p \in S \X T |-> Follow(p[1], p[2])]
<1>1. Lists!FoldLeft(Follow, owners, q) = it[DOMAIN q]
  BY DEF Lists!FoldLeft, Lists!MapThenFoldSet
<1>2. DOMAIN q = 1..Len(q) /\ Len(q) \in Nat
  OBVIOUS
<1>3. \E iter : iter = F(iter)
  <2>1. \A s \in S : \A x \in T : step[<<s, x>>] = Follow(s, x) /\ Follow(s, x) \in S
    BY DEF Follow
  <2>2. owners \in S
    OBVIOUS
  <2> HIDE DEF step, S
  <2>9. \A s \in S : \A x \in T : step[<<s, x>>] \in S
    BY <2>1
  <2>3. PICK iter : Iterates(iter, S, step, owners, q)
    BY <2>2, <2>9, FoldExists
  <2>4. \A X \in D : X # {} => LastOf(X) \in 1..Len(q) /\ X \ {LastOf(X)} \in D
    BY <1>2, LastExists
  <2>5. \A X : Lists!Max(X) = LastOf(X)
    BY DEF Lists!Max, LastOf
  <2>6. \A X \in D : iter[X] = IF X = {} THEN owners
                             ELSE Follow(iter[X \ {Lists!Max(X)}], q[Lists!Max(X)])
    <3> TAKE X \in D
    <3>1. X = {} => iter[X] = owners
      BY <2>3 DEF Iterates
    <3>2. ASSUME X # {}
          PROVE  iter[X] = Follow(iter[X \ {LastOf(X)}], q[LastOf(X)])
      <4>1. /\ LastOf(X) \in 1..Len(q) /\ iter[X \ {LastOf(X)}] \in S
            /\ iter[X] = step[<<iter[X \ {LastOf(X)}], q[LastOf(X)]>>]
        BY <2>3, <2>4, <3>2 DEF Iterates
      <4>2. q[LastOf(X)] \in T
        BY <4>1
      <4> QED
        BY <2>1, <4>1, <4>2
    <3> QED
      BY <2>5, <3>1, <3>2
  <2>7. iter = F(iter)
    BY <1>2, <2>3, <2>6 DEF Iterates
  <2> QED
    BY <2>7
<1>4. it = F(it)
  BY <1>3
<1> HIDE DEF it
<1>5. \A X \in D : it[X] = IF X = {} THEN owners
                             ELSE Follow(it[X \ {LastOf(X)}], q[LastOf(X)])
  BY <1>2, <1>4 DEF Lists!Max, LastOf
<1> DEFINE g == [k \in 0..Len(q) |-> it[1..k]]
<1>6. g[0] = owners /\ g[Len(q)] = it[DOMAIN q]
  <2>1. 1..0 = {} /\ {} \in D
    BY <1>2
  <2> QED
    <3>0. it[{}] = owners
      BY <1>5, <2>1
    <3>1. /\ 0 \in 0..Len(q) /\ Len(q) \in 0..Len(q) /\ it[{}] = owners
      BY <1>2, <3>0
    <3>2. g[0] = it[1..0] /\ g[Len(q)] = it[1..Len(q)]
      BY <3>1
    <3> HIDE DEF g
    <3> QED
      BY <1>2, <2>1, <3>1, <3>2
<1>7. \A k \in 1..Len(q) : g[k] = Follow(g[k - 1], q[k])
  <2> TAKE k \in 1..Len(q)
  <2>1. /\ 1..k \in D /\ 1..k # {} /\ (1..k) \ {k} = 1..(k - 1)
        /\ k \in 1..k /\ \A y \in 1..k : k >= y
        /\ k \in 0..Len(q) /\ k - 1 \in 0..Len(q)
    <3>1. Len(q) \in Nat /\ k \in Nat /\ k >= 1 /\ k <= Len(q)
      BY <1>2
    <3>2. 1..k \in D
      BY <3>1
    <3>3. (1..k) \ {k} = 1..(k - 1)
      BY <3>1
    <3>4. k \in 1..k /\ \A y \in 1..k : k >= y
      BY <3>1
    <3>5. k \in 0..Len(q) /\ k - 1 \in 0..Len(q)
      BY <3>1
    <3> HIDE DEF D
    <3> QED
      BY <3>2, <3>3, <3>4, <3>5
  <2>2. LastOf(1..k) = k
    BY <1>2, <2>1, LastExists
  <2>3. it[1..k] = Follow(it[1..(k - 1)], q[k])
    <3> HIDE DEF D
    <3> QED
      BY <1>5, <2>1, <2>2
  <2>4. g[k] = it[1..k] /\ g[k - 1] = it[1..(k - 1)]
    BY <2>1
  <2> HIDE DEF g
  <2> QED
    BY <2>3, <2>4
<1> QED
  BY <1>1, <1>6, <1>7

-----------------------------------------------------------------------------
(******************************* the aliases *******************************)

Alias(record) == record.type = "CNAME"

\* Nothing is reached from C that is not in it.
Closed(C, q) ==
    \A k \in 1..Len(q) : Alias(q[k]) /\ Normal(q[k].owner) \in C => Normal(q[k].data) \in C

\* A pass over the records keeps the names, adds where their aliases lead to, and nothing
\* that does not follow from them.
LEMMA PassFollows ==
    ASSUME NEW T, NEW q \in Seq(T), NEW owners
    PROVE  LET pass == Lists!FoldLeft(Follow, owners, q) IN
           /\ owners \subseteq pass
           /\ \A k \in 1..Len(q) :
                  Alias(q[k]) /\ Normal(q[k].owner) \in owners => Normal(q[k].data) \in pass
           /\ \A C : owners \subseteq C /\ Closed(C, q) => pass \subseteq C
<1>1. PICK g : /\ g[0] = owners
               /\ \A k \in 1..Len(q) : g[k] = Follow(g[k - 1], q[k])
               /\ Lists!FoldLeft(Follow, owners, q) = g[Len(q)]
  BY FollowIsFold
<1>2. Len(q) \in Nat
  OBVIOUS
<1> DEFINE P(n) ==
               /\ owners \subseteq g[n]
               /\ \A k \in 1..n :
                      Alias(q[k]) /\ Normal(q[k].owner) \in owners => Normal(q[k].data) \in g[n]
               /\ \A C : owners \subseteq C /\ Closed(C, q) => g[n] \subseteq C
           N == {n \in Nat : n <= Len(q) => P(n)}
<1>3. P(0)
  BY <1>1
<1>4. ASSUME NEW n \in Nat, n \in N PROVE n + 1 \in N
  <2> SUFFICES ASSUME n + 1 <= Len(q) PROVE P(n + 1)
    OBVIOUS
  <2>1. P(n)
    <3>1. n <= Len(q)
      BY <1>2
    <3> QED
      BY <1>4, <3>1
  <2>2. g[n + 1] = Follow(g[n], q[n + 1]) /\ n + 1 \in 1..Len(q)
    <3>1. n + 1 \in 1..Len(q) /\ (n + 1) - 1 = n
      BY <1>2
    <3> QED
      BY <1>1, <3>1
  <2>3. g[n] \subseteq g[n + 1]
    BY <2>2 DEF Follow
  <2>4. ASSUME NEW k \in 1..(n + 1), Alias(q[k]), Normal(q[k].owner) \in owners
        PROVE  Normal(q[k].data) \in g[n + 1]
    <3>1. CASE k = n + 1
      BY <2>1, <2>2, <2>4, <3>1 DEF Follow, Alias
    <3>2. CASE k \in 1..n
      BY <2>1, <2>3, <2>4, <3>2
    <3> QED
      BY <3>1, <3>2
  <2>5. ASSUME NEW C, owners \subseteq C, Closed(C, q)
        PROVE  g[n + 1] \subseteq C
    <3>1. g[n] \subseteq C
      BY <2>1, <2>5
    <3> QED
      BY <2>2, <2>5, <3>1 DEF Follow, Closed, Alias
  <2> QED
    BY <2>1, <2>3, <2>4, <2>5
<1>5. Nat \subseteq N
  <2>1. 0 \in N
    BY <1>3
  <2> HIDE DEF N
  <2> QED
    BY <1>4, <2>1, SetInduction
<1>6. P(Len(q))
  BY <1>2, <1>5
<1> QED
  BY <1>1, <1>6

\* The passes of Owners.
LEMMA OwnersArePasses ==
    ASSUME NEW T, NEW q \in Seq(T), NEW hostname
    PROVE  \E after : /\ after[0] = {hostname}
                      /\ \A n \in 1..Len(q) :
                             after[n] = Lists!FoldLeft(Follow, after[n - 1], q)
                      /\ Owners(hostname, q) = after[Len(q)]
<1> DEFINE Pass(s) == Lists!FoldLeft(Follow, s, q)
           F(after) == [n \in 0..Len(q) |-> IF n = 0 THEN {hostname} ELSE Pass(after[n - 1])]
           it == CHOOSE after : after = F(after)
           S == SUBSET ({hostname} \cup {Normal(x.data) : x \in T})
           step == [p \in S \X T |-> Pass(p[1])]
<1>1. Owners(hostname, q) = it[Len(q)]
  BY DEF Owners
<1>2. Len(q) \in Nat
  OBVIOUS
<1>3. \E after : after = F(after)
  <2>1. \A s \in S : Pass(s) \in S
    <3> TAKE s \in S
    <3> DEFINE C == {hostname} \cup {Normal(x.data) : x \in T}
    <3>1. Closed(C, q) /\ s \subseteq C
      BY DEF Closed
    <3> QED
      BY <3>1, PassFollows
  <2>2. {hostname} \in S
    OBVIOUS
  <2> HIDE DEF S, Pass
  <2>3. \A s \in S : \A x \in T : step[<<s, x>>] = Pass(s)
    OBVIOUS
  <2>4. \A s \in S : \A x \in T : step[<<s, x>>] \in S
    BY <2>1, <2>3
  <2> HIDE DEF step
  <2>5. PICK iter : Iterates(iter, S, step, {hostname}, q)
    BY <2>2, <2>4, FoldExists
  <2> DEFINE after == [n \in 0..Len(q) |-> iter[1..n]]
  <2>6. after[0] = {hostname}
    <3>1. 1..0 = {} /\ {} \in SUBSET (1..Len(q)) /\ 0 \in 0..Len(q)
      BY <1>2
    <3> QED
      BY <2>5, <3>1 DEF Iterates
  <2>7. \A n \in 1..Len(q) : after[n] = Pass(after[n - 1])
    <3> TAKE n \in 1..Len(q)
    <3>0. /\ n \in 1..n /\ \A y \in 1..n : n >= y
          /\ n \in 0..Len(q) /\ n - 1 \in 0..Len(q)
      BY <1>2
    <3>1. /\ 1..n \in SUBSET (1..Len(q)) /\ 1..n # {} /\ (1..n) \ {n} = 1..(n - 1)
          /\ 1..(n - 1) \in SUBSET (1..Len(q))
      <4>1. n \in Nat /\ 1 <= n /\ n <= Len(q)
        BY <1>2
      <4>2. 1..n \subseteq 1..Len(q) /\ 1..(n - 1) \subseteq 1..Len(q)
        BY <1>2, <4>1
      <4>3. (1..n) \ {n} = 1..(n - 1)
        BY <4>1
      <4> QED
        BY <3>0, <4>2, <4>3
    <3>2. LastOf(1..n) = n
      BY <1>2, <3>0, <3>1, LastExists
    <3>3. iter[1..(n - 1)] \in S /\ q[n] \in T
      BY <2>5, <3>1 DEF Iterates
    <3>4. iter[1..n] = step[<<iter[1..(n - 1)], q[n]>>]
      BY <2>5, <3>1, <3>2 DEF Iterates
    <3>5. iter[1..n] = Pass(iter[1..(n - 1)])
      BY <2>3, <3>3, <3>4
    <3> QED
      BY <3>0, <3>5
  <2>8. after = F(after)
    <3>1. \A n \in 0..Len(q) : after[n] = IF n = 0 THEN {hostname} ELSE Pass(after[n - 1])
      BY <1>2, <2>6, <2>7
    <3>2. after = [n \in 0..Len(q) |-> after[n]]
      OBVIOUS
    <3> HIDE DEF after
    <3> QED
      BY <3>1, <3>2
  <2> QED
    BY <2>8
<1>4. it = F(it)
  BY <1>3
<1> HIDE DEF it, Pass
<1>5. it[0] = {hostname} /\ \A n \in 1..Len(q) : it[n] = Pass(it[n - 1])
  <2>1. 0 \in 0..Len(q) /\ \A n \in 1..Len(q) : n \in 0..Len(q) /\ n # 0
    BY <1>2
  <2>2. \A n \in 0..Len(q) : F(it)[n] = IF n = 0 THEN {hostname} ELSE Pass(it[n - 1])
    OBVIOUS
  <2> HIDE DEF F
  <2> QED
    BY <1>4, <2>1, <2>2
<1> QED
  BY <1>1, <1>5 DEF Pass

\* After as many passes as there are records nothing is left to add: each of them added a
\* name, or there was nothing to add before.
LEMMA OwnersAreClosed ==
    ASSUME NEW T, NEW q \in Seq(T), NEW hostname
    PROVE  LET owners == Owners(hostname, q) IN
           /\ hostname \in owners
           /\ Closed(owners, q)
           /\ \A C : hostname \in C /\ Closed(C, q) => owners \subseteq C
<1>1. PICK after : /\ after[0] = {hostname}
                   /\ \A n \in 1..Len(q) :
                          after[n] = Lists!FoldLeft(Follow, after[n - 1], q)
                   /\ Owners(hostname, q) = after[Len(q)]
  BY OwnersArePasses
<1>2. Len(q) \in Nat
  OBVIOUS
<1> DEFINE targets == {Normal(q[k].data) : k \in 1..Len(q)}
           names == {hostname} \cup targets
<1>3. IsFiniteSet(names) /\ Cardinality(names) <= Len(q) + 1 /\ Cardinality(names) \in Nat
  <2>1. IsFiniteSet(1..Len(q)) /\ Cardinality(1..Len(q)) = Len(q)
    <3>1. IsFiniteSet(1..Len(q)) /\ Cardinality(1..Len(q)) = IF 1 > Len(q) THEN 0 ELSE Len(q) - 1 + 1
      BY <1>2, FS_Interval
    <3> QED
      BY <1>2, <3>1
  <2> DEFINE f == [k \in 1..Len(q) |-> Normal(q[k].data)]
  <2>2. f \in Surjection(1..Len(q), targets)
    BY DEF Surjection
  <2>3. IsFiniteSet(targets) /\ Cardinality(targets) <= Cardinality(1..Len(q))
    <3> HIDE DEF f, targets
    <3> QED
      BY <2>1, <2>2, FS_Surjection
  <2> HIDE DEF targets
  <2>4. Cardinality(targets) \in Nat
    BY <2>3, FS_CardinalityType
  <2>5. IsFiniteSet(targets \cup {hostname})
        /\ Cardinality(targets \cup {hostname}) =
               IF hostname \in targets THEN Cardinality(targets) ELSE Cardinality(targets) + 1
    BY <2>3, FS_AddElement
  <2>6. names = targets \cup {hostname}
    OBVIOUS
  <2> HIDE DEF names
  <2>7. Cardinality(names) = Cardinality(targets) \/ Cardinality(names) = Cardinality(targets) + 1
    BY <2>5, <2>6
  <2> QED
    BY <1>2, <2>1, <2>3, <2>4, <2>5, <2>6, <2>7
<1>4. hostname \in names /\ Closed(names, q)
  BY DEF Closed
<1> HIDE DEF names
<1> DEFINE P(n) ==
               /\ hostname \in after[n] /\ after[n] \subseteq names
               /\ \A C : hostname \in C /\ Closed(C, q) => after[n] \subseteq C
               /\ Closed(after[n], q) \/ Cardinality(after[n]) >= n + 1
           N == {n \in Nat : n <= Len(q) => P(n)}
<1>5. P(0)
  <2>1. after[0] = {hostname}
    BY <1>1
  <2>2. Cardinality({hostname}) = 1
    BY FS_Singleton
  <2> HIDE DEF N
  <2> QED
    BY <1>4, <2>1, <2>2
<1>6. ASSUME NEW n \in Nat, n \in N PROVE n + 1 \in N
  <2> SUFFICES ASSUME n + 1 <= Len(q) PROVE P(n + 1)
    OBVIOUS
  <2>1. P(n)
    <3>1. n <= Len(q)
      BY <1>2
    <3> QED
      BY <1>6, <3>1
  <2>2. after[n + 1] = Lists!FoldLeft(Follow, after[n], q)
    <3>1. n + 1 \in 1..Len(q) /\ (n + 1) - 1 = n
      BY <1>2
    <3> QED
      BY <1>1, <3>1
  <2>3. /\ after[n] \subseteq after[n + 1]
        /\ \A k \in 1..Len(q) : Alias(q[k]) /\ Normal(q[k].owner) \in after[n] =>
                                    Normal(q[k].data) \in after[n + 1]
        /\ \A C : after[n] \subseteq C /\ Closed(C, q) => after[n + 1] \subseteq C
    BY <2>2, PassFollows
  <2>4. hostname \in after[n + 1] /\ after[n + 1] \subseteq names
    BY <1>4, <2>1, <2>3
  <2>5. \A C : hostname \in C /\ Closed(C, q) => after[n + 1] \subseteq C
    BY <2>1, <2>3
  <2>6. CASE Closed(after[n], q)
    <3>1. after[n + 1] = after[n]
      BY <2>3, <2>6
    <3> QED
      BY <2>4, <2>5, <2>6, <3>1
  <2>7. CASE ~Closed(after[n], q)
    <3>1. Cardinality(after[n]) >= n + 1
      BY <2>1, <2>7
    <3>2. after[n + 1] # after[n]
      BY <2>3, <2>7 DEF Closed
    <3>3. IsFiniteSet(after[n + 1]) /\ IsFiniteSet(after[n])
      BY <1>3, <2>1, <2>4, FS_Subset
    <3>4. /\ Cardinality(after[n]) <= Cardinality(after[n + 1])
          /\ Cardinality(after[n]) = Cardinality(after[n + 1]) => after[n] = after[n + 1]
      BY <2>3, <3>3, FS_Subset
    <3>5. Cardinality(after[n]) \in Nat /\ Cardinality(after[n + 1]) \in Nat
      BY <3>3, FS_CardinalityType
    <3>6. Cardinality(after[n + 1]) >= (n + 1) + 1
      BY <3>1, <3>2, <3>4, <3>5
    <3> QED
      BY <2>4, <2>5, <3>6
  <2> QED
    BY <2>6, <2>7
<1>7. Nat \subseteq N
  <2>1. 0 \in N
    BY <1>5
  <2> HIDE DEF N
  <2> QED
    BY <1>6, <2>1, SetInduction
<1>8. P(Len(q))
  BY <1>2, <1>7
<1>9. ASSUME Cardinality(after[Len(q)]) >= Len(q) + 1 PROVE Closed(after[Len(q)], q)
  <2>1. IsFiniteSet(after[Len(q)])
    BY <1>3, <1>8, FS_Subset
  <2>2. /\ Cardinality(after[Len(q)]) <= Cardinality(names)
        /\ Cardinality(after[Len(q)]) = Cardinality(names) => after[Len(q)] = names
        /\ Cardinality(after[Len(q)]) \in Nat
    BY <1>3, <1>8, <2>1, FS_Subset, FS_CardinalityType
  <2>3. after[Len(q)] = names
    BY <1>2, <1>3, <1>9, <2>2
  <2> QED
    BY <1>4, <2>3
<1> QED
  BY <1>1, <1>8, <1>9

\* Owners is what Reached says.
LEMMA OwnersAreReached ==
    ASSUME NEW T, NEW q \in Seq(T), NEW hostname
    PROVE  Owners(hostname, q) = Reached(hostname, q)
<1> DEFINE owners == Owners(hostname, q)
           names == {hostname} \cup {Normal(r.data) : r \in Aliases(q)}
           closed == {S \in SUBSET names :
                         /\ hostname \in S
                         /\ \A r \in Aliases(q) : Normal(r.owner) \in S => Normal(r.data) \in S}
<1>1. \A C : Closed(C, q) <=>
                 \A r \in Aliases(q) : Normal(r.owner) \in C => Normal(r.data) \in C
  <2>1. DOMAIN q = 1..Len(q)
    OBVIOUS
  <2>2. Aliases(q) = {q[k] : k \in {k \in 1..Len(q) : Alias(q[k])}}
    BY <2>1 DEF Aliases, Alias, Lists!ToSet
  <2> QED
    BY <2>2 DEF Closed
<1>2. /\ hostname \in owners
      /\ Closed(owners, q)
      /\ \A C : hostname \in C /\ Closed(C, q) => owners \subseteq C
  BY OwnersAreClosed
<1> HIDE DEF owners
<1>3. hostname \in names /\ Closed(names, q)
  BY <1>1
<1>4. owners \in closed
  <2>1. owners \subseteq names
    BY <1>2, <1>3
  <2> HIDE DEF names
  <2> QED
    BY <1>1, <1>2, <2>1
<1>5. \A S \in closed : owners \subseteq S
  BY <1>1, <1>2
<1>6. {n \in names : \A S \in closed : n \in S} = owners
  <2>1. owners \subseteq names
    BY <1>2, <1>3
  <2> HIDE DEF names, closed
  <2> QED
    BY <1>4, <1>5, <2>1
<1> QED
  BY <1>6 DEF Reached, owners

\* What is read of a response is what it tells, for all names, types and records.
LEMMA ResponsesAreRead ==
    ASSUME NEW hostname, NEW type, NEW x, x.records \in Seq(Lists!ToSet(x.records))
    PROVE  Answered(hostname, type, x) = Told(hostname, type, x)
<1> DEFINE owners == Owners(hostname, x.records)
           reached == Reached(hostname, x.records)
           values == Values(hostname, type, x.records)
           names == IF type = "CNAME" THEN {hostname} ELSE reached
           read == {r \in Lists!ToSet(x.records) : r.type \in {"CNAME", type}}
           mine == {r \in read : r.type = type /\ Normal(r.owner) \in names}
           readable == /\ \A r \in read : Normal(r.owner) # Garbled
                       /\ \A r \in mine : Normal(r.data) # Garbled
                       /\ Garbled \notin reached
<1>1. owners = reached
  <2>1. PICK T : x.records \in Seq(T)
    OBVIOUS
  <2> QED
    BY <2>1, OwnersAreReached
<1> HIDE DEF owners, reached
<1>2. Owned(hostname, type, x.records) = mine
  BY <1>1 DEF Owned, owners
<1>3. values = {Normal(r.data) : r \in mine}
  BY <1>2 DEF Values
<1>4. Throws(hostname, type, x.records) <=> ~readable
  <2>1. Throws(hostname, type, x.records) <=>
            \/ \E r \in Lists!ToSet(x.records) : r.type \in {"CNAME", type} /\ Normal(r.owner) = Garbled
            \/ Garbled \in reached
            \/ \E r \in mine : Normal(r.data) = Garbled
    <3> HIDE DEF mine
    <3> QED
      BY <1>1, <1>2 DEF Throws, owners
  <2> HIDE DEF mine
  <2> QED
    BY <2>1
<1>5. Told(hostname, type, x) =
          IF x.valid /\ x.rcode = "NOERROR" /\ readable THEN {Normal(r.data) : r \in mine} ELSE {}
  BY DEF Told, reached
<1> HIDE DEF readable, values, mine
<1>6. CASE ~(x.valid /\ x.rcode = "NOERROR")
  <2>1. Status(hostname, type, x) # "SUCCESS"
    BY <1>6 DEF Status
  <2> QED
    BY <1>5, <1>6, <2>1 DEF Answered
<1>7. CASE x.valid /\ x.rcode = "NOERROR"
  <2>1. Status(hostname, type, x) = IF ~readable THEN "ERROR"
                                    ELSE IF values = {} THEN "NODATA" ELSE "SUCCESS"
    BY <1>4, <1>7 DEF Status, values
  <2>2. Answered(hostname, type, x) = IF readable THEN values ELSE {}
    BY <2>1 DEF Answered, values
  <2> QED
    BY <1>3, <1>5, <1>7, <2>2
<1> QED
  BY <1>6, <1>7

\* What query() takes from each response of a resolver is what the response tells.
LEMMA RepliesAreRead ==
    \A x \in Responses : Answered(Hostname, Type, x) = Told(Hostname, Type, x)
BY ResponsesHaveRecords, ResponsesAreRead

-----------------------------------------------------------------------------
(****************************** the majority *******************************)

\* Two majorities of the same resolvers have one in common.
LEMMA MajoritiesMeet ==
    ASSUME NEW S, IsFiniteSet(S), NEW P \in SUBSET S, NEW Q \in SUBSET S,
           2 * Cardinality(P) > Cardinality(S), 2 * Cardinality(Q) > Cardinality(S)
    PROVE  P \cap Q # {}
<1>1. IsFiniteSet(P) /\ IsFiniteSet(Q)
  BY FS_Subset
<1>2. /\ Cardinality(P) \in Nat /\ Cardinality(Q) \in Nat /\ Cardinality(S) \in Nat
      /\ Cardinality(P \cap Q) \in Nat /\ Cardinality(P \cup Q) \in Nat
  BY <1>1, FS_CardinalityType, FS_Union, FS_Intersection
<1>3. Cardinality(P \cup Q) <= Cardinality(S)
  BY FS_Subset
<1>4. Cardinality(P \cup Q) = Cardinality(P) + Cardinality(Q) - Cardinality(P \cap Q)
  BY <1>1, FS_Union
<1>5. Cardinality(P \cap Q) # 0
  BY <1>2, <1>3, <1>4
<1> QED
  BY <1>5, FS_EmptySet

\* The resolvers of a configuration can be counted.
LEMMA ResolversAreFinite ==
    ASSUME NEW c \in Configs
    PROVE  /\ IsFiniteSet(c.resolvers)
           /\ \A Q \in SUBSET c.resolvers :
                  /\ IsFiniteSet(Q) /\ Cardinality(Q) \in Nat
                  /\ Cardinality(Q) <= Cardinality(c.resolvers)
                  /\ Cardinality(Q) = Cardinality(c.resolvers) => Q = c.resolvers
BY ConfigsNameResolvers, FS_Subset, FS_CardinalityType

\* consensus finds what more than half of the configured resolvers told, if they did, and
\* reports a dissent unless all of them did.
LEMMA ConsensusIsAgreed ==
    ASSUME NEW c \in Configs, NEW replies \in [c.resolvers -> Replies]
    PROVE  LET o == Consensus(c, Results(replies)) IN
           /\ o.value \in Answers
           /\ Agreed(c, replies) = IF o.value = NoValue THEN {} ELSE {o.value}
           /\ o.degraded \in BOOLEAN
           /\ ~o.degraded => \A r, q \in c.resolvers :
                                 replies[r].told = replies[q].told
                                 /\ replies[r].told # NoValue
<1> DEFINE results == Results(replies)
           told(v) == {r \in c.resolvers : replies[r].told = v}
           quorum(v) == 2 * Cardinality(told(v)) > Cardinality(c.resolvers)
<1>1. /\ DOMAIN results = c.resolvers
      /\ \A r \in c.resolvers : /\ results[r] = replies[r].told
                                /\ replies[r].told \in Answers
  <2>1. \A reply \in Replies : reply.answers = reply.told /\ reply.told \in Answers
    BY RepliesAreRead DEF Replies, Answers
  <2>2. \A r \in c.resolvers : replies[r] \in Replies
    OBVIOUS
  <2> QED
    BY <2>1, <2>2 DEF Results
<1>2. \A v : Supporters(results, v) = told(v)
  BY <1>1 DEF Supporters
<1>3. \A v : told(v) \in SUBSET c.resolvers
  OBVIOUS
<1>4. \A v : HasQuorum(c, results, v) <=> v # NoValue /\ quorum(v)
  <2> TAKE v
  <2>1. Supporters(results, v) = told(v)
    BY <1>2
  <2> HIDE DEF told, results
  <2> QED
    BY <2>1 DEF HasQuorum
<1>5. \A v : quorum(v) => told(v) # {}
  <2>1. ASSUME NEW v, quorum(v), told(v) = {} PROVE FALSE
    <3>1. Cardinality(told(v)) = 0 /\ Cardinality(c.resolvers) \in Nat
      BY <2>1, FS_EmptySet, ResolversAreFinite
    <3> QED
      BY <2>1, <3>1
  <2> QED
    BY <2>1
<1>6. Winners(c, results) = {v \in Answers \ {NoValue} : quorum(v)}
  BY <1>1, <1>4, <1>5 DEF Winners
<1>7. \A v \in Answers : quorum(v) <=>
          \E Q \in SUBSET c.resolvers : /\ 2 * Cardinality(Q) > Cardinality(c.resolvers)
                                        /\ \A r \in Q : replies[r].told = v
  <2> TAKE v \in Answers
  <2>1. ASSUME NEW Q \in SUBSET c.resolvers, 2 * Cardinality(Q) > Cardinality(c.resolvers),
               \A r \in Q : replies[r].told = v
        PROVE  quorum(v)
    <3>1. Q \in SUBSET told(v) /\ IsFiniteSet(told(v))
      BY <2>1, <1>3, ResolversAreFinite
    <3>2. /\ Cardinality(Q) <= Cardinality(told(v))
          /\ Cardinality(Q) \in Nat /\ Cardinality(told(v)) \in Nat
          /\ Cardinality(c.resolvers) \in Nat
      BY <3>1, FS_Subset, ResolversAreFinite
    <3> QED
      BY <2>1, <3>2
  <2>2. ASSUME quorum(v)
        PROVE  \E Q \in SUBSET c.resolvers : /\ 2 * Cardinality(Q) > Cardinality(c.resolvers)
                                             /\ \A r \in Q : replies[r].told = v
    BY <2>2, <1>3
  <2> QED
    BY <2>1, <2>2
<1>8. Agreed(c, replies) = Winners(c, results)
  BY <1>6, <1>7 DEF Agreed
<1>9. \A u, v \in Winners(c, results) : u = v
  <2> SUFFICES ASSUME NEW u \in Winners(c, results), NEW v \in Winners(c, results)
               PROVE  u = v
    OBVIOUS
  <2>1. quorum(u) /\ quorum(v)
    BY <1>6
  <2>2. told(u) \cap told(v) # {}
    BY <2>1, <1>3, ResolversAreFinite, MajoritiesMeet
  <2> QED
    BY <2>2
<1>10. CASE Winners(c, results) = {}
  <2>1. Consensus(c, results) = [value |-> NoValue, degraded |-> TRUE]
    BY <1>10 DEF Consensus
  <2>2. NoValue \in Answers
    BY DEF Answers
  <2> QED
    BY <1>8, <1>10, <2>1, <2>2
<1>11. CASE Winners(c, results) # {}
  <2> DEFINE winner == CHOOSE value \in Winners(c, results) : TRUE
  <2>1. winner \in Winners(c, results)
    BY <1>11
  <2> DEFINE o == Consensus(c, results)
  <2>2. /\ o.value = winner
        /\ o.degraded = (Cardinality(Supporters(results, winner)) # Cardinality(c.resolvers))
    <3> DEFINE dissent == Cardinality(Supporters(results, winner)) # Cardinality(c.resolvers)
    <3>1. o = [value |-> winner, degraded |-> dissent]
      BY <1>11, Zenon DEF Consensus
    <3> HIDE DEF o, dissent, winner
    <3>2. o.value = winner /\ o.degraded = dissent
      BY <3>1
    <3> QED
      BY <3>2 DEF dissent
  <2>3. winner \in Answers /\ winner # NoValue
    BY <2>1, <1>6
  <2>4. Agreed(c, replies) = {winner}
    BY <2>1, <1>8, <1>9
  <2>5. ~o.degraded => told(winner) = c.resolvers
    <3>1. Supporters(results, winner) = told(winner) /\ told(winner) \in SUBSET c.resolvers
      BY <1>2, <1>3
    <3> HIDE DEF o, winner, told, results
    <3>2. ~o.degraded => Cardinality(told(winner)) = Cardinality(c.resolvers)
      BY <2>2, <3>1
    <3> QED
      BY <3>1, <3>2, ResolversAreFinite
  <2>6. o.degraded \in BOOLEAN
    <3> HIDE DEF o, winner, results
    <3> QED
      BY <2>2
  <2> HIDE DEF o, winner
  <2>7. ~o.degraded => \A r, q \in c.resolvers : /\ replies[r].told = replies[q].told
                                                  /\ replies[r].told # NoValue
    BY <2>3, <2>5
  <2>8. o.value \in Answers /\ Agreed(c, replies) = IF o.value = NoValue THEN {} ELSE {o.value}
    BY <2>2, <2>3, <2>4
  <2> QED
    BY <2>6, <2>7, <2>8 DEF o
<1> QED
  BY <1>10, <1>11
-----------------------------------------------------------------------------
(******************************* a transition ******************************)

\* What thresholds may be.
LEMMA Thresholds ==
    ASSUME NEW c \in Configs
    PROVE  /\ c.failureThreshold \in Nat /\ c.failureThreshold >= 1
           /\ c.recoveryThreshold \in Nat /\ c.recoveryThreshold >= 1
           /\ c.changeThreshold \in Nat /\ c.changeThreshold >= 1
BY ConfigsHaveThresholds

\* A failed check: one failure more, no successes and no candidate, and the baseline stays.
LEMMA FailureMoves ==
    ASSUME NEW c \in Configs, NEW s \in States
    PROVE  LET t == AfterFailure(c, s) IN
           /\ t \in States
           /\ t.failures = AtMost(s.failures + 1, c.failureThreshold)
           /\ t.successes = 0 /\ t.candidate = NoValue /\ t.baseline = s.baseline
           /\ t.incidentOpen <=> s.incidentOpen \/ t.failures >= c.failureThreshold
           /\ t.status = "CRITICAL" <=> t.incidentOpen
           /\ t.status # "HEALTHY"
<1> DEFINE failures == AtMost(s.failures + 1, c.failureThreshold)
           open     == s.incidentOpen \/ failures >= c.failureThreshold
           status   == IF open THEN "CRITICAL" ELSE "WARNING"
           t        == AfterFailure(c, s)
<1>1. failures \in Nat /\ NoValue \in Answers
  BY Thresholds DEF States, AtMost, Answers
<1>2. open \in BOOLEAN /\ status \in Statuses
  BY DEF Statuses
<1>3. (status = "CRITICAL" <=> open) /\ status # "HEALTHY"
  OBVIOUS
<1>4. t = [s EXCEPT !.failures = failures, !.successes = 0, !.candidate = NoValue,
                    !.candidateCount = 0, !.incidentOpen = open, !.status = status]
  BY DEF AfterFailure
<1> HIDE DEF failures, open, status
<1> DEFINE counted == [s EXCEPT !.failures = failures, !.successes = 0,
                                !.candidate = NoValue, !.candidateCount = 0]
<1>5. /\ counted \in States
      /\ counted.failures = failures /\ counted.successes = 0
      /\ counted.candidate = NoValue /\ counted.baseline = s.baseline
  BY <1>1 DEF States
<1>6. t = [counted EXCEPT !.incidentOpen = open, !.status = status]
  BY <1>4 DEF States
<1> HIDE DEF counted, t
<1>7. /\ t \in States
      /\ t.failures = failures /\ t.successes = 0
      /\ t.candidate = NoValue /\ t.baseline = s.baseline
      /\ t.incidentOpen = open /\ t.status = status
  BY <1>2, <1>5, <1>6 DEF States
<1> QED
  BY <1>3, <1>7 DEF t, failures, open

\* A good check: one success more and no failures; in WATCH the candidate comes nearer to the
\* baseline or becomes it, and otherwise nothing is learnt.
LEMMA SuccessMoves ==
    ASSUME NEW c \in Configs, NEW s \in States,
           NEW o, o.value \in Answers, o.value # NoValue, o.degraded \in BOOLEAN
    PROVE  LET t == AfterSuccess(c, s, o)
               run == CandidateRun(s, o.value) IN
           /\ t \in States
           /\ t.failures = 0
           /\ t.successes = AtMost(s.successes + 1, c.recoveryThreshold)
           /\ t.incidentOpen <=> s.incidentOpen /\ t.successes < c.recoveryThreshold
           /\ c.mode # "WATCH" => t.baseline = s.baseline
           /\ c.mode = "WATCH" =>
                \/ /\ s.baseline = o.value \/ run >= c.changeThreshold
                   /\ t.baseline = o.value /\ t.candidate = NoValue
                \/ /\ s.baseline # o.value /\ run < c.changeThreshold
                   /\ t.baseline = s.baseline /\ t.candidate = o.value
                   /\ t.candidateCount = run
           /\ t.status = "CRITICAL" <=> t.incidentOpen
           /\ t.status = "HEALTHY" => ~o.degraded /\ t.candidate = NoValue
<1> DEFINE successes == AtMost(s.successes + 1, c.recoveryThreshold)
           open      == s.incidentOpen /\ successes < c.recoveryThreshold
           counted   == [s EXCEPT !.failures = 0, !.successes = successes,
                                  !.incidentOpen = open]
           run       == CandidateRun(s, o.value)
           watched   == IF c.mode = "WATCH" THEN Watched(c, counted, o.value) ELSE counted
           status    == SettledStatus(c, watched, o.degraded)
           t         == AfterSuccess(c, s, o)
<1>1. successes \in Nat /\ open \in BOOLEAN /\ NoValue \in Answers /\ run \in Nat
  BY Thresholds DEF States, AtMost, Answers, CandidateRun
<1>2. t = [watched EXCEPT !.status = status]
  <2>1. counted = [s EXCEPT !.failures = 0, !.successes = successes,
                            !.incidentOpen = @ /\ successes < c.recoveryThreshold]
    OBVIOUS
  <2> QED
    BY <2>1 DEF AfterSuccess
<1>3. (open <=> s.incidentOpen /\ successes < c.recoveryThreshold)
  OBVIOUS
<1> HIDE DEF t, status, successes, open
<1>4. /\ counted \in States
      /\ counted.failures = 0 /\ counted.successes = successes /\ counted.incidentOpen = open
      /\ counted.baseline = s.baseline /\ counted.candidate = s.candidate
      /\ counted.candidateCount = s.candidateCount
  BY <1>1 DEF States
<1>5. CandidateRun(counted, o.value) = run
  BY <1>4 DEF CandidateRun
<1> HIDE DEF counted, run
<1>6. /\ watched \in States
      /\ watched.failures = 0 /\ watched.successes = successes /\ watched.incidentOpen = open
      /\ c.mode # "WATCH" => watched.baseline = s.baseline
      /\ c.mode = "WATCH" =>
           \/ /\ s.baseline = o.value \/ run >= c.changeThreshold
              /\ watched.baseline = o.value /\ watched.candidate = NoValue
           \/ /\ s.baseline # o.value /\ run < c.changeThreshold
              /\ watched.baseline = s.baseline /\ watched.candidate = o.value
              /\ watched.candidateCount = run
  <2>1. CASE c.mode # "WATCH"
    BY <2>1, <1>4
  <2>2. CASE c.mode = "WATCH" /\ s.baseline = o.value
    <3>1. watched = [counted EXCEPT !.candidate = NoValue, !.candidateCount = 0]
      BY <2>2, <1>4 DEF Watched
    <3> HIDE DEF watched
    <3> QED
      BY <2>2, <3>1, <1>1, <1>4 DEF States
  <2>3. CASE c.mode = "WATCH" /\ s.baseline # o.value /\ run >= c.changeThreshold
    <3>1. watched = [counted EXCEPT !.baseline = o.value, !.candidate = NoValue,
                                    !.candidateCount = 0]
      BY <2>3, <1>4, <1>5 DEF Watched
    <3> HIDE DEF watched
    <3> QED
      BY <2>3, <3>1, <1>1, <1>4 DEF States
  <2>4. CASE c.mode = "WATCH" /\ s.baseline # o.value /\ ~(run >= c.changeThreshold)
    <3>1. watched = [counted EXCEPT !.candidate = o.value, !.candidateCount = run]
      BY <2>4, <1>4, <1>5 DEF Watched
    <3> HIDE DEF watched
    <3>2. run < c.changeThreshold
      BY <2>4, <1>1, Thresholds
    <3> QED
      BY <2>4, <3>1, <3>2, <1>1, <1>4 DEF States
  <2> QED
    BY <2>1, <2>2, <2>3, <2>4
<1> HIDE DEF watched
<1>7. /\ status \in Statuses
      /\ status = "CRITICAL" <=> open
      /\ status = "HEALTHY" => ~o.degraded /\ watched.candidate = NoValue
  <2>1. status = SettledStatus(c, watched, o.degraded) /\ watched.incidentOpen = open
    BY <1>6 DEF status
  <2>2. CASE open
    <3>1. status = "CRITICAL"
      BY <2>1, <2>2 DEF SettledStatus
    <3> QED
      BY <3>1, <2>2 DEF Statuses
  <2>3. CASE ~open
    <3>1. \/ status = "UNKNOWN"
          \/ status = IF o.degraded \/ watched.candidate # NoValue THEN "WARNING" ELSE "HEALTHY"
      BY <2>1, <2>3 DEF SettledStatus
    <3> QED
      BY <3>1, <2>3 DEF Statuses
  <2> QED
    BY <2>2, <2>3, <1>1
<1>8. /\ t \in States
      /\ t.failures = 0 /\ t.successes = successes /\ t.incidentOpen = open
      /\ t.baseline = watched.baseline /\ t.candidate = watched.candidate
      /\ t.candidateCount = watched.candidateCount /\ t.status = status
  BY <1>2, <1>6, <1>7 DEF States
<1> QED
  BY <1>3, <1>6, <1>7, <1>8 DEF t, successes, run
-----------------------------------------------------------------------------
(******************************* the history *******************************)

\* The history grows at its end only: what it says of the earlier checks stays.
LEMMA HistoryStays ==
    ASSUME Typed, NEW e \in Observations, config' = config,
           window' = [window EXCEPT !.seen = Append(@, e)]
    PROVE  /\ Length \in Nat /\ Length' = Length + 1
           /\ Seen(Length)' = e
           /\ window'.open = window.open /\ window'.baseline = window.baseline
           /\ \A i \in 1..Length : Seen(i)' = Seen(i)
           /\ \A i \in 1..Length : Bad(i)' <=> Bad(i)
<1>1. /\ Length \in Nat /\ window.seen \in Seq(Observations)
      /\ window'.seen = Append(window.seen, e)
      /\ window'.open = window.open /\ window'.baseline = window.baseline
  BY DEF Typed, Length
<1>2. /\ Length' = Length + 1
      /\ Seen(Length)' = e
      /\ \A i \in 1..Length : Seen(i)' = Seen(i)
  BY <1>1 DEF Length, Seen
<1>3. \A i \in 1..Length : Bad(i)' <=> Bad(i)
  BY <1>2 DEF Bad
<1> QED
  BY <1>1, <1>2, <1>3

\* So the streaks of earlier checks stay as well.
LEMMA StreaksStay ==
    ASSUME Length \in Nat, Length' = Length + 1,
           \A i \in 1..Length : Seen(i)' = Seen(i),
           \A i \in 1..Length : Bad(i)' <=> Bad(i)
    PROVE  \A i \in 1..Length : \A n \in Nat :
               /\ BadRun(i, n)' <=> BadRun(i, n)
               /\ GoodRun(i, n)' <=> GoodRun(i, n)
               /\ \A v : Steady(i, n, v)' <=> Steady(i, n, v)
<1> TAKE i \in 1..Length
<1> TAKE n \in Nat
<1>1. n <= i => (i - n + 1)..i \subseteq 1..Length
  OBVIOUS
<1>2. BadRun(i, n)' <=> BadRun(i, n)
  BY <1>1 DEF BadRun
<1>3. GoodRun(i, n)' <=> GoodRun(i, n)
  BY <1>1 DEF GoodRun
<1>4. \A v : Steady(i, n, v)' <=> Steady(i, n, v)
  BY <1>1 DEF Steady
<1> QED
  BY <1>2, <1>3, <1>4

\* A streak that ends with the new check is one that ended with the check before it, unless it
\* is the new check alone.
LEMMA StreaksGrow ==
    ASSUME Length \in Nat, Length' = Length + 1,
           \A i \in 1..Length : Seen(i)' = Seen(i),
           \A i \in 1..Length : Bad(i)' <=> Bad(i)
    PROVE  \A n \in Nat \ {0} :
               /\ BadRun(Length, n)' <=>
                      Bad(Length)' /\ (n = 1 \/ BadRun(Length, n - 1))
               /\ GoodRun(Length, n)' <=>
                      ~Bad(Length)' /\ (n = 1 \/ GoodRun(Length, n - 1))
               /\ \A v : Steady(Length, n, v)' <=>
                      Seen(Length)'.agreed = {v} /\ (n = 1 \/ Steady(Length, n - 1, v))
<1> TAKE n \in Nat \ {0}
<1> DEFINE m == Length + 1
<1>1. Length' = m /\ m \in Nat /\ n - 1 \in Nat
  OBVIOUS
<1>2. n <= m <=> n - 1 <= Length
  OBVIOUS
<1>3. (m - n + 1)..m = ((Length - (n - 1) + 1)..Length) \cup {m}
  OBVIOUS
<1>4. n - 1 <= Length => (Length - (n - 1) + 1)..Length \subseteq 1..Length
  OBVIOUS
<1>5. (Length - (1 - 1) + 1)..Length = {} /\ 1 - 1 <= Length
  OBVIOUS
<1>6. BadRun(Length, n)' <=> Bad(Length)' /\ (n = 1 \/ BadRun(Length, n - 1))
  BY <1>1, <1>2, <1>3, <1>4, <1>5 DEF BadRun
<1>7. GoodRun(Length, n)' <=> ~Bad(Length)' /\ (n = 1 \/ GoodRun(Length, n - 1))
  BY <1>1, <1>2, <1>3, <1>4, <1>5 DEF GoodRun
<1>8. \A v : Steady(Length, n, v)' <=>
                 Seen(Length)'.agreed = {v} /\ (n = 1 \/ Steady(Length, n - 1, v))
  BY <1>1, <1>2, <1>3, <1>4, <1>5 DEF Steady
<1> QED
  BY <1>6, <1>7, <1>8
-----------------------------------------------------------------------------
(********************************* a check *********************************)

\* The check that ends in the next state found o, of which the history notes e.
Checked(o, e) ==
    /\ o.value \in Answers /\ o.degraded \in BOOLEAN
    /\ e \in Observations
    /\ e.agreed = IF o.value = NoValue THEN {} ELSE {o.value}
    /\ ~o.degraded => e.unanimous
    /\ now' \in Nat /\ config' = config
    /\ window' = [window EXCEPT !.seen = Append(@, e)]
    /\ state' = [(IF Failed(config, o.value)
                  THEN AfterFailure(config, state) ELSE AfterSuccess(config, state, o))
                     EXCEPT !.lastCheckedAt = now']

\* A check is of that form.
LEMMA ChecksAreChecked ==
    ASSUME Typed, Check
    PROVE  \E o, e : Checked(o, e)
<1>1. PICK replies \in [config.resolvers -> Replies] :
          /\ now' = now + 1
          /\ state' = Evaluate(config, state, Results(replies), now')
          /\ window' = [window EXCEPT !.seen = Append(@,
                 [agreed    |-> Agreed(config, replies),
                  unanimous |-> \A r, q \in config.resolvers :
                                   replies[r].told = replies[q].told
                                   /\ replies[r].told # NoValue])]
          /\ config' = config
  BY DEF Check
<1> DEFINE unanimous == \A r, q \in config.resolvers :
                            replies[r].told = replies[q].told /\ replies[r].told # NoValue
           o == Consensus(config, Results(replies))
           e == [agreed |-> Agreed(config, replies), unanimous |-> unanimous]
<1>2. config \in Configs
  BY DEF Typed
<1>3. /\ o.value \in Answers /\ o.degraded \in BOOLEAN
      /\ Agreed(config, replies) = IF o.value = NoValue THEN {} ELSE {o.value}
      /\ ~o.degraded => unanimous
  BY <1>2, ConsensusIsAgreed
<1>4. state' = [(IF Failed(config, o.value)
                 THEN AfterFailure(config, state) ELSE AfterSuccess(config, state, o))
                    EXCEPT !.lastCheckedAt = now']
  BY <1>1 DEF Evaluate
<1>5. window' = [window EXCEPT !.seen = Append(@, e)]
  BY <1>1
<1>6. unanimous \in BOOLEAN
  OBVIOUS
<1> HIDE DEF unanimous
<1>7. e.agreed = Agreed(config, replies) /\ e.unanimous = unanimous
  OBVIOUS
<1>8. e \in [agreed : SUBSET (Answers \ {NoValue}), unanimous : BOOLEAN]
  BY <1>3, <1>6
<1> HIDE DEF o, e
<1>9. e \in Observations
  BY <1>3, <1>7, <1>8 DEF Observations
<1>10. now' \in Nat /\ config' = config
  BY <1>1 DEF Typed
<1>11. /\ e.agreed = IF o.value = NoValue THEN {} ELSE {o.value}
       /\ ~o.degraded => e.unanimous
  BY <1>3, <1>7
<1>12. Checked(o, e)
  BY <1>3, <1>4, <1>5, <1>9, <1>10, <1>11 DEF Checked
<1> QED
  BY <1>12

\* The new check is a bad one exactly if evaluate takes it for a failure.
LEMMA BadIsFailed ==
    ASSUME Typed, NEW o, NEW e, Checked(o, e)
    PROVE  /\ Length \in Nat /\ Length' = Length + 1
           /\ Seen(Length)' = e
           /\ window'.open = window.open /\ window'.baseline = window.baseline
           /\ \A i \in 1..Length : Seen(i)' = Seen(i)
           /\ \A i \in 1..Length : Bad(i)' <=> Bad(i)
           /\ Bad(Length)' <=> Failed(config, o.value)
           /\ \A v : Seen(Length)'.agreed = {v} <=> o.value # NoValue /\ v = o.value
<1>1. /\ Length \in Nat /\ Length' = Length + 1
      /\ Seen(Length)' = e
      /\ window'.open = window.open /\ window'.baseline = window.baseline
      /\ \A i \in 1..Length : Seen(i)' = Seen(i)
      /\ \A i \in 1..Length : Bad(i)' <=> Bad(i)
  BY HistoryStays DEF Checked
<1>2. Bad(Length)' <=> \/ e.agreed = {}
                       \/ config.mode = "EXPECTED"
                          /\ \E v \in e.agreed : IF config.match = "EXACT"
                                                 THEN v # config.expected
                                                 ELSE config.expected \ v # {}
  BY <1>1 DEF Bad, Checked
<1>3. e.agreed = IF o.value = NoValue THEN {} ELSE {o.value}
  BY DEF Checked
<1>4. Bad(Length)' <=> Failed(config, o.value)
  BY <1>2, <1>3 DEF Failed, Matches
<1>5. \A v : Seen(Length)'.agreed = {v} <=> o.value # NoValue /\ v = o.value
  BY <1>1, <1>3
<1> QED
  BY <1>1, <1>4, <1>5

\* What a check does to the stored state.
LEMMA CheckMoves ==
    ASSUME Typed, NEW o, NEW e, Checked(o, e)
    PROVE  /\ state' \in States
           /\ Failed(config, o.value) =>
                /\ state'.failures = AtMost(state.failures + 1, config.failureThreshold)
                /\ state'.successes = 0
                /\ state'.candidate = NoValue /\ state'.baseline = state.baseline
                /\ state'.incidentOpen <=>
                       state.incidentOpen \/ state'.failures >= config.failureThreshold
                /\ state'.status # "HEALTHY"
           /\ ~Failed(config, o.value) =>
                /\ state'.failures = 0
                /\ state'.successes = AtMost(state.successes + 1, config.recoveryThreshold)
                /\ state'.incidentOpen <=>
                       state.incidentOpen /\ state'.successes < config.recoveryThreshold
                /\ config.mode # "WATCH" => state'.baseline = state.baseline
                /\ config.mode = "WATCH" =>
                     LET run == CandidateRun(state, o.value) IN
                     \/ /\ state.baseline = o.value \/ run >= config.changeThreshold
                        /\ state'.baseline = o.value /\ state'.candidate = NoValue
                     \/ /\ state.baseline # o.value /\ run < config.changeThreshold
                        /\ state'.baseline = state.baseline /\ state'.candidate = o.value
                        /\ state'.candidateCount = run
                /\ state'.status = "HEALTHY" => ~o.degraded /\ state'.candidate = NoValue
           /\ state'.status = "CRITICAL" <=> state'.incidentOpen
<1>1. config \in Configs /\ state \in States
  BY DEF Typed
<1>2. now' \in Nat /\ o.value \in Answers /\ o.degraded \in BOOLEAN
  BY DEF Checked
<1> DEFINE same(t) == /\ state' \in States
                      /\ state'.failures = t.failures /\ state'.successes = t.successes
                      /\ state'.candidate = t.candidate /\ state'.baseline = t.baseline
                      /\ state'.candidateCount = t.candidateCount
                      /\ state'.incidentOpen = t.incidentOpen /\ state'.status = t.status
<1>3. ASSUME NEW t \in States, state' = [t EXCEPT !.lastCheckedAt = now'] PROVE same(t)
  BY <1>2, <1>3 DEF States
<1>4. CASE Failed(config, o.value)
  <2> DEFINE t == AfterFailure(config, state)
  <2>1. /\ t \in States
        /\ t.failures = AtMost(state.failures + 1, config.failureThreshold)
        /\ t.successes = 0 /\ t.candidate = NoValue /\ t.baseline = state.baseline
        /\ t.incidentOpen <=> state.incidentOpen \/ t.failures >= config.failureThreshold
        /\ t.status = "CRITICAL" <=> t.incidentOpen
        /\ t.status # "HEALTHY"
    BY <1>1, FailureMoves
  <2>2. state' = [t EXCEPT !.lastCheckedAt = now']
    BY <1>4 DEF Checked
  <2> HIDE DEF t
  <2>3. same(t)
    BY <1>3, <2>1, <2>2
  <2> QED
    BY <1>4, <2>1, <2>3
<1>5. CASE ~Failed(config, o.value)
  <2> DEFINE t == AfterSuccess(config, state, o)
             run == CandidateRun(state, o.value)
  <2>0. o.value # NoValue
    BY <1>5 DEF Failed
  <2>1. /\ t \in States
        /\ t.failures = 0
        /\ t.successes = AtMost(state.successes + 1, config.recoveryThreshold)
        /\ t.incidentOpen <=> state.incidentOpen /\ t.successes < config.recoveryThreshold
        /\ config.mode # "WATCH" => t.baseline = state.baseline
        /\ config.mode = "WATCH" =>
             \/ /\ state.baseline = o.value \/ run >= config.changeThreshold
                /\ t.baseline = o.value /\ t.candidate = NoValue
             \/ /\ state.baseline # o.value /\ run < config.changeThreshold
                /\ t.baseline = state.baseline /\ t.candidate = o.value
                /\ t.candidateCount = run
        /\ t.status = "CRITICAL" <=> t.incidentOpen
        /\ t.status = "HEALTHY" => ~o.degraded /\ t.candidate = NoValue
    BY <1>1, <1>2, <2>0, SuccessMoves
  <2>2. state' = [t EXCEPT !.lastCheckedAt = now']
    BY <1>5 DEF Checked
  <2> HIDE DEF t, run
  <2>3. same(t)
    BY <1>3, <2>1, <2>2
  <2> QED
    BY <1>5, <2>1, <2>3 DEF run
<1> QED
  BY <1>4, <1>5
\* How the streaks go on after a check.
LEMMA StreaksAfter ==
    ASSUME Typed, NEW o, NEW e, Checked(o, e)
    PROVE  \A n \in Nat \ {0} :
               /\ BadRun(Length, n)' <=>
                      Failed(config, o.value) /\ (n = 1 \/ BadRun(Length, n - 1))
               /\ GoodRun(Length, n)' <=>
                      ~Failed(config, o.value) /\ (n = 1 \/ GoodRun(Length, n - 1))
               /\ \A v : Steady(Length, n, v)' <=>
                      /\ o.value # NoValue /\ v = o.value
                      /\ n = 1 \/ Steady(Length, n - 1, v)
BY BadIsFailed, StreaksGrow

\* The counters go on counting.
LEMMA CheckKeepsStreaks ==
    ASSUME Inv, NEW o, NEW e, Checked(o, e)
    PROVE  Streaks'
<1> DEFINE f == config.failureThreshold
           r == config.recoveryThreshold
<1>1. Typed /\ Streaks /\ config' = config
  BY DEF Inv, Checked
<1>2. f \in Nat /\ f >= 1 /\ r \in Nat /\ r >= 1
  BY <1>1, Thresholds DEF Typed
<1>3. state.failures \in Nat /\ state.successes \in Nat
  BY <1>1 DEF Typed, States
<1>4. \A n \in 1..f : n <= state.failures <=> BadRun(Length, n)
  BY <1>1 DEF Streaks
<1>5. \A n \in 1..r : n <= state.successes <=> GoodRun(Length, n)
  BY <1>1 DEF Streaks
<1> HIDE DEF f, r
<1>6. CASE Failed(config, o.value)
  <2>1. state'.failures = AtMost(state.failures + 1, f) /\ state'.successes = 0
    BY <1>1, <1>6, CheckMoves DEF f
  <2>2. ASSUME NEW n \in 1..f PROVE n <= state'.failures <=> BadRun(Length, n)'
    <3>1. BadRun(Length, n)' <=> n = 1 \/ BadRun(Length, n - 1)
      BY <1>1, <1>6, StreaksAfter
    <3>2. n # 1 => n - 1 \in 1..f
      BY <1>2
    <3>3. BadRun(Length, n)' <=> n = 1 \/ n - 1 <= state.failures
      BY <1>4, <3>1, <3>2
    <3>4. n <= state'.failures <=> n = 1 \/ n - 1 <= state.failures
      BY <2>1, <1>2, <1>3 DEF AtMost
    <3> QED
      BY <3>3, <3>4
  <2>3. ASSUME NEW n \in 1..r PROVE n <= state'.successes <=> GoodRun(Length, n)'
    <3>1. ~GoodRun(Length, n)'
      BY <1>1, <1>6, StreaksAfter
    <3> QED
      BY <2>1, <3>1
  <2>4. state'.failures <= f /\ state'.successes <= r
    BY <2>1, <1>2, <1>3 DEF AtMost
  <2> QED
    BY <1>1, <2>2, <2>3, <2>4 DEF Streaks, f, r
<1>7. CASE ~Failed(config, o.value)
  <2>1. state'.successes = AtMost(state.successes + 1, r) /\ state'.failures = 0
    BY <1>1, <1>7, CheckMoves DEF r
  <2>2. ASSUME NEW n \in 1..r PROVE n <= state'.successes <=> GoodRun(Length, n)'
    <3>1. GoodRun(Length, n)' <=> n = 1 \/ GoodRun(Length, n - 1)
      BY <1>1, <1>7, StreaksAfter
    <3>2. n # 1 => n - 1 \in 1..r
      BY <1>2
    <3>3. GoodRun(Length, n)' <=> n = 1 \/ n - 1 <= state.successes
      BY <1>5, <3>1, <3>2
    <3>4. n <= state'.successes <=> n = 1 \/ n - 1 <= state.successes
      BY <2>1, <1>2, <1>3 DEF AtMost
    <3> QED
      BY <3>3, <3>4
  <2>3. ASSUME NEW n \in 1..f PROVE n <= state'.failures <=> BadRun(Length, n)'
    <3>1. ~BadRun(Length, n)'
      BY <1>1, <1>7, StreaksAfter
    <3> QED
      BY <2>1, <3>1
  <2>4. state'.failures <= f /\ state'.successes <= r
    BY <2>1, <1>2, <1>3 DEF AtMost
  <2> QED
    BY <1>1, <2>2, <2>3, <2>4 DEF Streaks, f, r
<1> QED
  BY <1>6, <1>7

\* A bad check can only open an incident and a good one only resolve it; the history says so
\* of the same checks.
LEMMA CheckKeepsIncident ==
    ASSUME Inv, NEW o, NEW e, Checked(o, e)
    PROVE  IncidentFollowsHistory'
<1>0. PICK f, r, m : /\ f = config.failureThreshold /\ r = config.recoveryThreshold
                     /\ m = Length + 1
  OBVIOUS
<1>1. Typed /\ IncidentFollowsHistory /\ config' = config /\ Streaks'
  BY CheckKeepsStreaks DEF Inv, Checked
<1>2. f \in Nat /\ f >= 1 /\ r \in Nat /\ r >= 1
  BY <1>0, <1>1, Thresholds DEF Typed
<1>3. Length \in Nat /\ Length' = m /\ m \in Nat /\ window'.open = window.open
  BY <1>0, <1>1, BadIsFailed
<1>4. \A i \in 1..Length : /\ BadRun(i, f)' <=> BadRun(i, f)
                           /\ GoodRun(i, r)' <=> GoodRun(i, r)
  BY <1>1, <1>2, BadIsFailed, StreaksStay
<1>5. state'.failures \in Nat /\ state'.successes \in Nat
  BY <1>1, CheckMoves DEF States
<1>6. /\ BadRun(Length, f)' <=> state'.failures >= f
      /\ GoodRun(Length, r)' <=> ~(state'.successes < r)
  <2>1. /\ \A n \in 1..f : n <= state'.failures <=> BadRun(Length, n)'
        /\ \A n \in 1..r : n <= state'.successes <=> GoodRun(Length, n)'
    BY <1>0, <1>1 DEF Streaks
  <2>2. f \in 1..f /\ r \in 1..r
    BY <1>2
  <2>3. /\ f <= state'.failures <=> BadRun(Length, f)'
        /\ r <= state'.successes <=> GoodRun(Length, r)'
    BY <1>1, <2>1, <2>2
  <2>4. /\ f <= state'.failures <=> state'.failures >= f
        /\ r <= state'.successes <=> ~(state'.successes < r)
    BY <1>2, <1>5
  <2> QED
    BY <2>3, <2>4
<1>7. /\ OpenedAt \subseteq 0..Length
      /\ OpenedAt' = OpenedAt \cup (IF BadRun(Length, f)' THEN {m} ELSE {})
  <2>1. 1..m = (1..Length) \cup {m}
    BY <1>0, <1>3
  <2> DEFINE atReset == IF window.open THEN {0} ELSE {}
  <2>2. OpenedAt = {i \in 1..Length : BadRun(i, f)} \cup atReset
    BY <1>0 DEF OpenedAt
  <2>3. OpenedAt' = {i \in 1..m : BadRun(i, f)'} \cup atReset
    BY <1>0, <1>1, <1>3 DEF OpenedAt
  <2>4. {i \in 1..m : BadRun(i, f)'} =
           {i \in 1..Length : BadRun(i, f)} \cup (IF BadRun(m, f)' THEN {m} ELSE {})
    BY <2>1, <1>4
  <2>5. BadRun(m, f)' <=> BadRun(Length, f)'
    BY <1>3 DEF BadRun
  <2>6. atReset \subseteq {0} /\ 0 \in 0..Length
    BY <1>3
  <2> QED
    BY <2>2, <2>3, <2>4, <2>5, <2>6
<1>8. CASE Failed(config, o.value)
  <2>1. state'.incidentOpen <=> state.incidentOpen \/ BadRun(Length, f)'
    BY <1>0, <1>1, <1>6, <1>8, CheckMoves
  <2>2. ~GoodRun(m, r)'
    BY <1>1, <1>2, <1>3, <1>8, StreaksAfter DEF GoodRun
  <2>3. ExpectedOpen' <=> \E i \in OpenedAt' : \A j \in (i + 1)..m : ~GoodRun(j, r)'
    BY <1>0, <1>1, <1>3 DEF ExpectedOpen
  <2>4. ASSUME NEW i \in OpenedAt
        PROVE  (\A j \in (i + 1)..m : ~GoodRun(j, r)')
                 <=> (\A j \in (i + 1)..Length : ~GoodRun(j, r))
    <3>1. (i + 1)..m = ((i + 1)..Length) \cup {m} /\ (i + 1)..Length \subseteq 1..Length
      BY <1>0, <1>3, <1>7
    <3> QED
      BY <3>1, <2>2, <1>4
  <2>5. (m + 1)..m = {}
    BY <1>3
  <2>6. ExpectedOpen' <=> ExpectedOpen \/ BadRun(Length, f)'
    <3>1. ExpectedOpen <=> \E i \in OpenedAt : \A j \in (i + 1)..Length : ~GoodRun(j, r)
      BY <1>0 DEF ExpectedOpen
    <3>2. CASE BadRun(Length, f)'
      BY <3>2, <2>3, <2>5, <1>7
    <3>3. CASE ~BadRun(Length, f)'
      BY <3>1, <3>3, <2>3, <2>4, <1>7
    <3> QED
      BY <3>2, <3>3
  <2> QED
    BY <1>1, <2>1, <2>6 DEF IncidentFollowsHistory
<1>9. CASE ~Failed(config, o.value)
  <2>1. state'.incidentOpen <=> state.incidentOpen /\ ~GoodRun(Length, r)'
    BY <1>0, <1>1, <1>6, <1>9, CheckMoves
  <2>2. ~BadRun(Length, f)'
    BY <1>1, <1>2, <1>9, StreaksAfter
  <2>3. ExpectedOpen' <=> \E i \in OpenedAt : \A j \in (i + 1)..m : ~GoodRun(j, r)'
    BY <1>0, <1>1, <1>3, <1>7, <2>2 DEF ExpectedOpen
  <2>4. ASSUME NEW i \in OpenedAt
        PROVE  (\A j \in (i + 1)..m : ~GoodRun(j, r)')
                 <=> (\A j \in (i + 1)..Length : ~GoodRun(j, r)) /\ ~GoodRun(m, r)'
    <3>1. (i + 1)..m = ((i + 1)..Length) \cup {m} /\ (i + 1)..Length \subseteq 1..Length
      BY <1>0, <1>3, <1>7
    <3> QED
      BY <3>1, <1>4
  <2>5. GoodRun(m, r)' <=> GoodRun(Length, r)'
    BY <1>3 DEF GoodRun
  <2>6. ExpectedOpen' <=> ExpectedOpen /\ ~GoodRun(Length, r)'
    <3>1. ExpectedOpen <=> \E i \in OpenedAt : \A j \in (i + 1)..Length : ~GoodRun(j, r)
      BY <1>0 DEF ExpectedOpen
    <3> QED
      BY <3>1, <2>3, <2>4, <2>5
  <2> QED
    BY <1>1, <2>1, <2>6 DEF IncidentFollowsHistory
<1> QED
  BY <1>8, <1>9
\* A run of a value that a step ends has shorter runs at its end.
LEMMA SteadyIsSteady ==
    ASSUME Length' \in Nat, NEW v, NEW n \in Nat, NEW k \in Nat, k <= n, Steady(Length, n, v)'
    PROVE  Steady(Length, k, v)'
<1>1. PICK m \in Nat : m = Length'
  OBVIOUS
<1>2. n <= m /\ \A j \in (m - n + 1)..m : Seen(j)'.agreed = {v}
  BY <1>1 DEF Steady
<1>3. k <= m /\ (m - k + 1)..m \subseteq (m - n + 1)..m
  BY <1>2
<1>4. \A j \in (m - k + 1)..m : Seen(j)'.agreed = {v}
  BY <1>2, <1>3
<1> QED
  BY <1>1, <1>3, <1>4 DEF Steady

\* In WATCH, the check ends a run of changeThreshold equal values exactly if evaluate has
\* counted so many of them, or the value is the baseline already.
LEMMA CandidateIsCounted ==
    ASSUME Inv, NEW o, NEW e, Checked(o, e), config.mode = "WATCH", o.value # NoValue,
           state.baseline # o.value
    PROVE  \E k \in Nat \ {0} :
               /\ k = CandidateRun(state, o.value)
               /\ Steady(Length, k, o.value)'
               /\ \A n \in 1..config.changeThreshold :
                      Steady(Length, n, o.value)' => n <= k
<1>0. PICK v, k : v = o.value /\ k = CandidateRun(state, o.value)
  OBVIOUS
<1>1. Typed /\ Candidates /\ config' = config /\ v \in Answers
  BY <1>0 DEF Inv, Checked
<1>2. config.changeThreshold \in Nat
  BY <1>1, Thresholds DEF Typed
<1>3. state.candidateCount \in Nat
  BY <1>1 DEF Typed, States
<1>4. k = IF state.candidate = v THEN state.candidateCount + 1 ELSE 1
  BY <1>0 DEF CandidateRun
<1>5. k \in Nat \ {0}
  BY <1>3, <1>4
<1>6. \A n \in Nat \ {0} : Steady(Length, n, v)' <=> (n = 1 \/ Steady(Length, n - 1, v))
  BY <1>0, <1>1, StreaksAfter
<1>7. Steady(Length, k, v)'
  <2>1. CASE state.candidate = v
    <3>1. Steady(Length, state.candidateCount, v)
      BY <2>1, <1>0, <1>1 DEF Candidates
    <3>2. k - 1 = state.candidateCount
      BY <2>1, <1>3, <1>4
    <3>3. Steady(Length, k - 1, v)
      BY <3>1, <3>2
    <3> QED
      BY <3>3, <1>5, <1>6
  <2>2. CASE state.candidate # v
    BY <2>2, <1>4, <1>6
  <2> QED
    BY <2>1, <2>2
<1>8. ASSUME NEW n \in 1..config.changeThreshold, Steady(Length, n, v)'
      PROVE  n <= k
  <2>1. CASE n = 1
    BY <2>1, <1>5
  <2>2. CASE n # 1
    <3>1. n \in Nat \ {0} /\ n - 1 \in 1..config.changeThreshold
      BY <2>2, <1>2
    <3>2. Steady(Length, n - 1, v)
      BY <2>2, <3>1, <1>6, <1>8
    <3>3. v \in Answers \ {NoValue} /\ v # state.baseline
      BY <1>0, <1>1
    <3>4. state.candidate = v /\ n - 1 <= state.candidateCount
      BY <1>1, <3>1, <3>2, <3>3 DEF Candidates
    <3> QED
      BY <3>1, <3>4, <1>3, <1>4
  <2> QED
    BY <2>1, <2>2
<1> QED
  BY <1>0, <1>5, <1>7, <1>8
\* The candidate is followed from check to check.
LEMMA CheckKeepsCandidates ==
    ASSUME Inv, NEW o, NEW e, Checked(o, e)
    PROVE  Candidates'
<1> SUFFICES ASSUME config.mode = "WATCH"
             PROVE  /\ state'.candidate # NoValue =>
                           Steady(Length, state.candidateCount, state.candidate)'
                    /\ \A v \in Answers \ {NoValue} : \A n \in 1..config.changeThreshold :
                           v # state'.baseline /\ Steady(Length, n, v)' =>
                               state'.candidate = v /\ n <= state'.candidateCount
  BY DEF Candidates, Checked
<1>1. Typed
  BY DEF Inv
<1>2. \A v, n : n \in 1..config.changeThreshold /\ Steady(Length, n, v)' =>
                    o.value # NoValue /\ v = o.value
  BY <1>1, StreaksAfter
<1>3. CASE o.value = NoValue
  <2>1. state'.candidate = NoValue
    BY <1>1, <1>3, CheckMoves DEF Failed
  <2> QED
    BY <2>1, <1>2, <1>3
<1>4. CASE o.value # NoValue
  <2>0. ~Failed(config, o.value)
    BY <1>4 DEF Failed
  <2>1. CASE state'.baseline = o.value /\ state'.candidate = NoValue
    BY <2>1, <1>2
  <2>2. CASE ~(state'.baseline = o.value /\ state'.candidate = NoValue)
    <3>1. /\ state.baseline # o.value
          /\ state'.candidate = o.value
          /\ state'.candidateCount = CandidateRun(state, o.value)
      BY <2>0, <2>2, <1>1, CheckMoves
    <3>2. PICK k \in Nat \ {0} :
              /\ k = CandidateRun(state, o.value)
              /\ Steady(Length, k, o.value)'
              /\ \A n \in 1..config.changeThreshold : Steady(Length, n, o.value)' => n <= k
      BY <3>1, <1>4, CandidateIsCounted
    <3>3. Steady(Length, state.candidateCount, state.candidate)' <=> Steady(Length, k, o.value)'
      BY <3>1, <3>2 DEF Steady
    <3> QED
      BY <3>1, <3>2, <3>3, <1>2
  <2> QED
    BY <2>1, <2>2
<1> QED
  BY <1>3, <1>4

\* The baseline changes at the end of a run of changeThreshold checks and never else.
LEMMA CheckKeepsBaseline ==
    ASSUME Inv, NEW o, NEW e, Checked(o, e)
    PROVE  BaselineFollowsHistory'
<1>0. PICK n, m, b : /\ n = config.changeThreshold /\ m = Length + 1
                     /\ b = state'.baseline
  OBVIOUS
<1>1. /\ Typed /\ BaselineFollowsHistory /\ config' = config
      /\ config.mode = "WATCH" \/ config.mode # "WATCH"
  BY DEF Inv, Checked
<1>2. n \in Nat \ {0}
  BY <1>0, <1>1, Thresholds DEF Typed
<1>3. Length \in Nat /\ Length' = m /\ m \in Nat /\ window'.baseline = window.baseline
  BY <1>0, <1>1, BadIsFailed
<1>4. \A i \in 1..Length : \A v : Steady(i, n, v)' <=> Steady(i, n, v)
  BY <1>1, <1>2, BadIsFailed, StreaksStay
<1>5. CASE config.mode # "WATCH"
  <2>1. state'.baseline = state.baseline
    BY <1>1, <1>5, CheckMoves
  <2> QED
    BY <2>1, <1>1, <1>3, <1>5 DEF BaselineFollowsHistory
<1>6. CASE config.mode = "WATCH"
  <2>1. BaselineFollowsHistory' <=> ExpectedBaseline(b)'
    BY <1>0, <1>1, <1>6 DEF BaselineFollowsHistory, ExpectedBaseline
  <2>2. \A v : /\ SettledAt(v) \subseteq 1..Length
               /\ SettledAt(v)' = SettledAt(v) \cup
                                     (IF Steady(Length, n, v)' THEN {m} ELSE {})
    <3> TAKE v
    <3>1. SettledAt(v) = {i \in 1..Length : Steady(i, n, v)}
      BY <1>0 DEF SettledAt
    <3>2. SettledAt(v)' = {i \in 1..m : Steady(i, n, v)'}
      BY <1>0, <1>1, <1>3 DEF SettledAt
    <3>3. 1..m = (1..Length) \cup {m}
      BY <1>0, <1>3
    <3>4. Steady(m, n, v)' <=> Steady(Length, n, v)'
      BY <1>3 DEF Steady
    <3> QED
      BY <3>1, <3>2, <3>3, <3>4, <1>4
  <2>3. \A v : Steady(Length, n, v)' => o.value # NoValue /\ v = o.value
    BY <1>1, <1>2, StreaksAfter
  <2>4. CASE Steady(Length, n, o.value)'
    <3>1. o.value # NoValue /\ ~Failed(config, o.value)
      BY <2>3, <2>4, <1>6 DEF Failed
    <3>2. b = o.value
      <4>1. CASE state.baseline = o.value
        BY <4>1, <3>1, <1>0, <1>1, <1>6, CheckMoves
      <4>2. CASE state.baseline # o.value
        <5>1. PICK k \in Nat \ {0} :
                  /\ k = CandidateRun(state, o.value)
                  /\ \A j \in 1..config.changeThreshold : Steady(Length, j, o.value)' => j <= k
          BY <4>2, <3>1, <1>6, CandidateIsCounted
        <5>2. n <= k
          BY <5>1, <2>4, <1>0, <1>2
        <5>3. ~(k < n)
          BY <5>2, <1>2
        <5> QED
          BY <5>1, <5>3, <3>1, <1>0, <1>1, <1>6, CheckMoves
      <4> QED
        BY <4>1, <4>2
    <3>3. m \in SettledAt(b)'
      BY <3>2, <2>2, <2>4
    <3>4. \A u \in Answers : \A j \in SettledAt(u)' : j <= m
      BY <2>2, <1>0, <1>3
    <3>5. ExpectedBaseline(b)'
      BY <3>3, <3>4, <1>1, <1>6 DEF ExpectedBaseline
    <3> QED
      BY <3>5, <2>1
  <2>5. CASE ~Steady(Length, n, o.value)'
    <3>1. \A v : SettledAt(v)' = SettledAt(v)
      BY <2>2, <2>3, <2>5
    <3>2. b = state.baseline
      <4>1. CASE Failed(config, o.value)
        BY <4>1, <1>0, <1>1, CheckMoves
      <4>2. CASE state.baseline = o.value
        BY <4>2, <1>0, <1>1, <1>6, CheckMoves
      <4>3. CASE ~Failed(config, o.value) /\ state.baseline # o.value
        <5>0. o.value # NoValue
          BY <4>3 DEF Failed
        <5>1. PICK k \in Nat \ {0} : /\ k = CandidateRun(state, o.value)
                                     /\ Steady(Length, k, o.value)'
          BY <5>0, <4>3, <1>6, CandidateIsCounted
        <5>2. k < n
          <6> SUFFICES ASSUME n <= k PROVE FALSE
            BY <1>2
          <6>1. Steady(Length, n, o.value)'
            BY <5>1, <1>2, <1>3, SteadyIsSteady
          <6> QED
            BY <6>1, <2>5
        <5>3. ~(k >= n)
          BY <5>2, <1>2
        <5> QED
          BY <5>1, <5>3, <4>3, <1>0, <1>1, <1>6, CheckMoves
      <4> QED
        BY <4>1, <4>2, <4>3
    <3>3. ExpectedBaseline(state.baseline)
      BY <1>1, <1>6 DEF BaselineFollowsHistory
    <3>4. ExpectedBaseline(b)
      BY <3>2, <3>3
    <3>5. ExpectedBaseline(b)'
      BY <3>1, <3>4, <1>1, <1>3 DEF ExpectedBaseline
    <3> QED
      BY <3>5, <2>1
  <2> QED
    BY <2>4, <2>5
<1> QED
  BY <1>1, <1>5, <1>6

\* The status says whether an incident is open, and a monitor is healthy only after a check
\* that everybody answered alike, as the baseline has it.
LEMMA CheckKeepsReported ==
    ASSUME Inv, NEW o, NEW e, Checked(o, e)
    PROVE  Reported'
<1>1. Typed /\ config' = config
  BY DEF Inv, Checked
<1>2. state'.status = "CRITICAL" <=> state'.incidentOpen
  BY <1>1, CheckMoves
<1>3. ASSUME state'.status = "HEALTHY"
      PROVE  /\ (Length > 0 /\ ~Bad(Length) /\ Seen(Length).unanimous)'
             /\ config.mode = "WATCH" => Seen(Length)'.agreed = {state'.baseline}
  <2>1. ~Failed(config, o.value)
    BY <1>1, <1>3, CheckMoves
  <2>2. o.value # NoValue /\ ~o.degraded /\ state'.candidate = NoValue
    BY <2>1, <1>1, <1>3, CheckMoves DEF Failed
  <2>3. config.mode = "WATCH" => state'.baseline = o.value
    BY <2>1, <2>2, <1>1, CheckMoves
  <2>4. /\ Length \in Nat /\ Length' = Length + 1
        /\ ~Bad(Length)' /\ Seen(Length)' = e
        /\ Seen(Length)'.agreed = {o.value}
    BY <2>1, <2>2, <1>1, BadIsFailed
  <2>5. e.unanimous
    BY <2>2 DEF Checked
  <2> QED
    BY <2>3, <2>4, <2>5
<1> QED
  BY <1>1, <1>2, <1>3 DEF Reported
-----------------------------------------------------------------------------
(********************************* a reset *********************************)

\* A monitor whose history starts: it is new, or an operator has changed it.
Fresh ==
    /\ config \in Configs /\ state \in States /\ now \in Nat
    /\ window = WindowFrom(state)
    /\ state.failures = 0 /\ state.successes = 0 /\ state.candidate = NoValue
    /\ state.status = "CRITICAL" <=> state.incidentOpen
    /\ state.status # "HEALTHY"

\* A history that starts has nothing to say.
LEMMA FreshIsInv == Fresh => Inv
<1> SUFFICES ASSUME Fresh PROVE Inv
  OBVIOUS
<1>1. /\ config \in Configs /\ state \in States
      /\ window.open = state.incidentOpen /\ window.baseline = state.baseline
      /\ window.seen = <<>>
      /\ state.failures = 0 /\ state.successes = 0 /\ state.candidate = NoValue
  BY DEF Fresh, WindowFrom
<1>2. Length = 0
  BY <1>1 DEF Length
<1>3. Typed
  <2>1. state.incidentOpen \in BOOLEAN /\ state.baseline \in Answers
    BY <1>1 DEF States
  <2>2. <<>> \in Seq(Observations)
    OBVIOUS
  <2>3. window = [open |-> state.incidentOpen, baseline |-> state.baseline, seen |-> <<>>]
    BY DEF Fresh, WindowFrom
  <2>4. window \in [open : BOOLEAN, baseline : Answers, seen : Seq(Observations)]
    BY <2>1, <2>2, <2>3
  <2> QED
    BY <2>4 DEF Typed, Fresh
<1>4. Streaks
  BY <1>1, <1>2, Thresholds DEF Streaks, BadRun, GoodRun
<1>5. Candidates
  BY <1>1, <1>2, Thresholds DEF Candidates, Steady
<1>6. Reported
  BY DEF Reported, Fresh
<1>7. IncidentFollowsHistory
  <2>1. OpenedAt = IF state.incidentOpen THEN {0} ELSE {}
    BY <1>1, <1>2 DEF OpenedAt
  <2>2. \A i \in OpenedAt : (i + 1)..Length = {}
    BY <1>2, <2>1
  <2>3. ExpectedOpen <=> state.incidentOpen
    BY <2>1, <2>2 DEF ExpectedOpen
  <2> QED
    BY <2>3 DEF IncidentFollowsHistory
<1>8. BaselineFollowsHistory
  <2>1. \A u : SettledAt(u) = {}
    BY <1>2 DEF SettledAt
  <2> QED
    BY <1>1, <2>1 DEF BaselineFollowsHistory, ExpectedBaseline
<1> QED
  BY <1>3, <1>4, <1>5, <1>6, <1>7, <1>8 DEF Inv

\* A new monitor has nothing that could be followed.
LEMMA InitialIsFresh ==
    /\ InitialState \in States
    /\ InitialState.failures = 0 /\ InitialState.successes = 0
    /\ InitialState.candidate = NoValue
    /\ InitialState.status = "UNKNOWN" /\ InitialState.incidentOpen = FALSE
<1>1. NoValue \in Answers /\ "UNKNOWN" \in Statuses
  BY DEF Answers, Statuses
<1> QED
  BY <1>1 DEF InitialState, States

\* Changing the thresholds keeps an open incident and the baseline, and nothing else.
LEMMA ResetIsFresh ==
    ASSUME NEW s \in States
    PROVE  LET t == ResetStreaks(s) IN
           /\ t \in States
           /\ t.failures = 0 /\ t.successes = 0 /\ t.candidate = NoValue
           /\ t.incidentOpen = s.incidentOpen /\ t.baseline = s.baseline
           /\ t.status = "CRITICAL" <=> t.incidentOpen
           /\ t.status # "HEALTHY"
<1> DEFINE status == IF s.incidentOpen THEN "CRITICAL" ELSE "UNKNOWN"
           t      == ResetStreaks(s)
<1>1. /\ status \in Statuses /\ status # "HEALTHY" /\ NoValue \in Answers
      /\ status = "CRITICAL" <=> s.incidentOpen
  BY DEF Statuses, Answers
<1>2. t = [s EXCEPT !.failures = 0, !.successes = 0, !.candidate = NoValue,
                    !.candidateCount = 0, !.status = status]
  BY DEF ResetStreaks
<1> HIDE DEF status, t
<1>3. /\ t \in States /\ t.failures = 0 /\ t.successes = 0 /\ t.candidate = NoValue
      /\ t.incidentOpen = s.incidentOpen /\ t.baseline = s.baseline /\ t.status = status
  BY <1>1, <1>2 DEF States
<1> QED
  BY <1>1, <1>3 DEF t

-----------------------------------------------------------------------------
(****************************** the theorems *******************************)

\* The invariant holds at the start and after every check, retiming and redefinition.
LEMMA InvHolds ==
    Spec => []Inv
<1>1. Init => Inv
  <2>1. Init => Fresh
    BY InitialIsFresh DEF Init, Fresh
  <2> QED
    BY <2>1, FreshIsInv
<1>2. Fresh' => Inv'
  BY FreshIsInv, PTL
<1>3. Inv /\ [Next]_vars => Inv'
  <2> SUFFICES ASSUME Inv, [Next]_vars PROVE Inv'
    OBVIOUS
  <2>1. Typed
    BY DEF Inv
  <2>2. CASE Check
    <3>1. PICK o, e : Checked(o, e)
      BY <2>1, <2>2, ChecksAreChecked
    <3>2. Typed'
      <4>1. /\ config' \in Configs /\ now' \in Nat /\ state' \in States
            /\ e \in Observations /\ window' = [window EXCEPT !.seen = Append(@, e)]
        BY <2>1, <3>1, CheckMoves DEF Typed, Checked
      <4>2. /\ window \in [open : BOOLEAN, baseline : Answers, seen : Seq(Observations)]
            /\ Append(window.seen, e) \in Seq(Observations)
        BY <2>1, <4>1 DEF Typed
      <4>3. window' \in [open : BOOLEAN, baseline : Answers, seen : Seq(Observations)]
        BY <4>1, <4>2
      <4> QED
        BY <4>1, <4>3 DEF Typed
    <3> QED
      BY <3>1, <3>2, CheckKeepsStreaks, CheckKeepsIncident, CheckKeepsCandidates,
         CheckKeepsBaseline, CheckKeepsReported DEF Inv
  <2>3. CASE Retime
    <3>1. /\ config' \in Configs /\ now' = now /\ state \in States
          /\ state' = ResetStreaks(state) /\ window' = WindowFrom(state)
      BY <2>1, <2>3 DEF Retime, Typed
    <3>2. /\ state' \in States
          /\ state'.failures = 0 /\ state'.successes = 0 /\ state'.candidate = NoValue
          /\ state'.incidentOpen = state.incidentOpen /\ state'.baseline = state.baseline
          /\ state'.status = "CRITICAL" <=> state'.incidentOpen
          /\ state'.status # "HEALTHY"
      BY <3>1, ResetIsFresh
    <3>3. window' = WindowFrom(state)'
      BY <3>1, <3>2 DEF WindowFrom
    <3>4. Fresh'
      BY <2>1, <3>1, <3>2, <3>3 DEF Fresh, Typed
    <3> QED
      BY <3>4, <1>2
  <2>4. CASE Redefine
    <3>1. /\ config' \in Configs /\ now' = now
          /\ state' = InitialState /\ window' = WindowFrom(InitialState)
      BY <2>4 DEF Redefine
    <3>2. Fresh'
      BY <2>1, <3>1, InitialIsFresh DEF Fresh, Typed
    <3> QED
      BY <3>2, <1>2
  <2>5. CASE UNCHANGED vars
    <3>1. config' = config /\ state' = state /\ now' = now /\ window' = window
      BY <2>5 DEF vars
    <3>2. Length' = Length /\ \A i : Seen(i)' = Seen(i)
      BY <3>1 DEF Length, Seen
    <3>3. \A i : Bad(i)' <=> Bad(i)
      BY <3>1, <3>2 DEF Bad
    <3>4. \A i, n : /\ BadRun(i, n)' <=> BadRun(i, n)
                    /\ GoodRun(i, n)' <=> GoodRun(i, n)
                    /\ \A v : Steady(i, n, v)' <=> Steady(i, n, v)
      BY <3>2, <3>3 DEF BadRun, GoodRun, Steady
    <3>5. Typed' /\ Reported'
      BY <3>1, <3>2, <3>3 DEF Inv, Typed, Reported
    <3>6. Streaks' /\ Candidates'
      BY <3>1, <3>2, <3>4 DEF Inv, Streaks, Candidates, BadRun, GoodRun, Steady
    <3>7. IncidentFollowsHistory'
      <4>1. PICK f, r : f = config.failureThreshold /\ r = config.recoveryThreshold
        OBVIOUS
      <4>2. /\ OpenedAt = {i \in 1..Length : BadRun(i, f)}
                            \cup (IF window.open THEN {0} ELSE {})
            /\ OpenedAt' = {i \in 1..Length' : BadRun(i, f)'}
                             \cup (IF window.open THEN {0} ELSE {})
        BY <3>1, <4>1 DEF OpenedAt
      <4>3. OpenedAt' = OpenedAt
        BY <3>2, <3>4, <4>2
      <4>4. /\ ExpectedOpen <=> \E i \in OpenedAt : \A j \in (i + 1)..Length : ~GoodRun(j, r)
            /\ ExpectedOpen' <=> \E i \in OpenedAt' : \A j \in (i + 1)..Length' : ~GoodRun(j, r)'
        BY <3>1, <4>1 DEF ExpectedOpen
      <4>5. ExpectedOpen' <=> ExpectedOpen
        BY <3>2, <3>4, <4>3, <4>4
      <4> QED
        BY <3>1, <4>5 DEF Inv, IncidentFollowsHistory
    <3>8. BaselineFollowsHistory'
      <4>1. \A v : SettledAt(v)' = SettledAt(v)
        BY <3>1, <3>2, <3>4 DEF SettledAt
      <4>2. \A v : ExpectedBaseline(v)' <=> ExpectedBaseline(v)
        BY <3>1, <4>1 DEF ExpectedBaseline
      <4> QED
        BY <3>1, <4>2 DEF Inv, BaselineFollowsHistory
    <3> QED
      BY <3>5, <3>6, <3>7, <3>8 DEF Inv
  <2> QED
    BY <2>2, <2>3, <2>4, <2>5 DEF Next
<1> QED
  BY <1>1, <1>3, PTL DEF Spec

\* For every record type that is asked, what query() reads of a response is what it tells,
\* whatever the order and the number of its records and the circles of its aliases.
THEOREM ResponsesAreUnderstood == Spec => []AnswersAreTold
<1>1. AnswersAreTold
  BY ResponsesHaveRecords, ResponsesAreRead DEF AnswersAreTold, Misread
<1> QED
  BY <1>1, PTL

\* The rules of packages/monitoring open an incident after failureThreshold consecutive bad
\* checks and resolve it after recoveryThreshold consecutive good ones, whatever came before.
THEOREM IncidentsFollowHistory ==
    Spec => []IncidentFollowsHistory
<1>1. Inv => IncidentFollowsHistory
  BY DEF Inv
<1> QED
  BY <1>1, InvHolds, PTL

\* They take a value for the baseline when changeThreshold consecutive checks agreed on it,
\* and keep it until another value has done the same.
THEOREM BaselinesFollowHistory ==
    Spec => []BaselineFollowsHistory
<1>1. Inv => BaselineFollowsHistory
  BY DEF Inv
<1> QED
  BY <1>1, InvHolds, PTL

\* The status of a monitor says what its history says.
THEOREM StatusesFollowHistory ==
    Spec => []StatusFollowsHistory
<1>1. Inv => StatusFollowsHistory
  BY DEF Inv, Reported, IncidentFollowsHistory, StatusFollowsHistory
<1> QED
  BY <1>1, InvHolds, PTL
===============================================================================
