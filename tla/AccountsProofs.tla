---------------------------- MODULE AccountsProofs ----------------------------
(***************************************************************************)
(* Safety of Accounts for every number of users, requests, sessions and    *)
(* processes, and every limit on hashing.                                  *)
(***************************************************************************)
EXTENDS Accounts, FiniteSetTheorems, TLAPS

\* What a request has read and computed by the stage it is in.
Stages ==
    \A r \in Requests :
        LET q == requests[r]
        IN  /\ q.pc = "IDLE" => q = Idle
            /\ q.pc # "IDLE" => q.user \in Users
            /\ q.pc = "ASK" => q.at = None
            /\ q.pc \in {"LOGIN", "CHANGE"} /\ q.valid => q.seen \in Hashes
            /\ q.pc \in {"CHANGE", "SETUP", "PROVISION", "RESET"} /\ q.valid => q.encoded \in Hashes
            /\ q.pc \in {"SETUP", "PROVISION", "RESET"} => q.valid

\* The lock is held by the one request that makes an account, there is none while it does,
\* and there is one ever after.
OneProvision ==
    /\ \A r \in Requests : lock = r <=> requests[r].pc = "PROVISION"
    /\ lock # None => NoUsers
    /\ history # {} => ~NoUsers
    /\ \A u, v \in history : u = v

\* The requests that hash in process p.
At(p) == {r \in Requests : requests[r].at = p}

\* Counting a slot when a request comes to hash, and taking it back when it ends, keeps
\* the count of every process exact.
LEMMA SlotTaken ==
    ASSUME TypeOK, NEW r \in Requests, NEW p \in Processes, TakesSlot(p),
           requests[r].at = None, requests' \in [Requests -> RequestType], requests'[r].at = p,
           \A x \in Requests \ {r} : requests'[x] = requests[x]
    PROVE  /\ activeHashes' \in [Processes -> 0..HashSlots]
           /\ \A n \in Processes : activeHashes'[n] = Cardinality(At(n)')
<1>1. activeHashes' = [activeHashes EXCEPT ![p] = @ + 1] /\ activeHashes[p] < HashSlots
  BY DEF TakesSlot
<1>2. activeHashes' \in [Processes -> 0..HashSlots]
  BY <1>1, SlotsAssumption DEF TypeOK
<1>3. ASSUME NEW n \in Processes PROVE activeHashes'[n] = Cardinality(At(n)')
  <2>1. IsFiniteSet(At(n)) /\ activeHashes[n] = Cardinality(At(n))
    BY RequestsAssumption, FS_Subset DEF At, TypeOK
  <2>2. CASE n = p
    <3>1. At(n)' = At(n) \cup {r} /\ r \notin At(n)
      BY <2>2, NamesAssumption DEF At
    <3>2. Cardinality(At(n)') = Cardinality(At(n)) + 1
      BY <2>1, <3>1, FS_AddElement
    <3> QED
      BY <1>1, <2>1, <2>2, <3>2 DEF TypeOK
  <2>3. CASE n # p
    <3>1. At(n)' = At(n)
      BY <2>3, NamesAssumption DEF At
    <3> QED
      BY <1>1, <2>1, <2>3, <3>1 DEF TypeOK
  <2> QED
    BY <2>2, <2>3
<1> QED
  BY <1>2, <1>3

\* A request that ends takes its slot back and no other: FreesSlot, the finally of withSlot.
LEMMA SlotFreed ==
    ASSUME TypeOK, NEW r \in Requests, FreesSlot(r),
           requests'[r].at = None,
           \A x \in Requests \ {r} : requests'[x] = requests[x]
    PROVE  /\ activeHashes' \in [Processes -> 0..HashSlots]
           /\ \A n \in Processes : activeHashes'[n] = Cardinality(At(n)')
<1>1. ASSUME NEW n \in Processes
      PROVE  /\ IsFiniteSet(At(n)) /\ activeHashes[n] \in 0..HashSlots
             /\ activeHashes[n] = Cardinality(At(n))
  BY RequestsAssumption, FS_Subset DEF At, TypeOK
<1>2. ASSUME NEW p \in Processes, requests[r].at = p
      PROVE  /\ activeHashes' \in [Processes -> 0..HashSlots]
             /\ \A n \in Processes : activeHashes'[n] = Cardinality(At(n)')
  <2>1. activeHashes' = [activeHashes EXCEPT ![p] = @ - 1]
    BY <1>2 DEF FreesSlot
  <2>2. At(p)' = At(p) \ {r} /\ r \in At(p)
    BY <1>2, NamesAssumption DEF At
  <2>3. Cardinality(At(p)') = Cardinality(At(p)) - 1 /\ Cardinality(At(p)') \in Nat
    BY <1>1, <1>2, <2>2, FS_RemoveElement, FS_CardinalityType
  <2>4. activeHashes' \in [Processes -> 0..HashSlots]
    BY <1>1, <1>2, <2>1, <2>3, SlotsAssumption DEF TypeOK
  <2>5. ASSUME NEW n \in Processes \ {p} PROVE At(n)' = At(n)
    BY <1>2, NamesAssumption DEF At
  <2>6. ASSUME NEW n \in Processes PROVE activeHashes'[n] = Cardinality(At(n)')
    BY <1>1, <1>2, <2>1, <2>3, <2>5 DEF TypeOK
  <2> QED
    BY <2>4, <2>6
<1>3. CASE requests[r].at \notin Processes
  <2>1. \A n \in Processes : At(n)' = At(n)
    BY <1>3, NamesAssumption DEF At
  <2> QED
    BY <1>1, <1>3, <2>1 DEF FreesSlot, TypeOK
<1> QED
  BY <1>2, <1>3

\* A request at rest is well typed, and hashes nowhere.
LEMMA IdleType == Idle \in RequestType /\ Idle.at = None /\ Idle.pc = "IDLE"
  BY DEF Idle, RequestType

\* A request that ends, in whatever way, leaves the table of requests and the slots right.
LEMMA RequestEnded ==
    ASSUME TypeOK, Stages, NEW r \in Requests, End(r), hashed' = hashed
    PROVE  /\ requests' \in [Requests -> RequestType]
           /\ activeHashes' \in [Processes -> 0..HashSlots]
           /\ \A n \in Processes : activeHashes'[n] = Cardinality(At(n)')
           /\ requests'[r] = Idle /\ \A x \in Requests \ {r} : requests'[x] = requests[x]
           /\ Stages'
<1>1. /\ requests' \in [Requests -> RequestType]
      /\ requests'[r] = Idle /\ \A x \in Requests \ {r} : requests'[x] = requests[x]
  BY IdleType DEF End, TypeOK
<1>2. /\ activeHashes' \in [Processes -> 0..HashSlots]
      /\ \A n \in Processes : activeHashes'[n] = Cardinality(At(n)')
  BY <1>1, IdleType, SlotFreed DEF End
<1>3. Stages'
  BY <1>1, IdleType DEF Stages
<1> QED
  BY <1>1, <1>2, <1>3

\* So does a request that moves on to hash in a process.
LEMMA RequestHashes ==
    ASSUME TypeOK, Stages, NEW r \in Requests, NEW p \in Processes, TakesSlot(p),
           NEW q \in RequestType, q.at = p, requests[r].at = None,
           requests' = [requests EXCEPT ![r] = q],
           q.pc \in {"LOGIN", "CHANGE", "SETUP"}, q.user \in Users,
           q.pc = "SETUP" => q.valid,
           q.pc \in {"LOGIN", "CHANGE"} /\ q.valid => q.seen \in Hashes,
           q.pc \in {"CHANGE", "SETUP"} /\ q.valid => q.encoded \in Hashes
    PROVE  /\ requests' \in [Requests -> RequestType]
           /\ activeHashes' \in [Processes -> 0..HashSlots]
           /\ \A n \in Processes : activeHashes'[n] = Cardinality(At(n)')
           /\ Stages'
<1>1. /\ requests' \in [Requests -> RequestType]
      /\ requests'[r] = q /\ \A x \in Requests \ {r} : requests'[x] = requests[x]
  BY DEF TypeOK
<1>2. /\ activeHashes' \in [Processes -> 0..HashSlots]
      /\ \A n \in Processes : activeHashes'[n] = Cardinality(At(n)')
  BY <1>1, SlotTaken
<1>3. Stages'
  BY <1>1 DEF Stages
<1> QED
  BY <1>1, <1>2, <1>3

\* A new hash is a hash.
LEMMA HashType ==
    ASSUME TypeOK, Hashing, NEW password \in Passwords
    PROVE  Hash(password) \in Hashes /\ hashed' \in 0..MaxHashes
  BY SlotsAssumption DEF TypeOK, Hashing, Hash, Hashes

\* Types are kept by every step, and so is what each stage of a request has read.
LEMMA StagesStep == TypeOK /\ Stages /\ [Next]_vars => (TypeOK /\ Stages)'
<1> SUFFICES ASSUME TypeOK, Stages, [Next]_vars PROVE TypeOK' /\ Stages'
  OBVIOUS
<1>1. ASSUME NEW r \in Requests, NEW p \in Processes, NEW u \in Users, NEW password \in Passwords,
             Login(r, p, u, password)
      PROVE  TypeOK' /\ Stages'
  <2> DEFINE q == [Idle EXCEPT !.pc = "LOGIN", !.at = p, !.user = u, !.seen = users[u],
                               !.valid = Verifies(users[u], password)]
  <2>1. q \in RequestType /\ q.at = p /\ q.pc = "LOGIN" /\ q.user \in Users
        /\ (q.valid => q.seen \in Hashes)
    BY DEF Idle, RequestType, Verifies, TypeOK
  <2>2. requests[r].at = None /\ requests' = [requests EXCEPT ![r] = q] /\ TakesSlot(p)
    BY <1>1, IdleType DEF Login, Begin
  <2> HIDE DEF q
  <2>3. /\ requests' \in [Requests -> RequestType]
        /\ activeHashes' \in [Processes -> 0..HashSlots]
        /\ \A n \in Processes : activeHashes'[n] = Cardinality(At(n)')
        /\ Stages'
    BY <2>1, <2>2, RequestHashes
  <2> QED
    BY <1>1, <2>3 DEF Login, TypeOK, At
<1>2. ASSUME NEW r \in Requests, StoreSession(r)
      PROVE  TypeOK' /\ Stages'
  <2>1. End(r) /\ hashed' = hashed
    BY <1>2 DEF StoreSession
  <2>2. sessions' \subseteq SessionType
    <3>1. CASE requests[r].valid /\ Unchanged(r)
      <4>1. requests[r].seen \in Hashes /\ requests[r].user \in Users
        BY <1>2, <3>1 DEF StoreSession, Stages
      <4>2. \A id \in FreshIds : NewSession(r, id) \in SessionType
        BY <4>1 DEF NewSession, SessionType, FreshIds
      <4> QED
        BY <1>2, <3>1, <4>2 DEF StoreSession, TypeOK
    <3>2. CASE ~(requests[r].valid /\ Unchanged(r))
      BY <1>2, <3>2 DEF StoreSession, TypeOK
    <3> QED
      BY <3>1, <3>2
  <2> QED
    BY <1>2, <2>1, <2>2, RequestEnded DEF StoreSession, TypeOK, At
<1>3. ASSUME NEW r \in Requests, NEW s \in sessions, Ask(r, s)
      PROVE  TypeOK' /\ Stages'
  <2> DEFINE q == [Idle EXCEPT !.pc = "ASK", !.user = s.user, !.session = s.id]
  <2>1. s \in SessionType
    BY DEF TypeOK
  <2>2. q \in RequestType /\ q.at = None /\ q.pc = "ASK" /\ q.user \in Users
    BY <2>1 DEF Idle, RequestType, SessionType
  <2>3. requests' = [requests EXCEPT ![r] = q] /\ requests[r].at = None
    BY <1>3, IdleType DEF Ask, Begin
  <2> HIDE DEF q
  <2>4. Stages'
    BY <2>2, <2>3 DEF Stages, TypeOK
  <2>5. \A n \in Processes : At(n)' = At(n)
    BY <2>2, <2>3 DEF At, TypeOK
  <2> QED
    BY <1>3, <2>2, <2>3, <2>4, <2>5 DEF Ask, TypeOK, At
<1>4. ASSUME NEW r \in Requests, NEW p \in Processes, NEW current \in Passwords,
             NEW new \in Passwords, ChangePassword(r, p, current, new)
      PROVE  TypeOK' /\ Stages'
  <2> DEFINE seen == users[requests[r].user]
             valid == Verifies(seen, current) /\ current # new
             encoded == IF valid THEN Hash(new) ELSE None
             q == [requests[r] EXCEPT !.pc = "CHANGE", !.at = p, !.seen = seen, !.valid = valid,
                                      !.encoded = encoded]
  <2>1. requests[r] \in RequestType /\ requests[r].user \in Users /\ requests[r].at = None
    BY <1>4 DEF ChangePassword, Stages, TypeOK
  <2>2. seen \in Hashes \cup {None} /\ (valid => seen \in Hashes) /\ valid \in BOOLEAN
    BY <2>1 DEF TypeOK, Verifies
  <2>3. (valid => encoded \in Hashes) /\ encoded \in Hashes \cup {None}
        /\ hashed' \in 0..MaxHashes
    <3>1. CASE valid
      BY <1>4, <3>1, HashType DEF ChangePassword
    <3>2. CASE ~valid
      BY <1>4, <3>2 DEF ChangePassword, TypeOK
    <3> QED
      BY <3>1, <3>2
  <2>4. requests' = [requests EXCEPT ![r] = q] /\ TakesSlot(p)
    BY <1>4 DEF ChangePassword
  <2> HIDE DEF seen, valid, encoded
  <2>5. q \in RequestType /\ q.at = p /\ q.pc = "CHANGE" /\ q.user \in Users
        /\ q.valid = valid /\ q.seen = seen /\ q.encoded = encoded
    BY <2>1, <2>2, <2>3 DEF RequestType
  <2> HIDE DEF q
  <2>6. /\ requests' \in [Requests -> RequestType]
        /\ activeHashes' \in [Processes -> 0..HashSlots]
        /\ \A n \in Processes : activeHashes'[n] = Cardinality(At(n)')
        /\ Stages'
    BY <2>1, <2>2, <2>3, <2>4, <2>5, RequestHashes
  <2> QED
    BY <1>4, <2>3, <2>6 DEF ChangePassword, TypeOK, At
<1>5. ASSUME NEW r \in Requests, StorePassword(r)
      PROVE  TypeOK' /\ Stages'
  <2>1. End(r) /\ hashed' = hashed
    BY <1>5 DEF StorePassword
  <2>2. sessions' \subseteq SessionType
    BY <1>5 DEF StorePassword, Revoked, SessionsOf, TypeOK
  <2>3. users' \in [Users -> Hashes \cup {None}]
    BY <1>5 DEF StorePassword, Authorized, Stages, TypeOK
  <2> QED
    BY <1>5, <2>1, <2>2, <2>3, RequestEnded DEF StorePassword, TypeOK, At
<1>6. ASSUME NEW r \in Requests, NEW p \in Processes, NEW u \in Users, NEW password \in Passwords,
             Setup(r, p, u, password)
      PROVE  TypeOK' /\ Stages'
  <2> DEFINE q == [Idle EXCEPT !.pc = "SETUP", !.at = p, !.user = u, !.valid = TRUE,
                               !.encoded = Hash(password)]
  <2>1. Hash(password) \in Hashes /\ hashed' \in 0..MaxHashes
    BY <1>6, HashType DEF Setup
  <2>2. requests[r].at = None /\ requests' = [requests EXCEPT ![r] = q] /\ TakesSlot(p)
    BY <1>6, IdleType DEF Setup, Begin
  <2>3. q \in RequestType /\ q.at = p /\ q.pc = "SETUP" /\ q.user \in Users
        /\ q.valid /\ q.encoded \in Hashes
    BY <2>1 DEF Idle, RequestType
  <2> HIDE DEF q
  <2>4. /\ requests' \in [Requests -> RequestType]
        /\ activeHashes' \in [Processes -> 0..HashSlots]
        /\ \A n \in Processes : activeHashes'[n] = Cardinality(At(n)')
        /\ Stages'
    BY <2>2, <2>3, RequestHashes
  <2> QED
    BY <1>6, <2>1, <2>4 DEF Setup, TypeOK, At
<1>7. ASSUME NEW r \in Requests, NEW u \in Users, NEW password \in Passwords,
             SetAdmin(r, u, password)
      PROVE  TypeOK' /\ Stages'
  <2> DEFINE q == [Idle EXCEPT !.pc = "RESET", !.at = CommandLine, !.user = u, !.valid = TRUE,
                               !.encoded = Hash(password)]
  <2>1. Hash(password) \in Hashes /\ hashed' \in 0..MaxHashes
    BY <1>7, HashType DEF SetAdmin
  <2>2. requests[r].at = None /\ requests' = [requests EXCEPT ![r] = q]
    BY <1>7, IdleType DEF SetAdmin, Begin
  <2>3. q \in RequestType /\ q.at = CommandLine /\ q.pc = "RESET" /\ q.user \in Users
        /\ q.valid /\ q.encoded \in Hashes
    BY <2>1 DEF Idle, RequestType
  <2> HIDE DEF q
  <2>4. requests' \in [Requests -> RequestType] /\ Stages'
    BY <2>2, <2>3 DEF Stages, TypeOK
  <2>5. \A n \in Processes : At(n)' = At(n)
    BY <2>2, <2>3, NamesAssumption DEF At, TypeOK
  <2> QED
    BY <1>7, <2>1, <2>4, <2>5 DEF SetAdmin, TypeOK, At
<1>8. ASSUME NEW r \in Requests, Recheck(r)
      PROVE  TypeOK' /\ Stages'
  <2>1. CASE NoUsers
    <3> DEFINE q == [requests[r] EXCEPT !.pc = "PROVISION"]
    <3>1. requests' = [requests EXCEPT ![r] = q] /\ activeHashes' = activeHashes /\ lock' = r
      BY <1>8, <2>1 DEF Recheck
    <3>2. requests[r] \in RequestType /\ requests[r].pc = "SETUP"
      BY <1>8 DEF Recheck, TypeOK
    <3>3. q \in RequestType /\ q.pc = "PROVISION" /\ q.user = requests[r].user
          /\ q.valid = requests[r].valid /\ q.encoded = requests[r].encoded
          /\ q.at = requests[r].at
      BY <3>2 DEF RequestType
    <3> HIDE DEF q
    <3>4. requests' \in [Requests -> RequestType] /\ Stages'
      BY <3>1, <3>2, <3>3 DEF Stages, TypeOK
    <3>5. \A n \in Processes : At(n)' = At(n)
      BY <3>1, <3>3 DEF At, TypeOK
    <3> QED
      BY <1>8, <3>1, <3>4, <3>5 DEF Recheck, TypeOK, At
  <2>2. CASE ~NoUsers
    <3>1. End(r) /\ hashed' = hashed /\ lock' = lock
      BY <1>8, <2>2 DEF Recheck
    <3> QED
      BY <1>8, <3>1, RequestEnded DEF Recheck, TypeOK, At
  <2> QED
    BY <2>1, <2>2
<1>9. ASSUME NEW r \in Requests, Provision(r)
      PROVE  TypeOK' /\ Stages'
  <2>1. End(r) /\ hashed' = hashed
    BY <1>9 DEF Provision
  <2>2. users' \in [Users -> Hashes \cup {None}] /\ history' \subseteq Users
    BY <1>9 DEF Provision, Stages, TypeOK
  <2> QED
    BY <1>9, <2>1, <2>2, RequestEnded DEF Provision, TypeOK, At
<1>10. ASSUME NEW r \in Requests, Reset(r)
       PROVE  TypeOK' /\ Stages'
  <2>1. End(r) /\ hashed' = hashed
    BY <1>10 DEF Reset
  <2>2. users' \in [Users -> Hashes \cup {None}] /\ sessions' \subseteq SessionType
    BY <1>10 DEF Reset, Revoked, Stages, TypeOK
  <2> QED
    BY <1>10, <2>1, <2>2, RequestEnded DEF Reset, TypeOK, At
<1>11. ASSUME NEW r \in Requests, Fail(r)
       PROVE  TypeOK' /\ Stages'
  <2>1. End(r) /\ hashed' = hashed /\ lock' \in Requests \cup {None}
    BY <1>11 DEF Fail, TypeOK
  <2> QED
    BY <1>11, <2>1, RequestEnded DEF Fail, TypeOK, At
<1>12. ASSUME NEW s \in sessions, EndSession(s)
       PROVE  TypeOK' /\ Stages'
  BY <1>12 DEF EndSession, TypeOK, Stages
<1>13. CASE UNCHANGED vars
  BY <1>13 DEF vars, TypeOK, Stages
<1> QED
  BY <1>1, <1>2, <1>3, <1>4, <1>5, <1>6, <1>7, <1>8, <1>9, <1>10, <1>11, <1>12, <1>13 DEF Next

\* Both hold in every reachable state.
LEMMA StagesHold == Spec => [](TypeOK /\ Stages)
<1>1. Init => TypeOK /\ Stages
  <2> SUFFICES ASSUME Init PROVE TypeOK /\ Stages
    OBVIOUS
  <2>1. \A p \in Processes : {r \in Requests : requests[r].at = p} = {}
    BY NamesAssumption, IdleType DEF Init
  <2> QED
    BY <2>1, IdleType, SlotsAssumption, FS_EmptySet DEF Init, TypeOK, Stages
<1> QED
  BY <1>1, StagesStep, PTL DEF Spec

\* A process counts exactly the requests that hash in it, and never more than it may: no
\* slot is lost whatever fails (index.ts:42-52, 73-88, 119-138).
THEOREM TypeCorrect == Spec => []TypeOK
  BY StagesHold, PTL

(******************************* sessions **********************************)

\* Every step that replaces a password ends the sessions it opened, and none is opened
\* with a password that was replaced while it was being verified.
LEMMA SessionsStep ==
    TypeOK /\ Stages /\ SessionsFollowPassword /\ [Next]_vars => SessionsFollowPassword'
<1> SUFFICES ASSUME TypeOK, Stages, SessionsFollowPassword, [Next]_vars
             PROVE  SessionsFollowPassword'
  OBVIOUS
<1>1. ASSUME NEW r \in Requests, StoreSession(r) PROVE SessionsFollowPassword'
  <2>1. CASE requests[r].valid /\ Unchanged(r)
    <3>1. PICK id \in FreshIds : sessions' = sessions \cup {NewSession(r, id)}
      BY <1>1, <2>1 DEF StoreSession
    <3> QED
      BY <1>1, <2>1, <3>1 DEF StoreSession, NewSession, Unchanged, SessionsFollowPassword
  <2>2. CASE ~(requests[r].valid /\ Unchanged(r))
    BY <1>1, <2>2 DEF StoreSession, SessionsFollowPassword
  <2> QED
    BY <2>1, <2>2
<1>2. ASSUME NEW u \in Users, NEW encoded, NEW id,
             users' = [users EXCEPT ![u] = encoded], sessions' = Revoked(u, id)
      PROVE  SessionsFollowPassword'
  BY <1>2 DEF Revoked, SessionsOf, SessionsFollowPassword, TypeOK, SessionType
<1>3. ASSUME NEW r \in Requests, StorePassword(r) \/ Reset(r) PROVE SessionsFollowPassword'
  <2>1. requests[r].user \in Users
    BY <1>3 DEF StorePassword, Reset, Stages
  <2> QED
    BY <1>2, <1>3, <2>1 DEF StorePassword, Reset, SessionsFollowPassword
<1>4. ASSUME NEW r \in Requests, Provision(r) PROVE SessionsFollowPassword'
  <2> DEFINE u == requests[r].user
  <2>1. CASE users[u] = None
    <3>1. \A s \in sessions : s.user # u
      BY <2>1, HashesAssumption DEF SessionsFollowPassword, TypeOK, SessionType
    <3> QED
      BY <1>4, <2>1, <3>1 DEF Provision, SessionsFollowPassword, TypeOK, SessionType
  <2>2. CASE users[u] # None
    BY <1>4, <2>2 DEF Provision, SessionsFollowPassword
  <2> QED
    BY <2>1, <2>2
<1>5. CASE users' = users /\ sessions' \subseteq sessions
  BY <1>5 DEF SessionsFollowPassword
<1>6. CASE \/ \E r \in Requests : Recheck(r) \/ Fail(r)
           \/ \E r \in Requests, s \in sessions : Ask(r, s)
           \/ \E r \in Requests, u \in Users, password \in Passwords :
                  \/ SetAdmin(r, u, password)
                  \/ \E p \in Processes : Login(r, p, u, password) \/ Setup(r, p, u, password)
           \/ \E r \in Requests, p \in Processes, current, new \in Passwords :
                  ChangePassword(r, p, current, new)
           \/ \E s \in sessions : EndSession(s)
           \/ UNCHANGED vars
  BY <1>5, <1>6 DEF Recheck, Fail, Ask, SetAdmin, Login, Setup, ChangePassword, EndSession, vars
<1> QED
  BY <1>1, <1>3, <1>4, <1>6 DEF Next

\* No session outlives the password it was opened with, in whatever order logins, changes
\* and resets store what they hashed.
THEOREM SessionsEndWithPassword == Spec => []SessionsFollowPassword
<1>1. Init => SessionsFollowPassword
  BY DEF Init, SessionsFollowPassword
<1> QED
  BY <1>1, SessionsStep, StagesHold, PTL DEF Spec

(**************************** first account ********************************)

\* The lock keeps everyone else from making the first account, and once there is an
\* account there always is one.
LEMMA OneProvisionStep ==
    TypeOK /\ Stages /\ OneProvision /\ [Next]_vars => OneProvision'
<1> SUFFICES ASSUME TypeOK, Stages, OneProvision, [Next]_vars PROVE OneProvision'
  OBVIOUS
<1>1. ASSUME NEW r \in Requests, End(r), requests[r].pc # "PROVISION", lock' = lock,
             history' = history, NoUsers' <=> NoUsers
      PROVE  OneProvision'
  BY <1>1, IdleType, NamesAssumption DEF OneProvision, End, TypeOK
<1>2. ASSUME NEW r \in Requests, requests[r].pc \notin {"PROVISION"},
             requests'[r].pc # "PROVISION", \A x \in Requests \ {r} : requests'[x] = requests[x],
             lock' = lock, history' = history, users' = users
      PROVE  OneProvision'
  BY <1>2 DEF OneProvision, NoUsers
<1>3. ASSUME NEW r \in Requests, StoreSession(r) PROVE OneProvision'
  BY <1>1, <1>3 DEF StoreSession, NoUsers
<1>4. ASSUME NEW r \in Requests, StorePassword(r) PROVE OneProvision'
  <2>1. CASE Authorized(r)
    <3>1. /\ requests[r].user \in Users /\ users[requests[r].user] # None
          /\ requests[r].encoded # None
      BY <1>4, <2>1, HashesAssumption DEF StorePassword, Authorized, Unchanged, Stages
    <3>2. ~NoUsers /\ ~NoUsers'
      BY <1>4, <2>1, <3>1 DEF StorePassword, NoUsers, TypeOK
    <3> QED
      BY <1>1, <1>4, <3>2 DEF StorePassword
  <2>2. CASE ~Authorized(r)
    BY <1>1, <1>4, <2>2 DEF StorePassword, NoUsers
  <2> QED
    BY <2>1, <2>2
<1>5. ASSUME NEW r \in Requests, Recheck(r) PROVE OneProvision'
  <2>1. CASE NoUsers
    <3>1. lock' = r /\ lock = None /\ requests' = [requests EXCEPT ![r].pc = "PROVISION"]
          /\ users' = users /\ history' = history
      BY <1>5, <2>1 DEF Recheck, LockFree
    <3>2. \A x \in Requests : requests'[x].pc = "PROVISION" <=> x = r
      BY <3>1, NamesAssumption DEF OneProvision, TypeOK, RequestType
    <3> QED
      BY <2>1, <3>1, <3>2 DEF OneProvision, NoUsers
  <2>2. CASE ~NoUsers
    BY <1>1, <1>5, <2>2 DEF Recheck, NoUsers
  <2> QED
    BY <2>1, <2>2
<1>6. ASSUME NEW r \in Requests, Provision(r) PROVE OneProvision'
  <2> DEFINE u == requests[r].user
  <2>1. u \in Users /\ requests[r].encoded # None /\ lock = r /\ lock # None
    BY <1>6, HashesAssumption, NamesAssumption DEF Provision, Stages, OneProvision
  <2>2. NoUsers /\ history = {} /\ users[u] = None
    BY <2>1 DEF OneProvision, NoUsers
  <2>3. users' = [users EXCEPT ![u] = requests[r].encoded] /\ history' = {u} /\ lock' = None
    BY <1>6, <2>2 DEF Provision
  <2>4. ~NoUsers'
    BY <2>1, <2>3 DEF NoUsers, TypeOK
  <2>5. \A x \in Requests : requests'[x].pc # "PROVISION"
    BY <1>6, <2>1, IdleType DEF Provision, End, OneProvision, TypeOK
  <2> QED
    BY <2>3, <2>4, <2>5, NamesAssumption DEF OneProvision
<1>7. ASSUME NEW r \in Requests, Reset(r) PROVE OneProvision'
  <2>1. requests[r].user \in Users /\ requests[r].encoded # None
    BY <1>7, HashesAssumption DEF Reset, Stages
  <2>2. ~NoUsers'
    BY <1>7, <2>1 DEF Reset, NoUsers, TypeOK
  <2>3. lock = None /\ lock' = None /\ history' = history
    BY <1>7 DEF Reset, LockFree
  <2>4. \A x \in Requests : requests'[x].pc # "PROVISION"
    BY <1>7, <2>3, IdleType, NamesAssumption DEF Reset, End, OneProvision, TypeOK
  <2> QED
    BY <2>2, <2>3, <2>4, NamesAssumption DEF OneProvision
<1>8. ASSUME NEW r \in Requests, Fail(r) PROVE OneProvision'
  <2>1. requests'[r] = Idle /\ \A x \in Requests \ {r} : requests'[x] = requests[x]
    BY <1>8 DEF Fail, End, TypeOK
  <2> QED
    BY <1>8, <2>1, IdleType, NamesAssumption DEF Fail, OneProvision, NoUsers
<1>9. ASSUME NEW r \in Requests, NEW s \in sessions, Ask(r, s) PROVE OneProvision'
  <2>1. requests[r].pc # "PROVISION" /\ requests'[r].pc = "ASK"
        /\ \A x \in Requests \ {r} : requests'[x] = requests[x]
    BY <1>9, IdleType DEF Ask, Begin, Idle, TypeOK
  <2> QED
    BY <1>2, <1>9, <2>1 DEF Ask
<1>10. ASSUME NEW r \in Requests, NEW u \in Users, NEW password \in Passwords,
              SetAdmin(r, u, password) \/ \E p \in Processes : Setup(r, p, u, password)
       PROVE  OneProvision'
  <2>1. requests[r].pc # "PROVISION" /\ requests'[r].pc \in {"SETUP", "RESET"}
        /\ \A x \in Requests \ {r} : requests'[x] = requests[x]
    BY <1>10, IdleType DEF SetAdmin, Setup, Begin, Idle, TypeOK
  <2> QED
    BY <1>2, <1>10, <2>1 DEF SetAdmin, Setup
<1>11. ASSUME NEW r \in Requests, NEW p \in Processes, NEW u \in Users, NEW password \in Passwords,
              Login(r, p, u, password)
       PROVE  OneProvision'
  <2>1. requests[r].pc # "PROVISION" /\ requests'[r].pc = "LOGIN"
        /\ \A x \in Requests \ {r} : requests'[x] = requests[x]
    BY <1>11, IdleType DEF Login, Begin, Idle, TypeOK
  <2> QED
    BY <1>2, <1>11, <2>1 DEF Login
<1>12. ASSUME NEW r \in Requests, NEW p \in Processes, NEW current \in Passwords,
              NEW new \in Passwords, ChangePassword(r, p, current, new)
       PROVE  OneProvision'
  <2>1. requests[r].pc = "ASK" /\ requests'[r].pc = "CHANGE"
        /\ \A x \in Requests \ {r} : requests'[x] = requests[x]
    BY <1>12 DEF ChangePassword, TypeOK, RequestType
  <2> QED
    BY <1>2, <1>12, <2>1 DEF ChangePassword
<1>13. CASE (\E s \in sessions : EndSession(s)) \/ UNCHANGED vars
  BY <1>13 DEF EndSession, vars, OneProvision, NoUsers
<1> QED
  BY <1>3, <1>4, <1>5, <1>6, <1>7, <1>8, <1>9, <1>10, <1>11, <1>12, <1>13 DEF Next

\* However many people set up a new installation at once, one of them gets the account.
THEOREM SetupHappensOnce == Spec => []OneInitialAccount
<1>1. Init => OneProvision
  BY IdleType, NamesAssumption DEF Init, OneProvision
<1>2. OneProvision => OneInitialAccount
  <2> SUFFICES ASSUME OneProvision PROVE OneInitialAccount
    OBVIOUS
  <2>1. CASE history = {}
    BY <2>1, FS_EmptySet DEF OneInitialAccount
  <2>2. CASE history # {}
    <3>1. PICK u \in history : TRUE
      BY <2>2
    <3>2. history = {u}
      BY <3>1 DEF OneProvision
    <3> QED
      BY <3>2, FS_Singleton DEF OneInitialAccount
  <2> QED
    BY <2>1, <2>2
<1> QED
  BY <1>1, <1>2, OneProvisionStep, StagesHold, PTL DEF Spec

(************************** changes of password ****************************)

\* A request that ends while passwords change has verified the one it replaces, in a
\* session that is alive when it stores.
THEOREM OnlyAuthorizedChanges == Spec => ChangesAreAuthorized
<1> DEFINE Verified == \A r \in Requests :
               requests[r].pc = "CHANGE" /\ users' # users /\ requests'[r] = Idle =>
                   /\ users[requests[r].user] = requests[r].seen
                   /\ \E s \in sessions : s.id = requests[r].session
<1>1. TypeOK /\ [Next]_vars => [Verified]_vars
  <2> SUFFICES ASSUME TypeOK, Next, users' # users,
                      NEW r \in Requests, requests[r].pc = "CHANGE", requests'[r] = Idle
               PROVE  /\ users[requests[r].user] = requests[r].seen
                      /\ \E s \in sessions : s.id = requests[r].session
    OBVIOUS
  <2>1. PICK x \in Requests : StorePassword(x) \/ Provision(x) \/ Reset(x)
    BY DEF Next, Login, StoreSession, Ask, ChangePassword, Setup, SetAdmin, Recheck, Fail, EndSession
  <2>2. requests' = [requests EXCEPT ![x] = Idle]
    BY <2>1 DEF StorePassword, Provision, Reset, End
  <2>3. x = r
    BY <2>2, IdleType DEF TypeOK
  <2>4. StorePassword(r)
    BY <2>1, <2>3 DEF Provision, Reset
  <2> QED
    BY <2>4 DEF StorePassword, Authorized, Unchanged, Live
<1> QED
  BY <1>1, TypeCorrect, PTL DEF Spec, ChangesAreAuthorized
=============================================================================
