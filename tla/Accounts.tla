------------------------------- MODULE Accounts -------------------------------
(***************************************************************************)
(* Accounts and sessions: packages/auth/src/index.ts.  Hashing a password  *)
(* takes long and happens outside any transaction, so what a request read  *)
(* before it may be stale when it stores: logins, password changes, the    *)
(* first setup and resets from the command line interleave there.          *)
(*                                                                         *)
(* Data.  A hash is salted, so two hashes are equal only if one is a copy  *)
(* of the other: it is its password and the number of the hashing.  The    *)
(* limiter of attempts may refuse any request; it is not modelled further. *)
(***************************************************************************)
EXTENDS Naturals, FiniteSets

CONSTANTS
    Users, Passwords,
    Processes,     \* API processes
    Requests,      \* requests in flight, to any of them or on the command line
    SessionIds,    \* session tokens
    CommandLine,   \* where setAdmin runs: no limit on hashing there
    None,          \* no row, nothing read
    HashSlots,     \* concurrent hashings of one process, 2 in the code
    MaxHashes      \* bound: hashes ever computed

ASSUME NamesAssumption ==
    None \notin SessionIds \cup Requests \cup Users \cup Processes /\ CommandLine \notin Processes
ASSUME RequestsAssumption == IsFiniteSet(Requests)
ASSUME SlotsAssumption == HashSlots \in Nat \ {0} /\ MaxHashes \in Nat

VARIABLES
    users,         \* table users: the password hash of each account, or None
    sessions,      \* table sessions, without the expired ones
    requests,      \* what each request is doing
    activeHashes,  \* Auth.activeHashes of each process
    lock,          \* the advisory lock on accounts: the request that holds it
    hashed,        \* the number of hashes computed so far
    history        \* history: accounts made by setup

vars == <<users, sessions, requests, activeHashes, lock, hashed, history>>

Hashes == [password : Passwords, salt : 1..MaxHashes]

ASSUME HashesAssumption == None \notin Hashes

Verifies(hash, password) == hash # None /\ hash.password = password

Idle == [pc |-> "IDLE", at |-> None, user |-> None, seen |-> None, valid |-> FALSE,
         encoded |-> None, session |-> None]

Init ==
    /\ users = [u \in Users |-> None]
    /\ sessions = {}
    /\ requests = [r \in Requests |-> Idle]
    /\ activeHashes = [p \in Processes |-> 0]
    /\ lock = None
    /\ hashed = 0
    /\ history = {}

SessionsOf(u) == {s \in sessions : s.user = u}

Live(id) == \E s \in sessions : s.id = id

(***************************** hashing slots *******************************)

\* A request takes a slot of its process, unless it has none left: then it is told to
\* come back.  Checking and counting are one synchronous step of the event loop.
TakesSlot(p) ==
    /\ activeHashes[p] < HashSlots
    /\ activeHashes' = [activeHashes EXCEPT ![p] = @ + 1]

\* Mutant of FreesSlot: only a request that succeeds gives its slot back.
FreesSlotOnSuccess(r) ==
    activeHashes' = IF requests[r].at \in Processes /\ requests[r].valid
                    THEN [activeHashes EXCEPT ![requests[r].at] = @ - 1] ELSE activeHashes

\* The finally of every request.
FreesSlot(r) ==
    activeHashes' = IF requests[r].at \in Processes
                    THEN [activeHashes EXCEPT ![requests[r].at] = @ - 1] ELSE activeHashes

Begin(r, state) ==
    /\ requests[r] = Idle
    /\ requests' = [requests EXCEPT ![r] = state]

End(r) == requests' = [requests EXCEPT ![r] = Idle] /\ FreesSlot(r)

\* hash(): a new salt each time.
Hash(password) == [password |-> password, salt |-> hashed + 1]

Hashing == hashed < MaxHashes /\ hashed' = hashed + 1

(******************************** login ************************************)

\* The row is read, and the password is verified against what was read.
Login(r, p, u, password) ==
    /\ TakesSlot(p)
    /\ Begin(r, [Idle EXCEPT !.pc = "LOGIN", !.at = p, !.user = u, !.seen = users[u],
                             !.valid = Verifies(users[u], password)])
    /\ UNCHANGED <<users, sessions, lock, hashed, history>>

\* The account still has the password that was verified.
Unchanged(r) == users[requests[r].user] = requests[r].seen

NewSession(r, id) == [id |-> id, user |-> requests[r].user, hash |-> requests[r].seen]

\* A token that no row and no request remembers.
FreshIds == SessionIds \ ({s.id : s \in sessions} \cup {requests[r].session : r \in Requests})

StoreSession(r) ==
    /\ requests[r].pc = "LOGIN"
    /\ IF requests[r].valid /\ Unchanged(r)
       THEN \E id \in FreshIds : sessions' = sessions \cup {NewSession(r, id)}
       ELSE UNCHANGED sessions
    /\ End(r)
    /\ UNCHANGED <<users, lock, hashed, history>>

(*************************** change of password ****************************)

\* A request comes in with a live session, and waits for the limits on attempts.
Ask(r, s) ==
    /\ s \in sessions
    /\ Begin(r, [Idle EXCEPT !.pc = "ASK", !.user = s.user, !.session = s.id])
    /\ UNCHANGED <<users, sessions, activeHashes, lock, hashed, history>>

\* The current password is verified against the row and, if it is right and the new one
\* is another, the new one is hashed.
ChangePassword(r, p, current, new) ==
    LET seen == users[requests[r].user]
        valid == Verifies(seen, current) /\ current # new
    IN
    /\ requests[r].pc = "ASK"
    /\ TakesSlot(p)
    /\ IF valid THEN Hashing ELSE UNCHANGED hashed
    /\ requests' = [requests EXCEPT
           ![r] = [@ EXCEPT !.pc = "CHANGE", !.at = p, !.seen = seen, !.valid = valid,
                            !.encoded = IF valid THEN Hash(new) ELSE None]]
    /\ UNCHANGED <<users, sessions, lock, history>>

\* Mutant of Authorized: only the password counts.
AuthorizedByPassword(r) == requests[r].valid /\ Unchanged(r)

Authorized(r) == requests[r].valid /\ Unchanged(r) /\ Live(requests[r].session)

\* Mutant of Revoked: the other sessions of the account go on.
RevokedOne(u, id) == {s \in sessions : s.id # id}

\* Every session of the account ends, the one that asked included.
Revoked(u, id) == sessions \ SessionsOf(u)

StorePassword(r) ==
    LET u == requests[r].user
    IN
    /\ requests[r].pc = "CHANGE"
    /\ IF Authorized(r)
       THEN /\ users' = [users EXCEPT ![u] = requests[r].encoded]
            /\ sessions' = Revoked(u, requests[r].session)
       ELSE UNCHANGED <<users, sessions>>
    /\ End(r)
    /\ UNCHANGED <<lock, hashed, history>>

(************************* accounts: setup and reset ***********************)

NoUsers == \A u \in Users : users[u] = None

\* setup: answered 409 at once when there is an account.
Setup(r, p, u, password) ==
    /\ NoUsers
    /\ TakesSlot(p)
    /\ Hashing
    /\ Begin(r, [Idle EXCEPT !.pc = "SETUP", !.at = p, !.user = u, !.valid = TRUE,
                             !.encoded = Hash(password)])
    /\ UNCHANGED <<users, sessions, lock, history>>

\* setAdmin, from the command line.
SetAdmin(r, u, password) ==
    /\ Hashing
    /\ Begin(r, [Idle EXCEPT !.pc = "RESET", !.at = CommandLine, !.user = u, !.valid = TRUE,
                             !.encoded = Hash(password)])
    /\ UNCHANGED <<users, sessions, activeHashes, lock, history>>

\* Mutant of LockFree: GET_LOCK always succeeds.
LockFreeAlways == lock \in Requests \cup {None}

\* GET_LOCK(':accounts').
LockFree == lock = None

\* provision: under the lock, setup looks again whether there is an account.
Recheck(r) ==
    /\ requests[r].pc = "SETUP" /\ LockFree
    /\ IF NoUsers
       THEN /\ lock' = r
            /\ requests' = [requests EXCEPT ![r].pc = "PROVISION"]
            /\ UNCHANGED activeHashes
       ELSE End(r) /\ UNCHANGED lock
    /\ UNCHANGED <<users, sessions, hashed, history>>

\* INSERT: an email that is taken by now is an error.
Provision(r) ==
    LET u == requests[r].user
    IN
    /\ requests[r].pc = "PROVISION"
    /\ IF users[u] = None
       THEN /\ users' = [users EXCEPT ![u] = requests[r].encoded]
            /\ history' = history \cup {u}
       ELSE UNCHANGED <<users, history>>
    /\ lock' = None
    /\ End(r)
    /\ UNCHANGED <<sessions, hashed>>

\* The whole of provision for a reset: the account is made or its password replaced,
\* and its sessions end.
Reset(r) ==
    LET u == requests[r].user
    IN
    /\ requests[r].pc = "RESET" /\ LockFree
    /\ users' = [users EXCEPT ![u] = requests[r].encoded]
    /\ sessions' = Revoked(u, None)
    /\ End(r)
    /\ UNCHANGED <<lock, hashed, history>>

(***************************** other ends **********************************)

\* An error, a lock that is not granted in 5 s, or a lost connection, which gives the
\* lock back.
Fail(r) ==
    /\ requests[r] # Idle
    /\ lock' = IF lock = r THEN None ELSE lock
    /\ End(r)
    /\ UNCHANGED <<users, sessions, hashed, history>>

\* logout, or twelve hours are over.
EndSession(s) ==
    /\ s \in sessions
    /\ sessions' = sessions \ {s}
    /\ UNCHANGED <<users, requests, activeHashes, lock, hashed, history>>

Next ==
    \/ \E r \in Requests, u \in Users, password \in Passwords :
           \/ SetAdmin(r, u, password)
           \/ \E p \in Processes : Login(r, p, u, password) \/ Setup(r, p, u, password)
    \/ \E r \in Requests, p \in Processes, current, new \in Passwords :
           ChangePassword(r, p, current, new)
    \/ \E r \in Requests, s \in sessions : Ask(r, s)
    \/ \E r \in Requests :
           \/ StoreSession(r) \/ StorePassword(r) \/ Recheck(r) \/ Provision(r) \/ Reset(r)
           \/ Fail(r)
    \/ \E s \in sessions : EndSession(s)

Spec == Init /\ [][Next]_vars

-----------------------------------------------------------------------------
(******************************* properties ********************************)

SessionType == [id : SessionIds, user : Users, hash : Hashes]
RequestType ==
    [pc : {"IDLE", "LOGIN", "ASK", "CHANGE", "SETUP", "PROVISION", "RESET"},
     at : Processes \cup {CommandLine, None}, user : Users \cup {None},
     seen : Hashes \cup {None}, valid : BOOLEAN, encoded : Hashes \cup {None},
     session : SessionIds \cup {None}]

\* Types, and the hashing slots of a process are counted exactly and never exceeded: none
\* is lost when a request fails, or else two failures would shut everyone out until a
\* restart (index.ts:42-52, 73-88, 119-138).
TypeOK ==
    /\ users \in [Users -> Hashes \cup {None}]
    /\ sessions \subseteq SessionType
    /\ requests \in [Requests -> RequestType]
    /\ activeHashes \in [Processes -> 0..HashSlots]
    /\ \A p \in Processes :
           activeHashes[p] = Cardinality({r \in Requests : requests[r].at = p})
    /\ lock \in Requests \cup {None}
    /\ hashed \in 0..MaxHashes
    /\ history \subseteq Users

\* A session lives only while the password it was opened with is in force: a login that
\* was being verified while the password was changed or reset leaves no session behind
\* (index.ts:85, 99, 130-131).
SessionsFollowPassword == \A s \in sessions : users[s.user] = s.hash

\* Two people who set up a new installation at the same time do not both get an account
\* (index.ts:38, 47, 58).
OneInitialAccount == Cardinality(history) <= 1

\* A password is only replaced by a request that verified the one in force and whose
\* session is alive at that moment, or by the administrator: a reset or a logout in the
\* meantime is not overwritten (index.ts:82-83).
ChangesAreAuthorized ==
    [][\A r \in Requests :
           requests[r].pc = "CHANGE" /\ users' # users /\ requests'[r] = Idle =>
               /\ users[requests[r].user] = requests[r].seen
               /\ \E s \in sessions : s.id = requests[r].session]_vars
=============================================================================
