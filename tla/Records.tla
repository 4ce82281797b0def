------------------------------- MODULE Records -------------------------------
(***************************************************************************)
(* What query() takes from the response of a resolver: packages/dns-engine *)
(* /src/query.ts, lines 81-120, with normalize of records.ts.              *)
(*                                                                         *)
(* Data.  A text of a packet, a name or a value, is a pair of what it says *)
(* and how it is spelled: letter case, a final dot, the notation of an     *)
(* address.  normalize and normalizeHostname forget the spelling and throw *)
(* when a text is no name or no value (Garbled).  A record has the text of *)
(* its owner, a type and a text.  A response is valid when its id, kind    *)
(* and question are those of the query and it is not truncated.            *)
(***************************************************************************)
EXTENDS Naturals, Sequences
Lists == INSTANCE SequencesExt

CONSTANT Garbled

Normal(text) == text[1]

Follow(owners, record) ==
    IF record.type = "CNAME" /\ Normal(record.owner) \in owners
    THEN owners \cup {Normal(record.data)} ELSE owners

\* Mutant of Owners: records are taken to come in the order of the chain.
OwnersInOrder(hostname, records) == Lists!FoldLeft(Follow, {hostname}, records)

\* The names that the hostname leads to: as many passes over the records as there are
\* records; the loop of the code ends sooner when a pass adds nothing.
Owners(hostname, records) ==
    LET after[n \in 0..Len(records)] ==
            IF n = 0 THEN {hostname} ELSE Lists!FoldLeft(Follow, after[n - 1], records)
    IN  after[Len(records)]

Owned(hostname, type, records) ==
    {r \in Lists!ToSet(records) :
        /\ r.type = type
        /\ Normal(r.owner) \in IF type = "CNAME" THEN {hostname} ELSE Owners(hostname, records)}

\* A name or a value that is looked at and is none.
Throws(hostname, type, records) ==
    \/ \E r \in Lists!ToSet(records) : r.type \in {"CNAME", type} /\ Normal(r.owner) = Garbled
    \/ Garbled \in Owners(hostname, records)
    \/ \E r \in Owned(hostname, type, records) : Normal(r.data) = Garbled

Values(hostname, type, records) ==
    {Normal(r.data) : r \in Owned(hostname, type, records)}

Status(hostname, type, response) ==
    CASE ~response.valid -> "ERROR"
      [] response.valid /\ response.rcode # "NOERROR" ->
             IF response.rcode \in {"NXDOMAIN", "SERVFAIL", "REFUSED"}
             THEN response.rcode ELSE "ERROR"
      [] OTHER ->
             IF Throws(hostname, type, response.records) THEN "ERROR"
             ELSE IF Values(hostname, type, response.records) = {} THEN "NODATA"
             ELSE "SUCCESS"

\* The answers of a query; without SUCCESS there are none.
Answered(hostname, type, response) ==
    IF Status(hostname, type, response) = "SUCCESS"
    THEN Values(hostname, type, response.records) ELSE {}

-----------------------------------------------------------------------------
(****************************** the reference ******************************)

Aliases(records) == {r \in Lists!ToSet(records) : r.type = "CNAME"}

\* The smallest set of names that has the hostname and is closed under aliases.
Reached(hostname, records) ==
    LET names == {hostname} \cup {Normal(r.data) : r \in Aliases(records)}
        closed == {S \in SUBSET names :
                      /\ hostname \in S
                      /\ \A r \in Aliases(records) :
                             Normal(r.owner) \in S => Normal(r.data) \in S}
    IN  {n \in names : \A S \in closed : n \in S}

\* What a response says of a hostname, whatever the order of its records.
Told(hostname, type, response) ==
    LET names == IF type = "CNAME" THEN {hostname} ELSE Reached(hostname, response.records)
        read  == {r \in Lists!ToSet(response.records) : r.type \in {"CNAME", type}}
        mine  == {r \in read : r.type = type /\ Normal(r.owner) \in names}
    IN  IF /\ response.valid /\ response.rcode = "NOERROR"
           /\ \A r \in read : Normal(r.owner) # Garbled
           /\ \A r \in mine : Normal(r.data) # Garbled
           /\ Garbled \notin Reached(hostname, response.records)
        THEN {Normal(r.data) : r \in mine} ELSE {}
==============================================================================
