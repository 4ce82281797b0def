------------------------------ MODULE MCDetector ------------------------------
(* Instances of Detector.  A configuration is given by its mode and thresholds. *)
EXTENDS Detector

CONSTANTS r1, r2, r3, a, b, h, n1, n2

Config(mode, match, rs, f, r, c) ==
    [mode |-> mode, match |-> match, expected |-> {a}, resolvers |-> rs,
     failureThreshold |-> f, recoveryThreshold |-> r, changeThreshold |-> c]

\* One resolver and thresholds of 1 to 3: the histories are what matters.
HistoryConfigs ==
    {Config("WATCH", "EXACT", {r1}, 2, 3, 2), Config("WATCH", "EXACT", {r1}, 3, 1, 3),
     Config("WATCH", "EXACT", {r1}, 1, 2, 1), Config("EXPECTED", "EXACT", {r1}, 2, 2, 1)}

\* Two and three resolvers that may disagree.
QuorumConfigs ==
    {Config("WATCH", "EXACT", {r1, r2, r3}, 2, 1, 2),
     Config("EXPECTED", "CONTAINS", {r1, r2}, 1, 2, 1),
     Config("EXPECTED", "EXACT", {r1, r2, r3}, 1, 1, 1)}

AllConfigs == HistoryConfigs \cup QuorumConfigs

A(owner, value) == [owner |-> owner, type |-> "A", data |-> value]
CNAME(owner, name) == [owner |-> owner, type |-> "CNAME", data |-> name]
Plain(x) == <<x, "plain">>
Other(x) == <<x, "other">>

Response(rcode, records) == [valid |-> TRUE, rcode |-> rcode, records |-> records]

\* A chain of aliases told from its end; an address that nothing leads to, and one told
\* twice in two spellings; aliases in a circle; an alias that leads to the hostname and not
\* from it; a name that is none.
AllResponses ==
    {Response("NOERROR", <<A(Plain(n2), Plain(a)), CNAME(Plain(n1), Plain(n2)),
                           CNAME(Other(h), Plain(n1))>>),
     Response("NOERROR", <<A(Plain(n1), Plain(a)), A(Plain(h), Plain(b)),
                           A(Other(h), Other(b))>>),
     Response("NOERROR", <<CNAME(Plain(h), Plain(n1)), CNAME(Plain(n1), Other(h)),
                           A(Plain(n1), Plain(a)), A(Plain(h), Plain(b))>>),
     Response("NOERROR", <<CNAME(Plain(n1), Plain(h)), A(Plain(n1), Plain(a))>>),
     Response("NOERROR", <<A(Plain(h), Plain(a)), A(Plain(Garbled), Plain(b))>>)}

\* Every response of up to three records about three names and one text that is no name.
ShortResponses ==
    LET texts == {Plain(x) : x \in {h, n1, n2, Garbled}}
        records == {A(t, Plain(a)) : t \in texts}
                   \cup {CNAME(t, u) : t \in texts, u \in texts}
    IN  {Response("NOERROR", rs) : rs \in UNION {[1..n -> records] : n \in 0..3}}

\* What is read of the short ones is checked as well; they give a check no other reply.
ReadResponses == AllResponses \cup ShortResponses
===============================================================================
