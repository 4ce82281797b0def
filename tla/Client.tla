-------------------------------- MODULE Client --------------------------------
(***************************************************************************)
(* The web client in a browser, apps/web/src: who a tab shows as signed    *)
(* in, the page of one monitor that useResource polls, the dialogs that    *)
(* edit, retime and delete it, and the requests in flight; with the part   *)
(* of the API they meet, apps/api/src/server.ts, and what other tabs and   *)
(* browsers do meanwhile.                                                  *)
(*                                                                         *)
(* A session is known by its number, which stands for its token and for    *)
(* its CSRF token.  A value of the configuration is known by the revision  *)
(* that wrote it, and so is the private group that holds the resolvers.    *)
(***************************************************************************)
EXTENDS Naturals, FiniteSets

CONSTANTS
    Tabs,         \* tabs of one browser: they share its cookie
    Watched,      \* the tabs that stay in the foreground
    Sessions,     \* bound: the sessions that are started
    Nobody,       \* no session
    Users,
    Admins,       \* users with the role ADMIN
    Owner,        \* whose each session is
    MaxRevision,  \* bound: revisions of the monitor
    MaxPosts,     \* bound: mutations in flight
    Others        \* bound: what other browsers do to the monitor

ASSUME PartiesAssumption ==
    /\ Watched \subseteq Tabs /\ Admins \subseteq Users
    /\ Owner \in [Sessions -> Users] /\ Nobody \notin Sessions
ASSUME BoundsAssumption ==
    /\ {MaxRevision, MaxPosts} \subseteq Nat
    /\ Others \subseteq {"edit", "timing", "toggle", "delete"}

VARIABLES
    row,       \* the monitor in the database
    sessions,  \* sessions the server accepts
    started,   \* sessions there are or were
    cookie,    \* the session in the browser's cookie
    identity,  \* per tab, the session it shows as signed in
    open,      \* per tab, whether the monitor's page is mounted
    data,      \* what the page last loaded
    dialog,    \* the dialog open on it, with the detail it was opened with
    loads,     \* polls of the page in flight
    posts      \* mutations in flight

server == <<row, sessions, started>>
tabs == <<identity, open, data, dialog>>
vars == <<server, cookie, tabs, loads, posts>>

Gone == [revision |-> 0, question |-> 0, timing |-> 0]

\* What inspect answers: the row and whether it found the resolvers.
Detail(r, whole) == [row |-> r, whole |-> whole]
Blank == Detail(Gone, FALSE)

NoDialog == [kind |-> "none", shown |-> Blank]

Init ==
    /\ row = [revision |-> 1, question |-> 1, timing |-> 1]
    /\ sessions = {} /\ started = {} /\ cookie = Nobody
    /\ identity = [tab \in Tabs |-> Nobody]
    /\ open = [tab \in Tabs |-> FALSE]
    /\ data = [tab \in Tabs |-> Blank]
    /\ dialog = [tab \in Tabs |-> NoDialog]
    /\ loads = {} /\ posts = {}

(***************************** the server **********************************)

\* The row after an edit, a change of timing, a pause or a resume.
Written(kind) ==
    LET r == row.revision + 1 IN
    CASE kind = "edit" -> [revision |-> r, question |-> r, timing |-> r]
      [] kind = "timing" -> [row EXCEPT !.revision = r, !.timing = r]
      [] kind = "toggle" -> [row EXCEPT !.revision = r]
      [] kind = "delete" -> Gone

\* Mutant of Authentic: the CSRF token is not compared.
AnyToken(p) == TRUE

Authentic(p) == p.csrf = p.cookie

Allowed(p) ==
    /\ p.kind \in {"logout", "password"} \/ Owner[p.cookie] \in Admins
    /\ Authentic(p)

Applies(p) ==
    \/ p.kind \in {"logout", "password"}
    \/ /\ row # Gone
       /\ p.kind \in {"edit", "delete"} => p.revision = row.revision

\* Of a request that was answered the browser remembers who waits for it.
Answer(p, stage) ==
    [p EXCEPT !.stage = stage, !.revision = 0, !.shown = Blank, !.csrf = Nobody, !.cookie = Nobody]

Answered(p, stage) == posts' = (posts \ {p}) \cup {Answer(p, stage)}

\* The onRequest hook turns the request away, or the handler refuses it.
Refuse(p) ==
    /\ p.stage = "SENT"
    /\ IF p.cookie \notin sessions THEN Answered(p, "EXPIRED")
       ELSE ~(Allowed(p) /\ Applies(p)) /\ Answered(p, "REFUSED")
    /\ UNCHANGED <<server, cookie, tabs, loads>>

OwnSessions(u) == {s \in sessions : Owner[s] = u}

Accept(p) ==
    /\ p.stage = "SENT" /\ p.cookie \in sessions /\ Allowed(p) /\ Applies(p)
    /\ CASE p.kind = "logout" ->
              sessions' = sessions \ {p.cookie} /\ UNCHANGED row
         [] p.kind = "password" ->
              sessions' = sessions \ OwnSessions(Owner[p.cookie]) /\ UNCHANGED row
         [] OTHER ->
              /\ p.kind # "delete" => row.revision < MaxRevision
              /\ row' = Written(p.kind)
              /\ UNCHANGED sessions
    /\ Answered(p, "OK")
    /\ UNCHANGED <<started, cookie, tabs, loads>>

\* inspect reads the row, then the resolvers of the group it names.
ReadRow(l) ==
    /\ l.stage = "SENT"
    /\ LET stage == IF l.cookie \notin sessions THEN "EXPIRED"
                    ELSE IF row = Gone THEN "MISSING" ELSE "ROW"
           detail == IF stage = "ROW" THEN Detail(row, FALSE) ELSE Blank
       IN loads' = (loads \ {l}) \cup
                   {[l EXCEPT !.stage = stage, !.detail = detail, !.cookie = Nobody]}
    /\ UNCHANGED <<server, cookie, tabs, posts>>

ReadResolvers(l) ==
    /\ l.stage = "ROW"
    /\ LET whole == l.detail.row.question = row.question
       IN loads' = (loads \ {l}) \cup
                   {[l EXCEPT !.stage = "READ", !.detail.whole = whole]}
    /\ UNCHANGED <<server, cookie, tabs, posts>>

(****************************** elsewhere **********************************)

\* Another browser changes the monitor, having seen what it is.
ChangeElsewhere(kind) ==
    /\ row # Gone
    /\ kind # "delete" => row.revision < MaxRevision
    /\ row' = Written(kind)
    /\ UNCHANGED <<sessions, started, cookie, tabs, loads, posts>>

\* A session runs out, or ends with its user's password.
EndSession(s) ==
    /\ s \in sessions
    /\ sessions' = sessions \ {s}
    /\ UNCHANGED <<row, started, cookie, tabs, loads, posts>>

\* The server starts a session and the browser keeps it in its cookie.
StartSession(s) ==
    /\ s \notin started
    /\ started' = started \cup {s}
    /\ sessions' = sessions \cup {s}
    /\ cookie' = s
    /\ UNCHANGED row

\* Another tab of this browser signs in.
SignInElsewhere(s) ==
    /\ StartSession(s)
    /\ UNCHANGED <<tabs, loads, posts>>

(************************** signing in and out *****************************)

\* Mutant of Aborted: the effect is not cleaned up.
StillRunning(ls, tab) == ls

\* Cleaning up an effect aborts its load; but a 401 whose body is being read
\* still counts.
Aborted(ls, tab) ==
    {l \in ls : l.tab # tab} \cup
    {[l EXCEPT !.aborted = TRUE] : l \in {m \in ls : m.tab = tab /\ m.stage = "EXPIRED"}}

\* What an answer still finds: its dialog, its page, or only the application.
Cut(ps, tab, from, to) ==
    {IF p.tab = tab /\ p.reach \in from THEN [p EXCEPT !.reach = to] ELSE p : p \in ps}

ClosePage(tab) ==
    /\ open' = [open EXCEPT ![tab] = FALSE]
    /\ data' = [data EXCEPT ![tab] = Blank]
    /\ dialog' = [dialog EXCEPT ![tab] = NoDialog]

\* Without an identity the application shows nothing but the login form.
SignedOut(tab, ls, ps) ==
    /\ identity' = [identity EXCEPT ![tab] = Nobody]
    /\ ClosePage(tab)
    /\ loads' = Aborted(ls, tab)
    /\ posts' = Cut(ps, tab, {"DIALOG", "PAGE"}, "APP")

SignIn(tab, s) ==
    /\ identity[tab] = Nobody
    /\ StartSession(s)
    /\ identity' = [identity EXCEPT ![tab] = s]
    /\ UNCHANGED <<open, data, dialog, loads, posts>>

\* The tab starts over and asks whose the cookie is.
Reload(tab) ==
    /\ identity' = [identity EXCEPT ![tab] = IF cookie \in sessions THEN cookie ELSE Nobody]
    /\ ClosePage(tab)
    /\ loads' = {l \in loads : l.tab # tab}
    /\ posts' = Cut(posts, tab, {"DIALOG", "PAGE", "APP"}, "NOWHERE")
    /\ UNCHANGED <<server, cookie>>

(******************************* the page **********************************)

NewLoad(tab) ==
    [tab |-> tab, cookie |-> cookie, stage |-> "SENT", detail |-> Blank, aborted |-> FALSE]

inFlight(tab) == \E l \in loads : l.tab = tab /\ ~l.aborted

OpenPage(tab) ==
    /\ identity[tab] # Nobody /\ ~open[tab]
    /\ open' = [open EXCEPT ![tab] = TRUE]
    /\ loads' = loads \cup {NewLoad(tab)}
    /\ UNCHANGED <<server, cookie, identity, data, dialog, posts>>

LeavePage(tab) ==
    /\ open[tab]
    /\ ClosePage(tab)
    /\ loads' = Aborted(loads, tab)
    /\ posts' = Cut(posts, tab, {"DIALOG", "PAGE"}, "APP")
    /\ UNCHANGED <<server, cookie, identity>>

Poll(tab) ==
    /\ open[tab] /\ ~inFlight(tab)
    /\ loads' = loads \cup {NewLoad(tab)}
    /\ UNCHANGED <<server, cookie, tabs, posts>>

Settle(l) ==
    \/ /\ l.stage = "EXPIRED"
       /\ SignedOut(l.tab, loads \ {l}, posts)
       /\ UNCHANGED <<server, cookie>>
    \/ /\ l.stage = "READ"
       /\ data' = [data EXCEPT ![l.tab] = l.detail]
       /\ loads' = loads \ {l}
       /\ UNCHANGED <<server, cookie, identity, open, dialog, posts>>
    \/ /\ l.stage = "MISSING"
       /\ loads' = loads \ {l}
       /\ UNCHANGED <<server, cookie, tabs, posts>>

(****************************** mutations **********************************)

OpenDialog(tab, kind) ==
    /\ open[tab] /\ data[tab] # Blank /\ dialog[tab] = NoDialog
    /\ Owner[identity[tab]] \in Admins
    /\ dialog' = [dialog EXCEPT ![tab] = [kind |-> kind, shown |-> data[tab]]]
    /\ UNCHANGED <<server, cookie, identity, open, data, loads, posts>>

Cancel(tab) ==
    /\ dialog[tab] # NoDialog
    /\ dialog' = [dialog EXCEPT ![tab] = NoDialog]
    /\ posts' = Cut(posts, tab, {"DIALOG"}, "PAGE")
    /\ UNCHANGED <<server, cookie, identity, open, data, loads>>

Busy(tab, kind, reach) ==
    \E p \in posts : p.tab = tab /\ p.kind = kind /\ p.reach = reach

Send(tab, kind, revision, shown, reach) ==
    /\ Cardinality(posts) < MaxPosts
    /\ posts' = posts \cup
         {[tab |-> tab, kind |-> kind, revision |-> revision, shown |-> shown,
           csrf |-> identity[tab], cookie |-> cookie, reach |-> reach, stage |-> "SENT"]}

\* Mutant of Revision: the dialog follows what the page polls.
PolledRevision(tab) == data[tab].row.revision

Revision(tab) == dialog[tab].shown.row.revision

Submit(tab, kind, revision) ==
    /\ dialog[tab].kind = kind /\ ~Busy(tab, kind, "DIALOG")
    /\ Send(tab, kind, revision, dialog[tab].shown, "DIALOG")
    /\ UNCHANGED <<server, cookie, tabs, loads>>

SubmitEdit(tab) == Submit(tab, "edit", Revision(tab))

\* A change of timing names no revision.
SubmitTiming(tab) == Submit(tab, "timing", 0)

SubmitDelete(tab) == Submit(tab, "delete", Revision(tab))

\* Pause and resume, on the page itself.
Toggle(tab) ==
    /\ open[tab] /\ data[tab] # Blank /\ dialog[tab] = NoDialog
    /\ Owner[identity[tab]] \in Admins
    /\ ~Busy(tab, "toggle", "PAGE")
    /\ Send(tab, "toggle", 0, Blank, "PAGE")
    /\ UNCHANGED <<server, cookie, tabs, loads>>

Leave(tab, kind) ==
    /\ identity[tab] # Nobody
    /\ Send(tab, kind, 0, Blank, "APP")
    /\ UNCHANGED <<server, cookie, tabs, loads>>

Logout(tab) == dialog[tab] = NoDialog /\ Leave(tab, "logout")

\* The account has a page of its own.
ChangePassword(tab) == ~open[tab] /\ Leave(tab, "password")

\* saved and close: the page loads again and the dialog of that kind closes,
\* even one opened since.
Saved(p) ==
    /\ loads' = Aborted(loads, p.tab) \cup {NewLoad(p.tab)}
    /\ IF dialog[p.tab].kind = p.kind
       THEN /\ dialog' = [dialog EXCEPT ![p.tab] = NoDialog]
            /\ posts' = Cut(posts \ {p}, p.tab, {"DIALOG"}, "PAGE")
       ELSE UNCHANGED dialog /\ posts' = posts \ {p}
    /\ UNCHANGED <<cookie, identity, open, data>>

Receive(p) ==
    /\ p.stage # "SENT"
    /\ UNCHANGED server
    /\ \/ /\ p.reach # "NOWHERE" /\ p.stage = "EXPIRED"
          /\ SignedOut(p.tab, loads, posts \ {p})
          /\ UNCHANGED cookie
       \/ /\ p.reach # "NOWHERE" /\ p.stage = "OK" /\ p.kind \in {"logout", "password"}
          /\ SignedOut(p.tab, loads, posts \ {p})
          /\ cookie' = Nobody
       \/ /\ p.reach # "NOWHERE" /\ p.stage = "OK" /\ p.kind = "delete"
          /\ ClosePage(p.tab)
          /\ loads' = Aborted(loads, p.tab)
          /\ posts' = Cut(posts \ {p}, p.tab, {"DIALOG", "PAGE"}, "APP")
          /\ UNCHANGED <<cookie, identity>>
       \/ /\ p.reach \in {"DIALOG", "PAGE"} /\ p.stage = "OK" /\ p.kind # "delete"
          /\ Saved(p)
       \/ /\ \/ p.reach = "NOWHERE"
             \/ p.stage = "REFUSED"
             \/ p.reach = "APP" /\ p.stage = "OK" /\ p.kind \in {"edit", "timing", "toggle"}
          /\ posts' = posts \ {p}
          /\ UNCHANGED <<cookie, tabs, loads>>

(******************************* failures **********************************)

\* The request or its answer never arrives: the page shows an error.
Lose ==
    /\ \/ \E l \in loads : loads' = loads \ {l} /\ UNCHANGED posts
       \/ \E p \in posts : posts' = posts \ {p} /\ UNCHANGED loads
    /\ UNCHANGED <<server, cookie, tabs>>

Changing == {"edit", "timing", "delete"}

Elsewhere ==
    \/ \E kind \in Others : ChangeElsewhere(kind)
    \/ \E s \in sessions : EndSession(s)
    \/ \E s \in Sessions : SignInElsewhere(s)

Browsing(tab) ==
    \/ \E s \in Sessions : SignIn(tab, s)
    \/ Reload(tab) \/ OpenPage(tab) \/ LeavePage(tab) \/ Poll(tab)
    \/ \E kind \in Changing : OpenDialog(tab, kind)
    \/ Cancel(tab) \/ SubmitEdit(tab) \/ SubmitTiming(tab) \/ SubmitDelete(tab)
    \/ Toggle(tab) \/ Logout(tab) \/ ChangePassword(tab)

LoadsOf(tab) == {l \in loads : l.tab = tab}
ReadingRow(tab) == \E l \in LoadsOf(tab) : ReadRow(l)
ReadingResolvers(tab) == \E l \in LoadsOf(tab) : ReadResolvers(l)
Settling(tab) == \E l \in LoadsOf(tab) : Settle(l)

Loading(tab) == ReadingRow(tab) \/ ReadingResolvers(tab) \/ Settling(tab)

Posting == \E p \in posts : Refuse(p) \/ Accept(p) \/ Receive(p)

Next ==
    \/ Elsewhere \/ Posting \/ Lose
    \/ \E tab \in Tabs : Browsing(tab) \/ Loading(tab)

Spec == Init /\ [][Next]_vars

\* A tab in the foreground polls, and of the loads it repeats some get through.
FairSpec ==
    /\ Spec
    /\ \A tab \in Watched :
         /\ WF_vars(Poll(tab))
         /\ SF_vars(ReadingRow(tab)) /\ SF_vars(ReadingResolvers(tab))
         /\ SF_vars(Settling(tab))

(****************************** properties *********************************)

\* The server does in this step what p asks.
Accepted(p) ==
    /\ p.stage = "SENT" /\ p \notin posts'
    /\ Answer(p, "OK") \in posts'
    /\ <<row, sessions>>' # <<row, sessions>>

\* An edit or a deletion is only accepted from a dialog that shows the monitor
\* as it is, resolvers included, however long it was open and whatever the
\* page polled meanwhile; and a change of timing, which is sent without a
\* revision, leaves what is asked alone.
\* (RevisionConflict, and the details the dialogs keep)
EditsAreNotLost ==
    [][\A p \in posts : Accepted(p) =>
         /\ p.kind \in {"edit", "delete"} => p.shown = Detail(row, TRUE)
         /\ p.kind = "timing" => row'.question = row.question]_vars

\* What the server does, it does for the user the tab showed when it asked,
\* although another tab may have signed in as somebody else since.
\* (the CSRF token of the session, in the onRequest hook and in setCsrf)
ActsAsShown ==
    [][\A p \in posts : Accepted(p) => Owner[p.csrf] = Owner[p.cookie]]_vars

\* A page never replaces what it shows by something older.
\* (useResource: one load at a time, aborted when a newer one replaces it)
PagesGoForward ==
    [][\A tab \in Tabs : open[tab] /\ open'[tab] =>
         data'[tab].row.revision >= data[tab].row.revision]_vars

\* Nor does it; and one that stays open in the foreground ends up showing the monitor as it is.
\* (useResource: the poll that is repeated while the page is visible)
PagesKeepUp ==
    /\ PagesGoForward
    /\ \A tab \in Watched :
         <>[]open[tab] => <>[](row = Gone \/ data[tab] = Detail(row, TRUE))
===============================================================================
