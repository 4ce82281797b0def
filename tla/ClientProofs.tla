----------------------------- MODULE ClientProofs -----------------------------
(***************************************************************************)
(* Safety of Client for every number of tabs, sessions, users, revisions   *)
(* and requests in flight.                                                 *)
(***************************************************************************)
EXTENDS Client, TLAPS

RowType == [revision : Nat, question : Nat, timing : Nat]

DetailType == [row : RowType, whole : BOOLEAN]

Identities == Sessions \cup {Nobody}

LoadType ==
    [tab : Tabs, cookie : Identities, stage : {"SENT", "EXPIRED", "MISSING", "ROW", "READ"},
     detail : DetailType, aborted : BOOLEAN]

PostType ==
    [tab : Tabs, kind : Changing \cup {"toggle", "logout", "password"}, revision : Nat,
     shown : DetailType, csrf : Identities, cookie : Identities,
     reach : {"DIALOG", "PAGE", "APP", "NOWHERE"}, stage : {"SENT", "EXPIRED", "REFUSED", "OK"}]

Typed ==
    /\ row \in RowType /\ (row = Gone \/ row.revision > 0)
    /\ cookie \in Identities /\ sessions \subseteq Sessions
    /\ identity \in [Tabs -> Identities]
    /\ open \in [Tabs -> BOOLEAN]
    /\ data \in [Tabs -> DetailType]
    /\ dialog \in [Tabs -> [kind : Changing \cup {"none"}, shown : DetailType]]

\* A row that was read is not later than the one that is there, r, and is that one if it has
\* its revision.
Past(old, r) ==
    r # Gone => /\ old.revision <= r.revision
                /\ old.revision = r.revision => old = r

\* So is a detail, and its resolvers were found unless the row has changed.
Known(d, r) ==
    r # Gone => /\ d.row.revision <= r.revision
                /\ d.row.revision = r.revision => d = Detail(r, TRUE)

\* A load brings what is known and nothing older than what its page shows.
SoundLoad(l, r, shows) ==
    /\ l \in LoadType
    /\ l.stage = "ROW"  => Past(l.detail.row, r)
    /\ l.stage = "READ" => Known(l.detail, r)
    /\ l.stage \in {"ROW", "READ"} => l.detail.row.revision >= shows[l.tab].row.revision
    /\ l.aborted => l.stage = "EXPIRED"

\* A page has one load that may still bring something.
OneLoad(ls) == \A l, k \in ls : l.tab = k.tab /\ ~l.aborted /\ ~k.aborted => l = k

\* An edit and a deletion name the revision of what their dialog showed.
SoundPost(p, r) ==
    /\ p \in PostType
    /\ Known(p.shown, r)
    /\ p.stage = "SENT" /\ p.kind \in {"edit", "delete"} => p.revision = p.shown.row.revision

\* What tabs show and requests carry, seen from the row r.
Sound(r, shows, dialogs, ls, ps) ==
    /\ \A tab \in Tabs : Known(shows[tab], r) /\ Known(dialogs[tab].shown, r)
    /\ \A l \in ls : SoundLoad(l, r, shows)
    /\ OneLoad(ls)
    /\ \A p \in ps : SoundPost(p, r)

\* Dialogs, loads and whoever waits on the page for an answer go with the page.
Attached(opens, dialogs, ls, ps) ==
    /\ \A tab \in Tabs : opens[tab] \/ dialogs[tab] = NoDialog
    /\ \A l \in ls : opens[l.tab] \/ l.aborted
    /\ \A p \in ps : opens[p.tab] \/ p.reach \in {"APP", "NOWHERE"}

Inv ==
    /\ Typed
    /\ Sound(row, data, dialog, loads, posts)
    /\ Attached(open, dialog, loads, posts)

-----------------------------------------------------------------------------
(********************************* the row *********************************)

\* A row stays, is written anew or goes for good.
Moved(r, new) ==
    \/ new = r
    \/ /\ r # Gone /\ new \in RowType
       /\ new = Gone \/ new.revision = r.revision + 1

\* What a mutation writes.
LEMMA WrittenMoves ==
    ASSUME row \in RowType, row # Gone, NEW kind \in {"edit", "timing", "toggle", "delete"}
    PROVE  /\ Moved(row, Written(kind))
           /\ Written("timing").question = row.question
<1>1. Gone \in RowType
  BY DEF Gone, RowType
<1> DEFINE r == row.revision + 1
<1>0. /\ r \in Nat /\ row.question \in Nat /\ row.timing \in Nat
      /\ row = [revision |-> row.revision, question |-> row.question, timing |-> row.timing]
  BY DEF RowType
<1> HIDE DEF r
<1>2. ASSUME kind = "edit" PROVE Moved(row, Written(kind))
  <2>1. Written(kind) = [revision |-> r, question |-> r, timing |-> r]
    BY <1>2, <1>0 DEF Written, r
  <2>2. Written(kind) \in RowType /\ Written(kind).revision = r
    BY <1>0, <2>1 DEF RowType
  <2> QED
    BY <2>2 DEF Moved, r
<1>3. ASSUME kind = "timing" PROVE Moved(row, Written(kind))
  <2>1. Written(kind) = [revision |-> r, question |-> row.question, timing |-> r]
    BY <1>3, <1>0 DEF Written, r
  <2>2. Written(kind) \in RowType /\ Written(kind).revision = r
    BY <1>0, <2>1 DEF RowType
  <2> QED
    BY <2>2 DEF Moved, r
<1>4. ASSUME kind = "toggle" PROVE Moved(row, Written(kind))
  <2>1. Written(kind) = [revision |-> r, question |-> row.question, timing |-> row.timing]
    BY <1>4, <1>0 DEF Written, r
  <2>2. Written(kind) \in RowType /\ Written(kind).revision = r
    BY <1>0, <2>1 DEF RowType
  <2> QED
    BY <2>2 DEF Moved, r
<1>5. ASSUME kind = "delete" PROVE Moved(row, Written(kind))
  BY <1>5, <1>1 DEF Written, Moved
<1>6. Written("timing").question = row.question
  BY DEF Written, RowType
<1> QED
  BY <1>2, <1>3, <1>4, <1>5, <1>6

\* What was known stays known: whatever is written has a revision of its own.
LEMMA KnownStays ==
    ASSUME NEW r \in RowType, NEW new, Moved(r, new)
    PROVE  /\ \A old \in RowType : Past(old, r) => Past(old, new)
           /\ \A d \in DetailType : Known(d, r) => Known(d, new)
           /\ \A l, shows : SoundLoad(l, r, shows) => SoundLoad(l, new, shows)
           /\ \A p : SoundPost(p, r) => SoundPost(p, new)
<1>1. \A old \in RowType : Past(old, r) => Past(old, new)
  BY DEF Moved, Past, RowType
<1>2. \A d \in DetailType : Known(d, r) => Known(d, new)
  <2> TAKE d \in DetailType
  <2> HAVE Known(d, r)
  <2>1. d.row.revision \in Nat /\ r.revision \in Nat
    BY DEF DetailType, RowType
  <2>2. CASE new = r
    BY <2>2
  <2>3. CASE new = Gone
    BY <2>3 DEF Known
  <2>4. CASE r # Gone /\ new.revision = r.revision + 1
    <3>1. d.row.revision <= r.revision
      BY <2>4 DEF Known
    <3>2. d.row.revision < new.revision
      BY <2>1, <2>4, <3>1
    <3>3. d.row.revision # new.revision /\ d.row.revision <= new.revision
      BY <2>1, <2>4, <3>2
    <3> QED
      BY <3>3 DEF Known
  <2> QED
    BY <2>2, <2>3, <2>4 DEF Moved
<1>3. \A l, shows : SoundLoad(l, r, shows) => SoundLoad(l, new, shows)
  <2> TAKE l, shows
  <2> HAVE SoundLoad(l, r, shows)
  <2>1. l.detail \in DetailType /\ l.detail.row \in RowType
    BY DEF SoundLoad, LoadType, DetailType
  <2> QED
    BY <2>1, <1>1, <1>2 DEF SoundLoad
<1>4. \A p : SoundPost(p, r) => SoundPost(p, new)
  <2> TAKE p
  <2> HAVE SoundPost(p, r)
  <2>1. p.shown \in DetailType
    BY DEF SoundPost, PostType
  <2> QED
    BY <2>1, <1>2 DEF SoundPost
<1> QED
  BY <1>1, <1>2, <1>3, <1>4

\* It is enough to see what a step leaves from the row before the step.
LEMMA SoundAfter ==
    ASSUME Typed, Typed', Moved(row, row'), Sound(row, data', dialog', loads', posts'),
           Attached(open', dialog', loads', posts')
    PROVE  Inv'
<1>1. row \in RowType
  BY DEF Typed
<1>2. \A tab \in Tabs : data'[tab] \in DetailType /\ dialog'[tab].shown \in DetailType
  BY DEF Typed
<1>3. /\ \A d \in DetailType : Known(d, row) => Known(d, row')
      /\ \A l, shows : SoundLoad(l, row, shows) => SoundLoad(l, row', shows)
      /\ \A p : SoundPost(p, row) => SoundPost(p, row')
  BY <1>1, KnownStays
<1>4. Sound(row', data', dialog', loads', posts')
  BY <1>2, <1>3 DEF Sound
<1> QED
  BY <1>4 DEF Inv

-----------------------------------------------------------------------------
(********************************* the tabs ********************************)

\* Nothing is always known.
LEMMA BlankIsKnown ==
    ASSUME Typed
    PROVE  /\ Blank \in DetailType /\ NoDialog \in [kind : Changing \cup {"none"}, shown : DetailType]
           /\ Blank.row.revision = 0
           /\ Known(Blank, row) /\ Known(NoDialog.shown, row)
<1>1. Gone \in RowType /\ Gone.revision = 0
  BY DEF Gone, RowType
<1>2. /\ Blank \in DetailType /\ Blank.row = Gone
      /\ NoDialog \in [kind : Changing \cup {"none"}, shown : DetailType]
      /\ NoDialog.shown = Blank
  BY <1>1 DEF Blank, NoDialog, Detail, DetailType
<1>3. Known(Blank, row)
  <2>1. row # Gone => row.revision \in Nat /\ row.revision > 0
    BY DEF Typed, RowType
  <2>2. Blank.row.revision = 0
    BY <1>1, <1>2
  <2>3. row # Gone => Blank.row.revision <= row.revision /\ Blank.row.revision # row.revision
    BY <2>1, <2>2
  <2> QED
    BY <2>3 DEF Known
<1> QED
  BY <1>1, <1>2, <1>3

\* Aborting the loads of a tab leaves none that may still bring something, so the tab may
\* show whatever it likes.
LEMMA AbortedIsSound ==
    ASSUME NEW ls, \A l \in ls : SoundLoad(l, row, data), OneLoad(ls), NEW tab \in Tabs,
           NEW shows, \A other \in Tabs : other # tab => shows[other] = data[other]
    PROVE  /\ \A l \in Aborted(ls, tab) : SoundLoad(l, row, shows)
           /\ OneLoad(Aborted(ls, tab))
           /\ \A l \in Aborted(ls, tab) : l.tab = tab => l.aborted
<1>1. \A l \in Aborted(ls, tab) :
          \/ l \in ls /\ l.tab # tab
          \/ l \in LoadType /\ l.tab = tab /\ l.aborted /\ l.stage = "EXPIRED"
  <2> TAKE l \in Aborted(ls, tab)
  <2>1. CASE l \in {m \in ls : m.tab # tab}
    BY <2>1
  <2>2. CASE l \in {[m EXCEPT !.aborted = TRUE] : m \in {m \in ls : m.tab = tab /\ m.stage = "EXPIRED"}}
    <3>1. PICK m \in ls : m.tab = tab /\ m.stage = "EXPIRED" /\ l = [m EXCEPT !.aborted = TRUE]
      BY <2>2
    <3>2. m \in LoadType
      BY DEF SoundLoad
    <3> QED
      BY <3>1, <3>2 DEF LoadType
  <2> QED
    BY <2>1, <2>2 DEF Aborted
<1>2. \A l \in Aborted(ls, tab) : SoundLoad(l, row, shows)
  <2> TAKE l \in Aborted(ls, tab)
  <2>1. CASE l \in ls /\ l.tab # tab
    <3>1. SoundLoad(l, row, data) /\ l.tab \in Tabs
      BY <2>1 DEF SoundLoad, LoadType
    <3>2. shows[l.tab] = data[l.tab]
      BY <2>1, <3>1
    <3> QED
      BY <3>1, <3>2 DEF SoundLoad
  <2>2. CASE l \in LoadType /\ l.tab = tab /\ l.aborted /\ l.stage = "EXPIRED"
    BY <2>2 DEF SoundLoad
  <2> QED
    BY <1>1, <2>1, <2>2
<1>3. OneLoad(Aborted(ls, tab))
  BY <1>1 DEF OneLoad
<1> QED
  BY <1>1, <1>2, <1>3

\* A tab without a load may start one.
LEMMA NewLoadIsSound ==
    ASSUME Typed, NEW tab \in Tabs, NEW shows, NEW ls,
           \A l \in ls : SoundLoad(l, row, shows), OneLoad(ls),
           \A l \in ls : l.tab = tab => l.aborted
    PROVE  /\ \A l \in ls \cup {NewLoad(tab)} : SoundLoad(l, row, shows)
           /\ OneLoad(ls \cup {NewLoad(tab)})
<1>1. /\ NewLoad(tab) \in LoadType
      /\ NewLoad(tab).stage = "SENT" /\ NewLoad(tab).tab = tab /\ ~NewLoad(tab).aborted
  BY BlankIsKnown DEF NewLoad, LoadType, Typed
<1>2. SoundLoad(NewLoad(tab), row, shows)
  BY <1>1 DEF SoundLoad
<1>3. OneLoad(ls \cup {NewLoad(tab)})
  BY <1>1 DEF OneLoad
<1> QED
  BY <1>2, <1>3

\* Whoever waits for a mutation, it asks what it asked.
LEMMA CutIsSound ==
    ASSUME NEW ps, \A p \in ps : SoundPost(p, row), NEW tab, NEW from,
           NEW to \in {"DIALOG", "PAGE", "APP", "NOWHERE"}
    PROVE  \A p \in Cut(ps, tab, from, to) : SoundPost(p, row)
<1> TAKE q \in Cut(ps, tab, from, to)
<1>1. PICK p \in ps : q = IF p.tab = tab /\ p.reach \in from THEN [p EXCEPT !.reach = to] ELSE p
  BY DEF Cut
<1>2. SoundPost(p, row) /\ p \in PostType
  BY DEF SoundPost
<1>3. CASE q = p
  BY <1>2, <1>3
<1>4. CASE q = [p EXCEPT !.reach = to]
  <2>1. /\ q \in PostType /\ q.shown = p.shown /\ q.kind = p.kind /\ q.stage = p.stage
        /\ q.revision = p.revision
    BY <1>2, <1>4 DEF PostType
  <2> QED
    BY <1>2, <2>1 DEF SoundPost
<1> QED
  BY <1>1, <1>3, <1>4

\* What becomes of who waits for a mutation.
LEMMA CutOf ==
    ASSUME NEW ps, \A p \in ps : p \in PostType, NEW tab, NEW from, NEW to,
           NEW q \in Cut(ps, tab, from, to)
    PROVE  \E p \in ps :
             /\ q.tab = p.tab
             /\ \/ q = p /\ ~(p.tab = tab /\ p.reach \in from)
                \/ q.reach = to /\ p.tab = tab /\ p.reach \in from
<1>1. PICK p \in ps : q = IF p.tab = tab /\ p.reach \in from THEN [p EXCEPT !.reach = to] ELSE p
  BY DEF Cut
<1>2. p \in PostType
  OBVIOUS
<1>3. CASE p.tab = tab /\ p.reach \in from
  <2>1. q = [p EXCEPT !.reach = to]
    BY <1>1, <1>3
  <2>2. q.tab = p.tab /\ q.reach = to
    BY <1>2, <2>1 DEF PostType
  <2> QED
    BY <1>3, <2>2
<1>4. CASE ~(p.tab = tab /\ p.reach \in from)
  BY <1>1, <1>4
<1> QED
  BY <1>3, <1>4

\* A row that is written is a row.
LEMMA MovedIsTyped ==
    ASSUME Typed, NEW new, Moved(row, new)
    PROVE  new \in RowType /\ (new = Gone \/ new.revision > 0)
<1>1. row \in RowType /\ row.revision \in Nat /\ (row = Gone \/ row.revision > 0)
  BY DEF Typed, RowType
<1>2. CASE new = row
  BY <1>1, <1>2
<1>3. CASE new \in RowType /\ new = Gone
  BY <1>3
<1>4. CASE new \in RowType /\ new.revision = row.revision + 1
  <2>1. new.revision > 0
    BY <1>1, <1>4
  <2> QED
    BY <1>4, <2>1
<1> QED
  BY <1>2, <1>3, <1>4 DEF Moved

\* A page that closes shows nothing, and the other pages what they showed.
LEMMA PageCloses ==
    ASSUME Inv, NEW tab \in Tabs, ClosePage(tab)
    PROVE  /\ open' \in [Tabs -> BOOLEAN] /\ data' \in [Tabs -> DetailType]
           /\ dialog' \in [Tabs -> [kind : Changing \cup {"none"}, shown : DetailType]]
           /\ \A t \in Tabs : Known(data'[t], row) /\ Known(dialog'[t].shown, row)
           /\ ~open'[tab] /\ dialog'[tab] = NoDialog
           /\ \A t \in Tabs : t # tab =>
                open'[t] = open[t] /\ data'[t] = data[t] /\ dialog'[t] = dialog[t]
<1>1. Typed
  BY DEF Inv
<1>2. /\ Blank \in DetailType
      /\ NoDialog \in [kind : Changing \cup {"none"}, shown : DetailType]
      /\ Known(Blank, row) /\ Known(NoDialog.shown, row)
  BY <1>1, BlankIsKnown
<1>3. /\ open' \in [Tabs -> BOOLEAN] /\ data' \in [Tabs -> DetailType]
      /\ dialog' \in [Tabs -> [kind : Changing \cup {"none"}, shown : DetailType]]
  BY <1>1, <1>2 DEF Typed, ClosePage
<1>4. ~open'[tab] /\ data'[tab] = Blank /\ dialog'[tab] = NoDialog
  BY <1>1 DEF Typed, ClosePage
<1>5. \A t \in Tabs : t # tab =>
        open'[t] = open[t] /\ data'[t] = data[t] /\ dialog'[t] = dialog[t]
  BY <1>1 DEF Typed, ClosePage
<1>6. \A t \in Tabs : Known(data[t], row) /\ Known(dialog[t].shown, row)
  BY DEF Inv, Sound
<1>7. \A t \in Tabs : Known(data'[t], row) /\ Known(dialog'[t].shown, row)
  BY <1>2, <1>4, <1>5, <1>6
<1> QED
  BY <1>3, <1>4, <1>5, <1>7

\* Its loads are aborted, and of the mutations only the application learns.
LEMMA PageIsLeft ==
    ASSUME Inv, NEW tab \in Tabs, ClosePage(tab),
           NEW ls \in SUBSET loads, loads' \in SUBSET Aborted(ls, tab),
           NEW ps \in SUBSET posts, NEW from, NEW to \in {"APP", "NOWHERE"},
           "DIALOG" \in from, "PAGE" \in from, posts' = Cut(ps, tab, from, to)
    PROVE  /\ Sound(row, data', dialog', loads', posts')
           /\ Attached(open', dialog', loads', posts')
<1>1. /\ \A t \in Tabs : Known(data'[t], row) /\ Known(dialog'[t].shown, row)
      /\ ~open'[tab] /\ dialog'[tab] = NoDialog
      /\ \A t \in Tabs : t # tab =>
            open'[t] = open[t] /\ data'[t] = data[t] /\ dialog'[t] = dialog[t]
  BY PageCloses
<1>2. /\ \A l \in ls : SoundLoad(l, row, data)
      /\ OneLoad(ls)
      /\ \A p \in ps : SoundPost(p, row)
  BY DEF Inv, Sound, OneLoad
<1>3. /\ \A l \in Aborted(ls, tab) : SoundLoad(l, row, data')
      /\ OneLoad(Aborted(ls, tab))
      /\ \A l \in Aborted(ls, tab) : l.tab = tab => l.aborted
  BY <1>1, <1>2, AbortedIsSound
<1>4. \A p \in posts' : SoundPost(p, row)
  BY <1>2, CutIsSound
<1>5. Sound(row, data', dialog', loads', posts')
  BY <1>1, <1>3, <1>4 DEF Sound, OneLoad
<1>6. \A t \in Tabs : open'[t] \/ dialog'[t] = NoDialog
  BY <1>1 DEF Inv, Attached
<1>7. \A l \in loads' : open'[l.tab] \/ l.aborted
  <2> TAKE l \in loads'
  <2>1. l.tab \in Tabs /\ (l.tab = tab => l.aborted)
    BY <1>3 DEF SoundLoad, LoadType
  <2>2. CASE l.tab # tab
    <3>1. l \in loads
      <4>1. l \in Aborted(ls, tab)
        OBVIOUS
      <4>2. \A m \in ls : m.tab = tab => [m EXCEPT !.aborted = TRUE].tab = tab
        BY <1>2 DEF SoundLoad, LoadType
      <4> QED
        BY <2>2, <4>1, <4>2 DEF Aborted
    <3> QED
      BY <1>1, <2>1, <2>2, <3>1 DEF Inv, Attached
  <2> QED
    BY <2>1, <2>2
<1>8. \A p \in posts' : open'[p.tab] \/ p.reach \in {"APP", "NOWHERE"}
  <2> TAKE q \in posts'
  <2>1. \A p \in ps : p \in PostType
    BY <1>2 DEF SoundPost
  <2>2. PICK p \in ps :
          /\ q.tab = p.tab
          /\ \/ q = p /\ ~(p.tab = tab /\ p.reach \in from)
             \/ q.reach = to /\ p.tab = tab /\ p.reach \in from
    BY <2>1, CutOf
  <2>3. /\ p.tab \in Tabs /\ p.reach \in {"DIALOG", "PAGE", "APP", "NOWHERE"}
        /\ open[p.tab] \/ p.reach \in {"APP", "NOWHERE"}
    BY <2>1 DEF Inv, Attached, PostType
  <2> QED
    BY <1>1, <2>2, <2>3
<1> QED
  BY <1>5, <1>6, <1>7, <1>8 DEF Attached

\* An answer asks nothing any more.
LEMMA AnswerIsSound ==
    ASSUME Typed, NEW p, SoundPost(p, row), NEW stage \in {"EXPIRED", "REFUSED", "OK"}
    PROVE  /\ SoundPost(Answer(p, stage), row)
           /\ Answer(p, stage).tab = p.tab /\ Answer(p, stage).reach = p.reach
<1>1. p \in PostType
  BY DEF SoundPost
<1>2. Blank \in DetailType /\ Known(Blank, row)
  BY BlankIsKnown
<1>3. /\ Answer(p, stage) \in PostType
      /\ Answer(p, stage).shown = Blank /\ Answer(p, stage).stage = stage
      /\ Answer(p, stage).tab = p.tab /\ Answer(p, stage).reach = p.reach
  BY <1>1, <1>2 DEF Answer, PostType, Identities
<1> QED
  BY <1>2, <1>3 DEF SoundPost

\* Of the mutations one is answered.
LEMMA AnsweredIsSound ==
    ASSUME Inv, NEW p \in posts, NEW stage \in {"EXPIRED", "REFUSED", "OK"}, Answered(p, stage)
    PROVE  /\ \A q \in posts' : SoundPost(q, row)
           /\ \A q \in posts' : open[q.tab] \/ q.reach \in {"APP", "NOWHERE"}
<1>1. /\ \A q \in posts : SoundPost(q, row)
      /\ \A q \in posts : open[q.tab] \/ q.reach \in {"APP", "NOWHERE"}
  BY DEF Inv, Sound, Attached
<1>2. /\ SoundPost(Answer(p, stage), row)
      /\ Answer(p, stage).tab = p.tab /\ Answer(p, stage).reach = p.reach
  BY <1>1, AnswerIsSound DEF Inv
<1>3. posts' = (posts \ {p}) \cup {Answer(p, stage)}
  BY DEF Answered
<1> QED
  BY <1>1, <1>2, <1>3

-----------------------------------------------------------------------------
(******************************* the server ********************************)

\* The two mutations of a session, of which the row knows nothing.
LEMMA AcceptWrites ==
    ASSUME Inv, NEW p \in posts, Accept(p)
    PROVE  /\ sessions' \subseteq Sessions
           /\ \/ row' = row /\ p.kind \in {"logout", "password"}
              \/ /\ p.kind \in {"edit", "timing", "toggle", "delete"}
                 /\ row # Gone /\ row' = Written(p.kind)
<1>1. p.kind \in Changing \cup {"toggle", "logout", "password"} /\ sessions \subseteq Sessions
  BY DEF Inv, Typed, Sound, SoundPost, PostType
<1>2. CASE p.kind = "logout"
  BY <1>1, <1>2 DEF Accept
<1>3. CASE p.kind = "password"
  BY <1>1, <1>3 DEF Accept, OwnSessions
<1>4. CASE p.kind \in Changing \cup {"toggle"}
  <2>1. p.kind # "logout" /\ p.kind # "password"
    BY <1>4 DEF Changing
  <2>2. row' = Written(p.kind) /\ sessions' = sessions
    BY <2>1 DEF Accept
  <2>3. row # Gone
    BY <2>1 DEF Accept, Applies
  <2> QED
    BY <1>1, <1>4, <2>2, <2>3 DEF Changing
<1> QED
  BY <1>1, <1>2, <1>3, <1>4

\* The server does what a mutation asks, and answers it.
LEMMA AcceptKeeps ==
    ASSUME Inv, NEW p \in posts, Accept(p)
    PROVE  Inv'
<1>1. /\ open' = open /\ data' = data /\ dialog' = dialog /\ loads' = loads
      /\ cookie' = cookie /\ identity' = identity
      /\ Answered(p, "OK")
  BY DEF Accept, tabs
<1>2. /\ \A q \in posts' : SoundPost(q, row)
      /\ \A q \in posts' : open[q.tab] \/ q.reach \in {"APP", "NOWHERE"}
  BY <1>1, AnsweredIsSound
<1>3. sessions' \subseteq Sessions /\ Moved(row, row')
  <2>1. row \in RowType
    BY DEF Inv, Typed
  <2> QED
    BY <2>1, AcceptWrites, WrittenMoves DEF Moved
<1>4. Typed'
  BY <1>1, <1>3, MovedIsTyped DEF Inv, Typed
<1>5. Sound(row, data', dialog', loads', posts') /\ Attached(open', dialog', loads', posts')
  BY <1>1, <1>2 DEF Inv, Sound, Attached
<1> QED
  BY <1>3, <1>4, <1>5, SoundAfter DEF Inv

\* It refuses one, and answers that.
LEMMA RefuseKeeps ==
    ASSUME Inv, NEW p \in posts, Refuse(p)
    PROVE  Inv'
<1>1. /\ UNCHANGED <<server, cookie, tabs, loads>>
      /\ Answered(p, "EXPIRED") \/ Answered(p, "REFUSED")
  BY DEF Refuse
<1>2. /\ \A q \in posts' : SoundPost(q, row)
      /\ \A q \in posts' : open[q.tab] \/ q.reach \in {"APP", "NOWHERE"}
  BY <1>1, AnsweredIsSound
<1>3. Typed' /\ row' = row
  BY <1>1 DEF Inv, Typed, server, tabs
<1>4. Sound(row, data', dialog', loads', posts') /\ Attached(open', dialog', loads', posts')
  BY <1>1, <1>2 DEF Inv, Sound, Attached, tabs
<1> QED
  BY <1>3, <1>4, SoundAfter DEF Inv, Moved

\* A load that goes on, in its place.
LEMMA LoadGoesOn ==
    ASSUME Inv, NEW l \in loads, ~l.aborted, NEW k, SoundLoad(k, row, data),
           k.tab = l.tab, ~k.aborted, loads' = (loads \ {l}) \cup {k},
           UNCHANGED <<server, cookie, tabs, posts>>
    PROVE  Inv'
<1>1. Typed' /\ row' = row
  BY DEF Inv, Typed, server, tabs
<1>2. OneLoad(loads')
  BY DEF Inv, Sound, OneLoad
<1>3. Sound(row, data', dialog', loads', posts')
  BY <1>2 DEF Inv, Sound, tabs
<1>4. Attached(open', dialog', loads', posts')
  BY DEF Inv, Attached, tabs
<1> QED
  BY <1>1, <1>3, <1>4, SoundAfter DEF Inv, Moved

\* A load reads the row that is there.
LEMMA ReadRowKeeps ==
    ASSUME Inv, NEW l \in loads, ReadRow(l)
    PROVE  Inv'
<1> DEFINE stage == IF l.cookie \notin sessions THEN "EXPIRED"
                    ELSE IF row = Gone THEN "MISSING" ELSE "ROW"
           detail == IF stage = "ROW" THEN Detail(row, FALSE) ELSE Blank
           k == [l EXCEPT !.stage = stage, !.detail = detail, !.cookie = Nobody]
<1>1. /\ loads' = (loads \ {l}) \cup {k} /\ l.stage = "SENT"
      /\ UNCHANGED <<server, cookie, tabs, posts>>
  BY DEF ReadRow
<1>2. Typed /\ SoundLoad(l, row, data) /\ l \in LoadType
  BY DEF Inv, Sound, SoundLoad
<1>3. ~l.aborted
  BY <1>1, <1>2 DEF SoundLoad
<1>4. row \in RowType /\ row.revision \in Nat /\ Blank \in DetailType
  BY <1>2, BlankIsKnown DEF Typed, RowType
<1>5. stage \in {"EXPIRED", "MISSING", "ROW"} /\ (stage = "ROW" => row # Gone)
  OBVIOUS
<1>6. detail \in DetailType /\ (stage = "ROW" => detail.row = row)
  BY <1>4 DEF Detail, DetailType
<1> HIDE DEF stage, detail
<1>7. /\ k \in LoadType /\ k.tab = l.tab /\ k.stage = stage /\ k.detail = detail
      /\ k.aborted = l.aborted
  BY <1>2, <1>5, <1>6 DEF LoadType, Identities
<1>8. stage = "ROW" => row.revision >= data[l.tab].row.revision
  <2>1. l.tab \in Tabs
    BY <1>2 DEF LoadType
  <2>2. Known(data[l.tab], row) /\ data[l.tab] \in DetailType
    BY <2>1 DEF Inv, Typed, Sound
  <2>3. data[l.tab].row.revision \in Nat
    BY <2>2 DEF DetailType, RowType
  <2> QED
    BY <1>4, <1>5, <2>2, <2>3 DEF Known
<1>9. SoundLoad(k, row, data)
  <2>1. stage = "ROW" => Past(detail.row, row)
    BY <1>4, <1>6 DEF Past
  <2> HIDE DEF k
  <2> QED
    BY <1>3, <1>5, <1>6, <1>7, <1>8, <2>1 DEF SoundLoad
<1> HIDE DEF k
<1> QED
  BY <1>1, <1>3, <1>7, <1>9, LoadGoesOn

\* It finds the resolvers unless the row it read has been edited since.
LEMMA ReadResolversKeeps ==
    ASSUME Inv, NEW l \in loads, ReadResolvers(l)
    PROVE  Inv'
<1> DEFINE whole == l.detail.row.question = row.question
           k == [l EXCEPT !.stage = "READ", !.detail.whole = whole]
<1>1. /\ loads' = (loads \ {l}) \cup {k} /\ l.stage = "ROW"
      /\ UNCHANGED <<server, cookie, tabs, posts>>
  BY DEF ReadResolvers
<1>2. SoundLoad(l, row, data) /\ l \in LoadType /\ l.detail \in DetailType
  BY DEF Inv, Sound, SoundLoad, LoadType
<1>3. ~l.aborted /\ Past(l.detail.row, row) /\ l.detail.row.revision >= data[l.tab].row.revision
  BY <1>1, <1>2 DEF SoundLoad
<1>4. whole \in BOOLEAN /\ (l.detail.row = row => whole)
  OBVIOUS
<1> HIDE DEF whole
<1>5. /\ k \in LoadType /\ k.tab = l.tab /\ k.stage = "READ" /\ k.aborted = l.aborted
      /\ k.detail = Detail(l.detail.row, whole)
  BY <1>2, <1>4 DEF LoadType, DetailType, Detail
<1> HIDE DEF k
<1>6. k.detail.row = l.detail.row
  BY <1>5 DEF Detail
<1>7. Known(k.detail, row)
  BY <1>3, <1>4, <1>5, <1>6 DEF Known, Past
<1>8. SoundLoad(k, row, data)
  BY <1>3, <1>5, <1>6, <1>7 DEF SoundLoad
<1> QED
  BY <1>1, <1>3, <1>5, <1>8, LoadGoesOn

-----------------------------------------------------------------------------
(******************************** elsewhere ********************************)

\* What other browsers and tabs do.
LEMMA ElsewhereKeeps ==
    ASSUME Inv, Elsewhere
    PROVE  Inv'
<1>1. \A q \in Sessions : q \in Identities
  BY DEF Identities
<1>2. UNCHANGED <<tabs, loads, posts>>
  BY DEF Elsewhere, ChangeElsewhere, EndSession, SignInElsewhere
<1>3. cookie' \in Identities /\ sessions' \subseteq Sessions
  BY <1>1 DEF Elsewhere, ChangeElsewhere, EndSession, SignInElsewhere, StartSession, Inv, Typed
<1>4. Moved(row, row')
  <2>1. CASE \E kind \in Others : ChangeElsewhere(kind)
    <3>1. PICK kind \in Others : row # Gone /\ row' = Written(kind)
      BY <2>1 DEF ChangeElsewhere
    <3>2. kind \in {"edit", "timing", "toggle", "delete"}
      BY <3>1, BoundsAssumption
    <3>3. row \in RowType
      BY DEF Inv, Typed
    <3> QED
      BY <3>1, <3>2, <3>3, WrittenMoves
  <2>2. CASE row' = row
    BY <2>2 DEF Moved
  <2> QED
    BY <2>1, <2>2 DEF Elsewhere, EndSession, SignInElsewhere, StartSession
<1>5. Typed'
  BY <1>2, <1>3, <1>4, MovedIsTyped DEF Inv, Typed, tabs
<1>6. Sound(row, data', dialog', loads', posts') /\ Attached(open', dialog', loads', posts')
  BY <1>2 DEF Inv, tabs
<1> QED
  BY <1>4, <1>5, <1>6, SoundAfter DEF Inv

-----------------------------------------------------------------------------
(******************************** the pages ********************************)

\* A tab signs in.
LEMMA SignInKeeps ==
    ASSUME Inv, NEW tab \in Tabs, NEW s \in Sessions, SignIn(tab, s)
    PROVE  Inv'
<1>1. /\ row' = row /\ sessions' = sessions \cup {s} /\ cookie' = s
      /\ identity' = [identity EXCEPT ![tab] = s]
      /\ UNCHANGED <<open, data, dialog, loads, posts>>
  BY DEF SignIn, StartSession
<1>2. Typed'
  BY <1>1 DEF Inv, Typed, Identities
<1>3. Sound(row, data', dialog', loads', posts') /\ Attached(open', dialog', loads', posts')
  BY <1>1 DEF Inv
<1> QED
  BY <1>1, <1>2, <1>3, SoundAfter DEF Inv, Moved

\* A tab that starts over waits for nothing.
LEMMA ReloadKeeps ==
    ASSUME Inv, NEW tab \in Tabs, Reload(tab)
    PROVE  Inv'
<1>1. /\ row' = row /\ sessions' = sessions /\ cookie' = cookie
      /\ identity' = [identity EXCEPT ![tab] = IF cookie \in sessions THEN cookie ELSE Nobody]
      /\ ClosePage(tab)
      /\ loads' = {l \in loads : l.tab # tab}
      /\ posts' = Cut(posts, tab, {"DIALOG", "PAGE", "APP"}, "NOWHERE")
  BY DEF Reload, server
<1>2. Typed'
  BY <1>1, PageCloses DEF Inv, Typed, Identities
<1>3. loads' \in SUBSET Aborted(loads, tab)
  BY <1>1 DEF Aborted
<1>4. Sound(row, data', dialog', loads', posts') /\ Attached(open', dialog', loads', posts')
  <2> DEFINE from == {"DIALOG", "PAGE", "APP"}
  <2>1. "DIALOG" \in from /\ "PAGE" \in from /\ posts' = Cut(posts, tab, from, "NOWHERE")
    BY <1>1
  <2> HIDE DEF from
  <2> QED
    BY <1>1, <1>3, <2>1, PageIsLeft
<1> QED
  BY <1>1, <1>2, <1>4, SoundAfter DEF Inv, Moved

\* A page that is left, by its user, for want of a session or for want of its monitor.
LEMMA LeavingKeeps ==
    ASSUME Inv, NEW tab \in Tabs, ClosePage(tab), UNCHANGED server,
           cookie' \in {cookie, Nobody},
           identity' \in {identity, [identity EXCEPT ![tab] = Nobody]},
           NEW ls \in SUBSET loads, loads' = Aborted(ls, tab),
           NEW ps \in SUBSET posts, posts' = Cut(ps, tab, {"DIALOG", "PAGE"}, "APP")
    PROVE  Inv'
<1>1. Typed' /\ row' = row
  BY PageCloses DEF Inv, Typed, Identities, server
<1>2. Sound(row, data', dialog', loads', posts') /\ Attached(open', dialog', loads', posts')
  <2> DEFINE from == {"DIALOG", "PAGE"}
  <2>1. "DIALOG" \in from /\ "PAGE" \in from /\ posts' = Cut(ps, tab, from, "APP")
    OBVIOUS
  <2>2. loads' \in SUBSET Aborted(ls, tab)
    OBVIOUS
  <2> HIDE DEF from
  <2> QED
    BY <2>1, <2>2, PageIsLeft
<1> QED
  BY <1>1, <1>2, SoundAfter DEF Inv, Moved

\* A page is left by its user.
LEMMA LeavePageKeeps ==
    ASSUME Inv, NEW tab \in Tabs, LeavePage(tab)
    PROVE  Inv'
BY LeavingKeeps DEF LeavePage

\* A page that is open, or opens, starts a load when it has none.
LEMMA LoadingKeeps ==
    ASSUME Inv, NEW tab \in Tabs, \A l \in loads : l.tab = tab => l.aborted,
           loads' = loads \cup {NewLoad(tab)},
           open' = [open EXCEPT ![tab] = TRUE],
           UNCHANGED <<server, cookie, identity, data, dialog, posts>>
    PROVE  Inv'
<1>1. Typed' /\ row' = row
  BY DEF Inv, Typed, server
<1>2. \A t \in Tabs : (open[t] => open'[t]) /\ open'[tab]
  BY DEF Inv, Typed
<1>3. /\ \A l \in loads' : SoundLoad(l, row, data')
      /\ OneLoad(loads')
  BY NewLoadIsSound DEF Inv, Sound
<1>4. Sound(row, data', dialog', loads', posts')
  <2>1. \A t \in Tabs : Known(data'[t], row) /\ Known(dialog'[t].shown, row)
    BY DEF Inv, Sound
  <2>2. \A p \in posts' : SoundPost(p, row)
    BY DEF Inv, Sound
  <2> QED
    BY <1>3, <2>1, <2>2 DEF Sound
<1>5. Attached(open', dialog', loads', posts')
  <2>1. \A l \in loads : l.tab \in Tabs
    BY DEF Inv, Sound, SoundLoad, LoadType
  <2>2. \A p \in posts : p.tab \in Tabs
    BY DEF Inv, Sound, SoundPost, PostType
  <2>3. NewLoad(tab).tab = tab
    BY DEF NewLoad
  <2> QED
    BY <1>2, <2>1, <2>2, <2>3 DEF Inv, Attached
<1> QED
  BY <1>1, <1>4, <1>5, SoundAfter DEF Inv, Moved

\* A page that opens has no load yet.
LEMMA OpenPageKeeps ==
    ASSUME Inv, NEW tab \in Tabs, OpenPage(tab)
    PROVE  Inv'
<1>1. \A l \in loads : l.tab = tab => l.aborted
  BY DEF OpenPage, Inv, Attached
<1> QED
  BY <1>1, LoadingKeeps DEF OpenPage

\* A page polls when no load of it is in flight.
LEMMA PollKeeps ==
    ASSUME Inv, NEW tab \in Tabs, Poll(tab)
    PROVE  Inv'
<1>1. \A l \in loads : l.tab = tab => l.aborted
  <2>1. \A l \in loads : l.aborted \in BOOLEAN
    BY DEF Inv, Sound, SoundLoad, LoadType
  <2> QED
    BY <2>1 DEF Poll, inFlight
<1>2. open' = [open EXCEPT ![tab] = TRUE]
  BY DEF Poll, tabs, Inv, Typed
<1> QED
  BY <1>1, <1>2, LoadingKeeps DEF Poll, tabs

\* An answer to a load reaches the page: it is the only load that may.
LEMMA SettleKeeps ==
    ASSUME Inv, NEW l \in loads, Settle(l)
    PROVE  Inv'
<1>1. Typed /\ SoundLoad(l, row, data) /\ l \in LoadType /\ l.tab \in Tabs
  BY DEF Inv, Sound, SoundLoad, LoadType
<1>2. CASE l.stage = "EXPIRED"
  <2>1. SignedOut(l.tab, loads \ {l}, posts) /\ UNCHANGED <<server, cookie>>
    BY <1>2 DEF Settle
  <2> QED
    BY <1>1, <2>1, LeavingKeeps DEF SignedOut
<1>3. CASE l.stage = "READ"
  <2>1. /\ data' = [data EXCEPT ![l.tab] = l.detail]
        /\ loads' = loads \ {l}
        /\ UNCHANGED <<server, cookie, identity, open, dialog, posts>>
    BY <1>3 DEF Settle
  <2>2. l.detail \in DetailType /\ Known(l.detail, row) /\ ~l.aborted
    BY <1>1, <1>3 DEF SoundLoad, LoadType
  <2>3. Typed' /\ row' = row
    BY <1>1, <2>1, <2>2 DEF Typed, server
  <2>4. \A tab \in Tabs : data'[tab] = IF tab = l.tab THEN l.detail ELSE data[tab]
    BY <1>1, <2>1 DEF Typed
  <2>5. \A tab \in Tabs : Known(data'[tab], row) /\ Known(dialog'[tab].shown, row)
    BY <2>1, <2>2, <2>4 DEF Inv, Sound
  <2>6. \A k \in loads' : SoundLoad(k, row, data')
    <3> TAKE k \in loads'
    <3>1. SoundLoad(k, row, data) /\ k \in LoadType /\ k.tab \in Tabs /\ k \in loads /\ k # l
      BY <2>1 DEF Inv, Sound, SoundLoad, LoadType
    <3>2. CASE k.tab # l.tab
      BY <2>4, <3>1, <3>2 DEF SoundLoad
    <3>3. CASE k.tab = l.tab
      <4>1. k.aborted
        BY <2>2, <3>1, <3>3 DEF Inv, Sound, OneLoad
      <4>2. k.stage = "EXPIRED"
        BY <3>1, <4>1 DEF SoundLoad
      <4> QED
        BY <3>1, <4>2 DEF SoundLoad
    <3> QED
      BY <3>2, <3>3
  <2>7. Sound(row, data', dialog', loads', posts') /\ Attached(open', dialog', loads', posts')
    BY <2>1, <2>5, <2>6 DEF Inv, Sound, OneLoad, Attached
  <2> QED
    BY <2>3, <2>7, SoundAfter DEF Inv, Moved
<1>4. CASE l.stage = "MISSING"
  <2>1. loads' = loads \ {l} /\ UNCHANGED <<server, cookie, tabs, posts>>
    BY <1>4 DEF Settle
  <2>2. Typed' /\ row' = row
    BY <1>1, <2>1 DEF Typed, server, tabs
  <2>3. Sound(row, data', dialog', loads', posts') /\ Attached(open', dialog', loads', posts')
    BY <2>1 DEF Inv, Sound, OneLoad, Attached, tabs
  <2> QED
    BY <2>2, <2>3, SoundAfter DEF Inv, Moved
<1> QED
  BY <1>2, <1>3, <1>4 DEF Settle

-----------------------------------------------------------------------------
(******************************** mutations ********************************)

\* A dialog keeps the detail the page shows.
LEMMA OpenDialogKeeps ==
    ASSUME Inv, NEW tab \in Tabs, NEW kind \in Changing, OpenDialog(tab, kind)
    PROVE  Inv'
<1> DEFINE opened == [kind |-> kind, shown |-> data[tab]]
<1>1. /\ open[tab] /\ dialog' = [dialog EXCEPT ![tab] = opened]
      /\ UNCHANGED <<server, cookie, identity, open, data, loads, posts>>
  BY DEF OpenDialog
<1>2. /\ opened \in [kind : Changing \cup {"none"}, shown : DetailType]
      /\ opened.shown = data[tab]
  BY DEF Inv, Typed
<1> HIDE DEF opened
<1>3. Typed' /\ row' = row
  BY <1>1, <1>2 DEF Inv, Typed, server
<1>4. \A t \in Tabs : dialog'[t] = IF t = tab THEN opened ELSE dialog[t]
  BY <1>1 DEF Inv, Typed
<1>5. \A t \in Tabs : Known(data'[t], row) /\ Known(dialog'[t].shown, row)
  BY <1>1, <1>2, <1>4 DEF Inv, Sound
<1>6. \A t \in Tabs : open'[t] \/ dialog'[t] = NoDialog
  BY <1>1, <1>4 DEF Inv, Attached
<1>7. Sound(row, data', dialog', loads', posts') /\ Attached(open', dialog', loads', posts')
  BY <1>1, <1>5, <1>6 DEF Inv, Sound, Attached
<1> QED
  BY <1>3, <1>7, SoundAfter DEF Inv, Moved

\* A dialog that closes, and whose mutations the page waits for.
LEMMA DialogCloses ==
    ASSUME Inv, NEW tab \in Tabs, dialog' = [dialog EXCEPT ![tab] = NoDialog],
           NEW ps \in SUBSET posts, posts' = Cut(ps, tab, {"DIALOG"}, "PAGE")
    PROVE  /\ dialog' \in [Tabs -> [kind : Changing \cup {"none"}, shown : DetailType]]
           /\ \A t \in Tabs : Known(dialog'[t].shown, row)
           /\ \A t \in Tabs : open[t] \/ dialog'[t] = NoDialog
           /\ \A p \in posts' : SoundPost(p, row)
           /\ \A p \in posts' : open[p.tab] \/ p.reach \in {"APP", "NOWHERE"}
<1>1. /\ NoDialog \in [kind : Changing \cup {"none"}, shown : DetailType]
      /\ Known(NoDialog.shown, row)
  BY BlankIsKnown DEF Inv
<1>2. dialog' \in [Tabs -> [kind : Changing \cup {"none"}, shown : DetailType]]
  BY <1>1 DEF Inv, Typed
<1>3. \A t \in Tabs : dialog'[t] = IF t = tab THEN NoDialog ELSE dialog[t]
  BY DEF Inv, Typed
<1>4. \A t \in Tabs : Known(dialog'[t].shown, row) /\ (open[t] \/ dialog'[t] = NoDialog)
  BY <1>1, <1>3 DEF Inv, Sound, Attached
<1>5. /\ \A p \in ps : SoundPost(p, row) /\ p \in PostType
      /\ \A p \in ps : open[p.tab] \/ p.reach \in {"APP", "NOWHERE"}
  BY DEF Inv, Sound, Attached, SoundPost
<1>6. \A p \in posts' : SoundPost(p, row)
  BY <1>5, CutIsSound
<1>7. \A p \in posts' : open[p.tab] \/ p.reach \in {"APP", "NOWHERE"}
  <2> TAKE q \in posts'
  <2> DEFINE from == {"DIALOG"}
  <2>1. \A r \in from : r = "DIALOG"
    OBVIOUS
  <2>2. q \in Cut(ps, tab, from, "PAGE")
    OBVIOUS
  <2> HIDE DEF from
  <2>3. PICK p \in ps :
          /\ q.tab = p.tab
          /\ \/ q = p /\ ~(p.tab = tab /\ p.reach \in from)
             \/ q.reach = "PAGE" /\ p.tab = tab /\ p.reach \in from
    BY <1>5, <2>2, CutOf
  <2> QED
    BY <1>5, <2>1, <2>3
<1> QED
  BY <1>2, <1>4, <1>6, <1>7

\* A dialog is cancelled.
LEMMA CancelKeeps ==
    ASSUME Inv, NEW tab \in Tabs, Cancel(tab)
    PROVE  Inv'
<1>1. /\ dialog' = [dialog EXCEPT ![tab] = NoDialog]
      /\ posts' = Cut(posts, tab, {"DIALOG"}, "PAGE")
      /\ UNCHANGED <<server, cookie, identity, open, data, loads>>
  BY DEF Cancel
<1>2. /\ dialog' \in [Tabs -> [kind : Changing \cup {"none"}, shown : DetailType]]
      /\ \A t \in Tabs : Known(dialog'[t].shown, row)
      /\ \A t \in Tabs : open[t] \/ dialog'[t] = NoDialog
      /\ \A p \in posts' : SoundPost(p, row)
      /\ \A p \in posts' : open[p.tab] \/ p.reach \in {"APP", "NOWHERE"}
  BY <1>1, DialogCloses
<1>3. Typed' /\ row' = row
  BY <1>1, <1>2 DEF Inv, Typed, server
<1>4. Sound(row, data', dialog', loads', posts') /\ Attached(open', dialog', loads', posts')
  BY <1>1, <1>2 DEF Inv, Sound, Attached
<1> QED
  BY <1>3, <1>4, SoundAfter DEF Inv, Moved

\* A mutation that is sent.
LEMMA SendKeeps ==
    ASSUME Inv, NEW tab \in Tabs, NEW kind \in Changing \cup {"toggle", "logout", "password"},
           NEW revision \in Nat, NEW shown \in DetailType, Known(shown, row),
           kind \in {"edit", "delete"} => revision = shown.row.revision,
           NEW reach \in {"DIALOG", "PAGE", "APP"}, open[tab] \/ reach = "APP",
           Send(tab, kind, revision, shown, reach), UNCHANGED <<server, cookie, tabs, loads>>
    PROVE  Inv'
<1> DEFINE p == [tab |-> tab, kind |-> kind, revision |-> revision, shown |-> shown,
                 csrf |-> identity[tab], cookie |-> cookie, reach |-> reach, stage |-> "SENT"]
<1>1. posts' = posts \cup {p}
  BY DEF Send
<1>2. /\ p \in PostType
      /\ p.tab = tab /\ p.kind = kind /\ p.revision = revision /\ p.shown = shown
      /\ p.reach = reach
  BY DEF PostType, Inv, Typed
<1> HIDE DEF p
<1>3. SoundPost(p, row) /\ (open[p.tab] \/ p.reach \in {"APP", "NOWHERE"})
  BY <1>2 DEF SoundPost
<1>4. Typed' /\ row' = row
  BY DEF Inv, Typed, server, tabs
<1>5. Sound(row, data', dialog', loads', posts') /\ Attached(open', dialog', loads', posts')
  BY <1>1, <1>3 DEF Inv, Sound, Attached, tabs
<1> QED
  BY <1>4, <1>5, SoundAfter DEF Inv, Moved

\* A dialog sends the revision it shows.
LEMMA SubmitKeeps ==
    ASSUME Inv, NEW tab \in Tabs, NEW kind \in Changing, NEW revision \in Nat,
           kind \in {"edit", "delete"} => revision = Revision(tab),
           Submit(tab, kind, revision)
    PROVE  Inv'
<1>1. /\ dialog[tab].kind = kind
      /\ Send(tab, kind, revision, dialog[tab].shown, "DIALOG")
      /\ UNCHANGED <<server, cookie, tabs, loads>>
  BY DEF Submit
<1>2. dialog[tab].shown \in DetailType /\ Known(dialog[tab].shown, row)
  BY DEF Inv, Typed, Sound
<1>3. open[tab]
  <2>1. dialog[tab] # NoDialog
    BY <1>1 DEF NoDialog, Changing
  <2> QED
    BY <2>1 DEF Inv, Attached
<1>4. kind \in {"edit", "delete"} => revision = dialog[tab].shown.row.revision
  BY DEF Revision
<1> QED
  BY <1>1, <1>2, <1>3, <1>4, SendKeeps

\* What a tab asks of the server.
LEMMA AskingKeeps ==
    ASSUME Inv, NEW tab \in Tabs,
           \/ SubmitEdit(tab) \/ SubmitTiming(tab) \/ SubmitDelete(tab)
           \/ Toggle(tab) \/ Logout(tab) \/ ChangePassword(tab)
    PROVE  Inv'
<1>1. Revision(tab) \in Nat
  BY DEF Revision, Inv, Typed, DetailType, RowType
<1>2. CASE SubmitEdit(tab)
  BY <1>1, <1>2, SubmitKeeps DEF SubmitEdit, Changing
<1>3. CASE SubmitTiming(tab)
  BY <1>3, SubmitKeeps DEF SubmitTiming, Changing
<1>4. CASE SubmitDelete(tab)
  BY <1>1, <1>4, SubmitKeeps DEF SubmitDelete, Changing
<1>5. Blank \in DetailType /\ Known(Blank, row)
  BY BlankIsKnown DEF Inv
<1>6. CASE Toggle(tab)
  <2>1. /\ open[tab] /\ Send(tab, "toggle", 0, Blank, "PAGE")
        /\ UNCHANGED <<server, cookie, tabs, loads>>
    BY <1>6 DEF Toggle
  <2> QED
    BY <1>5, <2>1, SendKeeps
<1>7. ASSUME NEW kind \in {"logout", "password"}, Leave(tab, kind)
      PROVE  Inv'
  <2>1. /\ Send(tab, kind, 0, Blank, "APP")
        /\ UNCHANGED <<server, cookie, tabs, loads>>
    BY <1>7 DEF Leave
  <2>2. kind \notin {"edit", "delete"}
    BY <1>7
  <2> QED
    BY <1>5, <2>1, <2>2, SendKeeps
<1>8. CASE Logout(tab)
  BY <1>7, <1>8 DEF Logout
<1>9. CASE ChangePassword(tab)
  BY <1>7, <1>9 DEF ChangePassword
<1> QED
  BY <1>2, <1>3, <1>4, <1>6, <1>8, <1>9

\* A page loads again after a mutation.
LEMMA SavedKeeps ==
    ASSUME Inv, NEW p \in posts, p.reach \in {"DIALOG", "PAGE"}, Saved(p), UNCHANGED server
    PROVE  Inv'
<1>1. p.tab \in Tabs /\ open[p.tab]
  BY DEF Inv, Attached, Sound, SoundPost, PostType
<1>2. /\ loads' = Aborted(loads, p.tab) \cup {NewLoad(p.tab)}
      /\ UNCHANGED <<server, cookie, identity, open, data>>
  BY DEF Saved
<1>3. /\ \A l \in loads' : SoundLoad(l, row, data)
      /\ OneLoad(loads')
  <2>1. /\ \A l \in Aborted(loads, p.tab) : SoundLoad(l, row, data)
        /\ OneLoad(Aborted(loads, p.tab))
        /\ \A l \in Aborted(loads, p.tab) : l.tab = p.tab => l.aborted
    BY <1>1, AbortedIsSound DEF Inv, Sound
  <2> QED
    BY <1>1, <1>2, <2>1, NewLoadIsSound DEF Inv
<1>4. \A l \in loads' : open[l.tab] \/ l.aborted
  <2>1. NewLoad(p.tab).tab = p.tab
    BY DEF NewLoad
  <2>2. \A l \in Aborted(loads, p.tab) : l \in loads \/ l.tab = p.tab
    <3>1. \A m \in loads : m.tab = p.tab => [m EXCEPT !.aborted = TRUE].tab = p.tab
      BY DEF Inv, Sound, SoundLoad, LoadType
    <3> QED
      BY <3>1 DEF Aborted
  <2> QED
    BY <1>1, <1>2, <2>1, <2>2 DEF Inv, Attached
<1>5. /\ dialog' \in [Tabs -> [kind : Changing \cup {"none"}, shown : DetailType]]
      /\ \A t \in Tabs : Known(dialog'[t].shown, row)
      /\ \A t \in Tabs : open[t] \/ dialog'[t] = NoDialog
      /\ \A q \in posts' : SoundPost(q, row)
      /\ \A q \in posts' : open[q.tab] \/ q.reach \in {"APP", "NOWHERE"}
  <2>1. CASE dialog[p.tab].kind = p.kind
    <3>1. /\ dialog' = [dialog EXCEPT ![p.tab] = NoDialog]
          /\ posts' = Cut(posts \ {p}, p.tab, {"DIALOG"}, "PAGE")
      BY <2>1 DEF Saved
    <3> QED
      BY <1>1, <3>1, DialogCloses
  <2>2. CASE dialog[p.tab].kind # p.kind
    <3>1. dialog' = dialog /\ posts' = posts \ {p}
      BY <2>2 DEF Saved
    <3> QED
      BY <3>1 DEF Inv, Typed, Sound, Attached
  <2> QED
    BY <2>1, <2>2
<1>6. Typed' /\ row' = row
  BY <1>2, <1>5 DEF Inv, Typed, server
<1>7. \A t \in Tabs : Known(data'[t], row)
  BY <1>2 DEF Inv, Sound
<1>8. Sound(row, data', dialog', loads', posts') /\ Attached(open', dialog', loads', posts')
  BY <1>2, <1>3, <1>4, <1>5, <1>7 DEF Sound, Attached
<1> QED
  BY <1>6, <1>8, SoundAfter DEF Inv, Moved

\* An answer to a mutation reaches whoever still waits for it.
LEMMA ReceiveKeeps ==
    ASSUME Inv, NEW p \in posts, Receive(p)
    PROVE  Inv'
<1>1. p.tab \in Tabs /\ UNCHANGED server
  BY DEF Receive, Inv, Sound, SoundPost, PostType
<1>2. CASE SignedOut(p.tab, loads, posts \ {p}) /\ cookie' \in {cookie, Nobody}
  BY <1>1, <1>2, LeavingKeeps DEF SignedOut
<1>3. CASE /\ ClosePage(p.tab) /\ loads' = Aborted(loads, p.tab)
           /\ posts' = Cut(posts \ {p}, p.tab, {"DIALOG", "PAGE"}, "APP")
           /\ UNCHANGED <<cookie, identity>>
  BY <1>1, <1>3, LeavingKeeps
<1>4. CASE p.reach \in {"DIALOG", "PAGE"} /\ Saved(p)
  BY <1>1, <1>4, SavedKeeps
<1>5. CASE posts' = posts \ {p} /\ UNCHANGED <<cookie, tabs, loads>>
  <2>1. Typed' /\ row' = row
    BY <1>1, <1>5 DEF Inv, Typed, server, tabs
  <2>2. Sound(row, data', dialog', loads', posts') /\ Attached(open', dialog', loads', posts')
    BY <1>5 DEF Inv, Sound, Attached, tabs
  <2> QED
    BY <2>1, <2>2, SoundAfter DEF Inv, Moved
<1> QED
  BY <1>2, <1>3, <1>4, <1>5 DEF Receive

\* Requests that are lost.
LEMMA LoseKeeps ==
    ASSUME Inv, Lose
    PROVE  Inv'
<1>1. /\ loads' \in SUBSET loads /\ posts' \in SUBSET posts
      /\ UNCHANGED <<server, cookie, tabs>>
  BY DEF Lose
<1>2. Typed' /\ row' = row
  BY <1>1 DEF Inv, Typed, server, tabs
<1>3. Sound(row, data', dialog', loads', posts') /\ Attached(open', dialog', loads', posts')
  BY <1>1 DEF Inv, Sound, OneLoad, Attached, tabs
<1> QED
  BY <1>2, <1>3, SoundAfter DEF Inv, Moved

-----------------------------------------------------------------------------
(****************************** the invariant ******************************)

\* No tab shows anything at first.
LEMMA InvInit ==
    ASSUME Init
    PROVE  Inv
<1> DEFINE first == [revision |-> 1, question |-> 1, timing |-> 1]
<1>1. first \in RowType /\ first.revision = 1
  BY DEF RowType
<1>2. row = first
  BY DEF Init
<1> HIDE DEF first
<1>3. /\ Blank \in DetailType
      /\ NoDialog \in [kind : Changing \cup {"none"}, shown : DetailType]
      /\ NoDialog.shown = Blank /\ Blank.row.revision = 0
  <2>1. Gone \in RowType /\ Gone.revision = 0
    BY DEF Gone, RowType
  <2>2. Blank \in DetailType /\ Blank.row = Gone
    BY <2>1 DEF Blank, Detail, DetailType
  <2> QED
    BY <2>1, <2>2 DEF NoDialog
<1>4. Typed
  BY <1>1, <1>2, <1>3 DEF Init, Typed, Identities
<1>5. Known(Blank, row)
  <2>1. Blank.row.revision <= row.revision /\ Blank.row.revision # row.revision
    BY <1>1, <1>2, <1>3
  <2> QED
    BY <2>1 DEF Known
<1>6. \A tab \in Tabs : Known(data[tab], row) /\ Known(dialog[tab].shown, row)
  BY <1>3, <1>5 DEF Init
<1>7. loads = {} /\ posts = {}
  BY DEF Init
<1>8. Sound(row, data, dialog, loads, posts)
  BY <1>6, <1>7 DEF Sound, OneLoad
<1>9. Attached(open, dialog, loads, posts)
  BY <1>7 DEF Init, Attached
<1> QED
  BY <1>4, <1>8, <1>9 DEF Inv

\* Every step keeps the invariant.
LEMMA InvStep ==
    ASSUME Inv, [Next]_vars
    PROVE  Inv'
<1>1. CASE Elsewhere
  BY <1>1, ElsewhereKeeps
<1>2. CASE Posting
  BY <1>2, RefuseKeeps, AcceptKeeps, ReceiveKeeps DEF Posting
<1>3. CASE Lose
  BY <1>3, LoseKeeps
<1>4. ASSUME NEW tab \in Tabs, Browsing(tab)
      PROVE  Inv'
  <2>1. CASE \E s \in Sessions : SignIn(tab, s)
    BY <2>1, SignInKeeps
  <2>2. CASE Reload(tab) \/ OpenPage(tab) \/ LeavePage(tab) \/ Poll(tab)
    BY <2>2, ReloadKeeps, OpenPageKeeps, LeavePageKeeps, PollKeeps
  <2>3. CASE (\E kind \in Changing : OpenDialog(tab, kind)) \/ Cancel(tab)
    BY <2>3, OpenDialogKeeps, CancelKeeps
  <2>4. CASE \/ SubmitEdit(tab) \/ SubmitTiming(tab) \/ SubmitDelete(tab)
             \/ Toggle(tab) \/ Logout(tab) \/ ChangePassword(tab)
    BY <2>4, AskingKeeps
  <2> QED
    BY <1>4, <2>1, <2>2, <2>3, <2>4 DEF Browsing
<1>5. ASSUME NEW tab \in Tabs, Loading(tab)
      PROVE  Inv'
  <2>1. PICK l \in loads : ReadRow(l) \/ ReadResolvers(l) \/ Settle(l)
    BY <1>5 DEF Loading, ReadingRow, ReadingResolvers, Settling, LoadsOf
  <2> QED
    BY <2>1, ReadRowKeeps, ReadResolversKeeps, SettleKeeps
<1>6. CASE UNCHANGED vars
  BY <1>6 DEF vars, server, tabs, Inv, Typed, Sound, OneLoad, Attached
<1> QED
  BY <1>1, <1>2, <1>3, <1>4, <1>5, <1>6 DEF Next

\* The invariant of the client and the API it meets.
LEMMA InvHolds == Spec => []Inv
<1>1. Init => Inv
  BY InvInit
<1>2. Inv /\ [Next]_vars => Inv'
  BY InvStep
<1> QED
  BY <1>1, <1>2, PTL DEF Spec

-----------------------------------------------------------------------------
(***************************** what it promises ****************************)

\* Nobody but the server does what a mutation asks.
LEMMA OnlyAccept ==
    ASSUME Next, NEW p \in posts, Accepted(p)
    PROVE  Accept(p)
<1>1. p \notin posts' /\ (row' # row \/ sessions' # sessions)
  BY DEF Accepted
<1>2. posts' # posts
  BY <1>1
<1>3. CASE Elsewhere
  BY <1>2, <1>3 DEF Elsewhere, ChangeElsewhere, EndSession, SignInElsewhere
<1>4. CASE Posting
  <2>1. PICK q \in posts : Refuse(q) \/ Accept(q) \/ Receive(q)
    BY <1>4 DEF Posting
  <2>2. Accept(q)
    BY <1>1, <2>1 DEF Refuse, Receive, server
  <2>3. posts' = (posts \ {q}) \cup {Answer(q, "OK")}
    BY <2>2 DEF Accept, Answered
  <2> QED
    BY <1>1, <2>2, <2>3
<1>5. CASE Lose
  BY <1>1, <1>5 DEF Lose, server
<1>6. ASSUME NEW tab \in Tabs, Browsing(tab)
      PROVE  FALSE
  <2>1. CASE \E s \in Sessions : SignIn(tab, s)
    BY <1>2, <2>1 DEF SignIn
  <2>2. CASE UNCHANGED server
    BY <1>1, <2>2 DEF server
  <2> QED
    BY <1>6, <2>1, <2>2
       DEF Browsing, Reload, OpenPage, LeavePage, Poll, OpenDialog, Cancel, SubmitEdit,
           SubmitTiming, SubmitDelete, Submit, Toggle, Logout, ChangePassword, Leave
<1>7. ASSUME NEW tab \in Tabs, Loading(tab)
      PROVE  FALSE
  BY <1>1, <1>7
     DEF Loading, ReadingRow, ReadingResolvers, Settling, ReadRow, ReadResolvers, Settle, server
<1> QED
  BY <1>3, <1>4, <1>5, <1>6, <1>7 DEF Next

\* ActsAsShown for every value of the constants: a mutation carries the CSRF token of the
\* session the tab shows, and the server compares it with the one of the cookie.
THEOREM WhatIsDoneIsAsShown == Spec => ActsAsShown
<1>1. ASSUME [Next]_vars, NEW p \in posts, Accepted(p)
      PROVE  Owner[p.csrf] = Owner[p.cookie]
  <2>1. Next
    BY <1>1 DEF Accepted, vars, server
  <2>2. Accept(p)
    BY <1>1, <2>1, OnlyAccept
  <2> QED
    BY <2>2 DEF Accept, Allowed, Authentic
<1>2. [Next]_vars => [\A p \in posts : Accepted(p) => Owner[p.csrf] = Owner[p.cookie]]_vars
  BY <1>1
<1> QED
  BY <1>2, PTL DEF Spec, ActsAsShown

\* EditsAreNotLost for every value of the constants: the revision a dialog sends is that of
\* the detail it shows, and a detail that has the revision of the row is the row.
THEOREM EditsFollowWhatIsShown == Spec => EditsAreNotLost
<1>1. ASSUME Inv, [Next]_vars, NEW p \in posts, Accepted(p)
      PROVE  /\ p.kind \in {"edit", "delete"} => p.shown = Detail(row, TRUE)
             /\ p.kind = "timing" => row'.question = row.question
  <2>1. Next
    BY <1>1 DEF Accepted, vars, server
  <2>2. Accept(p)
    BY <1>1, <2>1, OnlyAccept
  <2>3. p.kind \in {"edit", "delete"} => p.shown = Detail(row, TRUE)
    <3>1. SoundPost(p, row) /\ p.stage = "SENT"
      BY <1>1 DEF Inv, Sound, Accepted
    <3> HAVE p.kind \in {"edit", "delete"}
    <3>2. row # Gone /\ p.revision = row.revision
      BY <2>2 DEF Accept, Applies
    <3> QED
      BY <3>1, <3>2 DEF SoundPost, Known
  <2>4. p.kind = "timing" => row'.question = row.question
    <3>1. row \in RowType
      BY <1>1 DEF Inv, Typed
    <3> QED
      BY <1>1, <2>2, <3>1, AcceptWrites, WrittenMoves
  <2> QED
    BY <2>3, <2>4
<1>2. Inv /\ [Next]_vars =>
        [\A p \in posts : Accepted(p) =>
           /\ p.kind \in {"edit", "delete"} => p.shown = Detail(row, TRUE)
           /\ p.kind = "timing" => row'.question = row.question]_vars
  BY <1>1
<1> QED
  BY <1>2, InvHolds, PTL DEF Spec, EditsAreNotLost

\* The safety half of PagesKeepUp: a page has one load that may still bring something, and
\* what it brings is not older than what is shown.
THEOREM PagesDoNotGoBack == Spec => PagesGoForward
<1> DEFINE Forward == \A tab \in Tabs : open[tab] /\ open'[tab] =>
                        data'[tab].row.revision >= data[tab].row.revision
<1>1. ASSUME Inv, Next, NEW tab \in Tabs, open[tab], open'[tab]
      PROVE  data'[tab].row.revision >= data[tab].row.revision
  <2>1. data[tab].row.revision \in Nat
    BY <1>1 DEF Inv, Typed, DetailType, RowType
  <2>2. CASE data'[tab] = data[tab]
    BY <2>1, <2>2
  <2>3. ASSUME NEW other \in Tabs, ClosePage(other)
        PROVE  data'[tab] = data[tab]
    BY <1>1, <2>3, PageCloses
  <2>4. CASE Elsewhere
    BY <2>2, <2>4 DEF Elsewhere, ChangeElsewhere, EndSession, SignInElsewhere, tabs
  <2>5. CASE Posting
    <3>1. PICK p \in posts : Refuse(p) \/ Accept(p) \/ Receive(p)
      BY <2>5 DEF Posting
    <3>2. p.tab \in Tabs
      BY <1>1 DEF Inv, Sound, SoundPost, PostType
    <3>3. data' = data \/ ClosePage(p.tab)
      BY <3>1 DEF Refuse, Accept, Receive, SignedOut, Saved, tabs
    <3> QED
      BY <2>2, <2>3, <3>2, <3>3
  <2>6. CASE Lose
    BY <2>2, <2>6 DEF Lose, tabs
  <2>7. ASSUME NEW other \in Tabs, Browsing(other)
        PROVE  data'[tab] = data[tab]
    <3>1. data' = data \/ ClosePage(other)
      BY <2>7 DEF Browsing, SignIn, Reload, OpenPage, LeavePage, Poll, OpenDialog, Cancel,
                  SubmitEdit, SubmitTiming, SubmitDelete, Submit, Toggle, Logout,
                  ChangePassword, Leave, tabs
    <3> QED
      BY <2>3, <3>1
  <2>8. ASSUME NEW other \in Tabs, Loading(other)
        PROVE  data'[tab].row.revision >= data[tab].row.revision
    <3>1. PICK l \in loads : ReadRow(l) \/ ReadResolvers(l) \/ Settle(l)
      BY <2>8 DEF Loading, ReadingRow, ReadingResolvers, Settling, LoadsOf
    <3>2. SoundLoad(l, row, data) /\ l.tab \in Tabs
      BY <1>1 DEF Inv, Sound, SoundLoad, LoadType
    <3>3. CASE l.stage = "READ" /\ data' = [data EXCEPT ![l.tab] = l.detail]
      <4>1. data'[tab] = IF tab = l.tab THEN l.detail ELSE data[tab]
        BY <1>1, <3>3 DEF Inv, Typed
      <4>2. l.detail.row.revision >= data[l.tab].row.revision
        BY <3>2, <3>3 DEF SoundLoad
      <4> QED
        BY <2>2, <4>1, <4>2
    <3>4. CASE data' = data \/ ClosePage(l.tab)
      BY <2>2, <2>3, <3>2, <3>4
    <3> QED
      BY <3>1, <3>3, <3>4 DEF ReadRow, ReadResolvers, Settle, SignedOut, tabs
  <2> QED
    BY <1>1, <2>2, <2>4, <2>5, <2>6, <2>7, <2>8 DEF Next
<1>2. Inv /\ [Next]_vars => [Forward]_vars
  BY <1>1
<1> QED
  BY <1>2, InvHolds, PTL DEF Spec, PagesGoForward
===============================================================================
