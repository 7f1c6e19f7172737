------------------------- MODULE BriefingPage_proofs -------------------------
(* The safety of the page of BriefingPage, for any number of days, and       *)
(* without a bound on the calls that are not answered.                       *)
EXTENDS BriefingPage, TLAPS

-----------------------------------------------------------------------------
(* The inductive invariant.                                                  *)

States == {"idle", "generating", "failed", "ready"}

Dates == 0 .. LastDay

Catalog == [today : Dates, dates : SUBSET Days]

Got == [briefing : {"unread", "found", "missing"},
        refresh  : {"unread", "historical"} \cup States,
        catalog  : Catalog,
        done     : BOOLEAN]

Calls == [owner : {"catalog", "load", "poll", "refresh", "edit"},
          url   : {"dates", "briefing", "refresh", "add", "remove"},
          date  : Dates,
          sent  : BOOLEAN,
          got   : Got]

Page == [user : BOOLEAN, catalog : Catalog, selected : Dates, briefing : Dates,
         state : States, loading : BOOLEAN]

TypeInv ==
    /\ today \in Days /\ published \in SUBSET Days /\ queue \in States
    /\ page \in Page
    /\ calls \in SUBSET Calls

\* The calls of an effect are about what the page shows since it last ran.
LoadInv == \A c \in Of("load") : c.url = "briefing" => c.date = page.selected

PollInv ==
    \A c \in Of("poll") : c.url = "briefing" => c.date = page.selected /\ Polling(page)

IInv == TypeInv /\ LoadInv /\ PollInv /\ page.briefing \in {0, page.selected}

-----------------------------------------------------------------------------
(* Calls and pages.                                                          *)

LEMMA DaysAreDates == 0 \in Dates /\ 1 \in Days /\ Days \subseteq Dates /\ Days \subseteq Int
BY BriefingPageAssumption DEF Days, Dates

LEMMA UnreadType == NoCatalog \in Catalog /\ Unread \in Got
<1>1. NoCatalog \in Catalog
  BY DaysAreDates, Zenon DEF NoCatalog, Catalog
<1> QED
  BY <1>1, Zenon DEF Unread, Got

\* New calls that ask for no briefing.
LEMMA OtherCalls ==
  ASSUME NEW owner \in {"catalog", "load", "poll", "refresh", "edit"},
         NEW url \in {"dates", "refresh", "add", "remove"}, NEW date \in Dates
  PROVE  /\ {Call(owner, url, date, TRUE)} \in SUBSET Calls
         /\ \A c \in {Call(owner, url, date, TRUE)} : c.url # "briefing"
<1> DEFINE d == Call(owner, url, date, TRUE)
<1>1. d \in Calls /\ d.url = url
  BY UnreadType, Zenon DEF Call, Calls
<1> HIDE DEF d
<1>2. {d} \in SUBSET Calls /\ \A c \in {d} : c.url # "briefing"
  BY <1>1
<1> QED
  BY <1>2, Zenon DEF d

\* What has been read for a call, and that it was sent, say nothing of what it
\* is about.
LEMMA ReadFields ==
  ASSUME NEW c \in Calls, NEW got \in Got, NEW d \in {[c EXCEPT !.got = got], [c EXCEPT !.sent = TRUE]}
  PROVE  d \in Calls /\ d.owner = c.owner /\ d.url = c.url /\ d.date = c.date
<1>1. CASE d = [c EXCEPT !.got = got]
  BY <1>1, Zenon DEF Calls
<1>2. CASE d = [c EXCEPT !.sent = TRUE]
  BY <1>2, Zenon DEF Calls
<1> QED
  BY <1>1, <1>2

LEMMA SignedOutFields ==
  SignedOut \in Page /\ SignedOut.briefing = 0
BY UnreadType, DaysAreDates, Zenon DEF SignedOut, Page, States

LEMMA InitIInv == Init => IInv
<1> SUFFICES ASSUME Init PROVE IInv
  OBVIOUS
<1>1. page \in Page /\ page.briefing = 0
  BY SignedOutFields DEF Init
<1>2. today \in Days /\ published \in SUBSET Days
  BY BriefingPageAssumption DEF Init, Days
<1>3. calls = {} /\ queue = "idle"
  BY DEF Init
<1> QED
  BY <1>1, <1>2, <1>3 DEF IInv, TypeInv, LoadInv, PollInv, Of, States

-----------------------------------------------------------------------------
(* The steps of the page.                                                    *)

\* A render keeps the invariant when what it shows fits its selection: the
\* effects abort their calls exactly when what these are about changes.
LEMMA RenderKeeps ==
  ASSUME IInv, NEW q \in Page, NEW done, NEW more \in SUBSET Calls, Render(q, done, more),
         UNCHANGED server, q.briefing \in {0, q.selected},
         \A c \in more :
             /\ ~(c.owner = "load" /\ c.url = "briefing")
             /\ c.owner = "poll" /\ c.url = "briefing" =>
                   c.date = q.selected /\ Polling(q)
  PROVE  IInv'
<1> DEFINE shown == [q EXCEPT !.briefing = 0, !.loading = TRUE]
<1>1. /\ shown \in Page /\ shown.user = q.user /\ shown.catalog = q.catalog
      /\ shown.selected = q.selected /\ shown.briefing = 0 /\ shown.state = q.state
  BY DaysAreDates, Zenon DEF Page
<1> HIDE DEF shown
<1>2. page' = shown \/ page' = q
  BY DEF Render, shown
<1>3. /\ page' \in Page /\ page'.user = q.user /\ page'.catalog = q.catalog
      /\ page'.selected = q.selected /\ page'.state = q.state
      /\ page'.briefing \in {0, page'.selected}
  BY <1>1, <1>2
<1>4. Polling(q) <=> Polling(page)'
  BY <1>3 DEF Polling, OnToday
<1>5. q.selected \in Dates
  BY DEF Page
<1>6. ASSUME NEW c \in Started(page, q)
      PROVE  /\ c \in Calls /\ c.url = "briefing" /\ c.date = q.selected
             /\ c.owner = "load" \/ (c.owner = "poll" /\ Polling(q))
  <2>1. CASE c = Call("load", "briefing", q.selected, TRUE)
    <3>1. c \in Calls /\ c.owner = "load" /\ c.url = "briefing" /\ c.date = q.selected
      BY <1>5, <2>1, UnreadType, Zenon DEF Call, Calls
    <3> QED
      BY <3>1
  <2>2. CASE c = Call("poll", "briefing", q.selected, FALSE) /\ Polling(q)
    <3>1. c \in Calls /\ c.owner = "poll" /\ c.url = "briefing" /\ c.date = q.selected
      BY <1>5, <2>2, UnreadType, Zenon DEF Call, Calls
    <3> QED
      BY <2>2, <3>1
  <2> QED
    BY <2>1, <2>2 DEF Started
<1>7. ASSUME NEW c \in calls'
      PROVE  \/ c \in Started(page, q) \/ c \in more
             \/ c \in calls /\ c \notin Aborted(page, q)
  BY DEF Render
<1>8. TypeInv'
  <2>1. calls' \in SUBSET Calls
    BY <1>6, <1>7 DEF IInv, TypeInv
  <2> QED
    BY <1>3, <2>1 DEF IInv, TypeInv, server
<1>9. LoadInv'
  <2> SUFFICES ASSUME NEW c \in calls', c.owner = "load", c.url = "briefing"
               PROVE  c.date = q.selected
    BY <1>3 DEF LoadInv, Of
  <2>1. CASE c \in calls /\ c \notin Aborted(page, q)
    <3>1. LoadDeps(page) = LoadDeps(q)
      BY <2>1 DEF Aborted, Of
    <3> QED
      BY <2>1, <3>1 DEF IInv, LoadInv, Of, LoadDeps
  <2> QED
    BY <1>6, <1>7, <2>1
<1>10. PollInv'
  <2> SUFFICES ASSUME NEW c \in calls', c.owner = "poll", c.url = "briefing"
               PROVE  c.date = q.selected /\ Polling(q)
    BY <1>3, <1>4 DEF PollInv, Of
  <2>1. CASE c \in calls /\ c \notin Aborted(page, q)
    <3>1. PollDeps(page) = PollDeps(q)
      BY <2>1 DEF Aborted, Of
    <3> QED
      BY <2>1, <3>1 DEF IInv, PollInv, Of, PollDeps, Polling, OnToday
  <2>2. CASE c \in Started(page, q)
    BY <1>6, <2>2
  <2> QED
    BY <1>7, <2>1, <2>2
<1> QED
  BY <1>3, <1>8, <1>9, <1>10 DEF IInv

\* What the answers make of a call is a call about the same.
LEMMA AnswerKeeps ==
  ASSUME IInv, NEW c \in calls, NEW d \in Calls, d.owner = c.owner, d.url = c.url,
         d.url = "briefing" => d.date = c.date,
         calls' = (calls \ {c}) \cup {d}, UNCHANGED <<today, published, page>>, queue' \in States
  PROVE  IInv'
<1>1. TypeInv'
  BY DEF IInv, TypeInv
<1>2. LoadInv' /\ PollInv'
  BY DEF IInv, LoadInv, PollInv, Of, Polling, OnToday
<1> QED
  BY <1>1, <1>2 DEF IInv

\* The server only touches what the page does not see.
LEMMA ServerKeeps ==
  ASSUME IInv, UNCHANGED <<page, calls>>,
         today' \in Days, published' \in SUBSET Days, queue' \in States
  PROVE  IInv'
BY DEF IInv, TypeInv, LoadInv, PollInv, Of, Polling, OnToday

-----------------------------------------------------------------------------
(* The user.                                                                 *)

\* A step that selects nothing and sends a call that is not for a briefing.
LEMMA SendKeeps ==
  ASSUME IInv, NEW q \in Page, q.briefing \in {0, q.selected},
         NEW done, NEW more \in SUBSET Calls, Render(q, done, more), UNCHANGED server,
         \A c \in more : c.url # "briefing"
  PROVE  IInv'
BY RenderKeeps

LEMMA UserKeeps == ASSUME IInv, User PROVE IInv'
<1>0. page \in Page /\ page.briefing \in {0, page.selected} /\ page.selected \in Dates
  BY DEF IInv, TypeInv, Page
<1>1. CASE SignIn
  <2> DEFINE q == [page EXCEPT !.user = TRUE]
  <2>1. q \in Page /\ q.briefing = page.briefing /\ q.selected = page.selected
    BY <1>0, Zenon DEF Page
  <2>2. Render(q, {}, {Call("catalog", "dates", 0, TRUE)}) /\ UNCHANGED server
    BY <1>1 DEF SignIn
  <2> HIDE DEF q
  <2> QED
    BY <1>0, <2>1, <2>2, OtherCalls, DaysAreDates, SendKeeps
<1>2. CASE SignOut
  BY <1>2, SignedOutFields, RenderKeeps DEF SignOut
<1>3. CASE Retry
  BY <1>0, <1>3, OtherCalls, DaysAreDates, SendKeeps DEF Retry
<1>4. ASSUME NEW d \in Days, SelectDate(d)
      PROVE  IInv'
  <2> DEFINE q == [page EXCEPT !.briefing = 0, !.loading = TRUE, !.selected = d]
  <2>1. q \in Page /\ q.briefing = 0
    BY <1>0, DaysAreDates, Zenon DEF Page
  <2>2. Render(q, {}, {}) /\ UNCHANGED server
    BY <1>4 DEF SelectDate
  <2> HIDE DEF q
  <2> QED
    BY <2>1, <2>2, RenderKeeps
<1>5. CASE ClickRefresh
  BY <1>0, <1>5, OtherCalls, SendKeeps DEF ClickRefresh
<1>6. ASSUME NEW url \in {"add", "remove"}, EditWatchlist(url)
      PROVE  IInv'
  <2>1. PICK date \in Dates :
           Render(page, {}, {Call("edit", url, date, TRUE)}) /\ UNCHANGED server
    BY <1>0, <1>6, DaysAreDates DEF EditWatchlist
  <2> QED
    BY <1>0, <2>1, OtherCalls, SendKeeps
<1> QED
  BY <1>1, <1>2, <1>3, <1>4, <1>5, <1>6 DEF User

-----------------------------------------------------------------------------
(* The network.                                                              *)

LEMMA GotFields ==
  ASSUME NEW c \in Calls, IInv
  PROVE  /\ [c.got EXCEPT !.briefing = IF c.date \in published THEN "found" ELSE "missing"] \in Got
         /\ [c.got EXCEPT !.refresh = IF c.date = today THEN queue ELSE "historical"] \in Got
         /\ [c.got EXCEPT !.catalog = [today |-> today, dates |-> published],
                          !.done = TRUE] \in Got
         /\ [c.got EXCEPT !.done = TRUE] \in Got
<1>1. c.got \in Got
  BY DEF Calls
<1>2. (IF c.date = today THEN queue ELSE "historical") \in {"unread", "historical"} \cup States
  BY DEF IInv, TypeInv
<1>3. (IF c.date \in published THEN "found" ELSE "missing") \in {"unread", "found", "missing"}
  OBVIOUS
<1>4. [today |-> today, dates |-> published] \in Catalog
  BY DaysAreDates DEF IInv, TypeInv, Catalog
<1> QED
  BY <1>1, <1>2, <1>3, <1>4, Zenon DEF Got

LEMMA AnswersKeep == ASSUME IInv, NEW c \in calls, Answer(c) \/ PollTimer(c) PROVE IInv'
<1>0. c \in Calls /\ queue \in States
  BY DEF IInv, TypeInv
<1>1. CASE ReadEnvelope(c) \/ ReadRefreshState(c) \/ ReadDates(c)
  <2>1. PICK got \in Got : Reads(c, got) /\ UNCHANGED server
    BY <1>0, <1>1, GotFields DEF ReadEnvelope, ReadRefreshState, ReadDates
  <2> QED
    BY <1>0, <2>1, ReadFields, AnswerKeeps DEF Reads, server
<1>2. CASE Enqueue(c)
  <2>1. PICK got \in Got : Reads(c, got) /\ queue' \in States /\ UNCHANGED <<today, published>>
    BY <1>0, <1>2, GotFields DEF Enqueue, States
  <2> QED
    BY <1>0, <2>1, ReadFields, AnswerKeeps DEF Reads
<1>3. CASE EnqueueFails(c)
  <2> DEFINE e == [c EXCEPT !.date = IF c.url = "remove" THEN 0 ELSE @, !.got.done = TRUE]
  <2>1. (IF c.url = "remove" THEN 0 ELSE c.date) \in Dates /\ c.got \in Got
    BY <1>0, DaysAreDates DEF Calls
  <2>2. [c.got EXCEPT !.done = TRUE] \in Got
    BY <1>0, GotFields
  <2>3. e \in Calls /\ e.owner = c.owner /\ e.url = c.url
    BY <1>0, <2>1, <2>2, Zenon DEF Calls
  <2>4. calls' = (calls \ {c}) \cup {e} /\ UNCHANGED <<server, page>> /\ c.url # "briefing"
    BY <1>3 DEF EnqueueFails
  <2> HIDE DEF e
  <2> QED
    BY <1>0, <2>3, <2>4, AnswerKeeps DEF server
<1>4. CASE PollTimer(c)
  <2> DEFINE e == [c EXCEPT !.sent = TRUE]
  <2>1. e \in Calls /\ e.owner = c.owner /\ e.url = c.url /\ e.date = c.date
    BY <1>0, Zenon DEF Calls
  <2>2. calls' = (calls \ {c}) \cup {e} /\ UNCHANGED <<server, page>>
    BY <1>4 DEF PollTimer
  <2> HIDE DEF e
  <2> QED
    BY <1>0, <2>1, <2>2, AnswerKeeps DEF server
<1> QED
  BY <1>1, <1>2, <1>3, <1>4 DEF Answer

\* A page that changes in nothing the calls are about but its state, and with
\* it the dates it knows.
LEMMA DeliverKeeps ==
  ASSUME IInv, NEW c \in calls, Deliver(c)
  PROVE  IInv'
<1>0. /\ page \in Page /\ page.briefing \in {0, page.selected} /\ c \in Calls
      /\ c.date \in Dates /\ c.got \in Got /\ c.got.catalog \in Catalog /\ Shown(c) \in {0, c.date}
  BY DEF IInv, TypeInv, Calls, Got, Shown
<1>1. Result(c) \in States
  BY DEF Result, States
<1>2. CASE DeliverCatalog(c)
  <2> DEFINE d == IF page.selected = 0 THEN c.got.catalog.today ELSE page.selected
             q == [page EXCEPT !.catalog = c.got.catalog, !.loading = TRUE, !.selected = d]
  <2>1. d \in Dates
    BY <1>0 DEF Page, Catalog
  <2>2. q \in Page /\ q.briefing = page.briefing /\ q.selected = d
    BY <1>0, <2>1, Zenon DEF Page
  <2>3. Render(q, {c}, {}) /\ UNCHANGED server
    BY <1>2 DEF DeliverCatalog
  <2>4. page.briefing \in {0, d}
    BY <1>0
  <2> HIDE DEF q, d
  <2> QED
    BY <2>2, <2>3, <2>4, SendKeeps
<1>3. CASE DeliverLoad(c)
  <2> DEFINE q == [page EXCEPT !.briefing = Shown(c), !.state = Result(c), !.loading = FALSE]
             more == IF Result(c) = "idle" /\ c.got.refresh = "historical"
                     THEN {Call("load", "dates", 0, TRUE)} ELSE {}
  <2>1. c.date = page.selected
    BY <1>3 DEF DeliverLoad, IInv, LoadInv, Of
  <2>2. Shown(c) \in Dates
    BY <1>0, DaysAreDates
  <2>3. q \in Page /\ q.briefing = Shown(c) /\ q.selected = page.selected
    BY <1>0, <1>1, <2>2, Zenon DEF Page
  <2>4. Render(q, {c}, more) /\ UNCHANGED server
    BY <1>3 DEF DeliverLoad
  <2>5. more \in SUBSET Calls /\ \A e \in more : e.url # "briefing"
    BY OtherCalls, DaysAreDates
  <2> HIDE DEF q, more
  <2> QED
    BY <1>0, <2>1, <2>3, <2>4, <2>5, SendKeeps
<1>4. CASE DeliverDates(c)
  <2> DEFINE q == [page EXCEPT !.catalog = c.got.catalog]
  <2>1. q \in Page /\ q.briefing = page.briefing /\ q.selected = page.selected
    BY <1>0, Zenon DEF Page
  <2>2. Render(q, {c}, {}) /\ UNCHANGED server
    BY <1>4 DEF DeliverDates
  <2> HIDE DEF q
  <2> QED
    BY <1>0, <2>1, <2>2, SendKeeps
<1>5. CASE DeliverPoll(c)
  <2> DEFINE q == [page EXCEPT !.briefing = Shown(c), !.state = Result(c)]
             more == IF Result(c) = "generating"
                     THEN {Call("poll", "briefing", c.date, FALSE)} ELSE {}
  <2>1. c.date = page.selected /\ Polling(page)
    BY <1>5 DEF DeliverPoll, IInv, PollInv, Of
  <2>2. Shown(c) \in Dates
    BY <1>0, DaysAreDates
  <2>3. /\ q \in Page /\ q.briefing = Shown(c) /\ q.selected = page.selected
        /\ q.user = page.user /\ q.catalog = page.catalog /\ q.state = Result(c)
    BY <1>0, <1>1, <2>2, Zenon DEF Page
  <2>4. Render(q, {c}, more) /\ UNCHANGED server
    BY <1>5 DEF DeliverPoll
  <2>5. ASSUME NEW e \in more
        PROVE  /\ e \in Calls /\ e.owner = "poll" /\ e.date = c.date
               /\ Result(c) = "generating"
    <3>1. e = Call("poll", "briefing", c.date, FALSE) /\ Result(c) = "generating"
      BY <2>5
    <3>2. e \in Calls /\ e.owner = "poll" /\ e.date = c.date
      BY <1>0, <3>1, UnreadType, Zenon DEF Call, Calls
    <3> QED
      BY <3>1, <3>2
  <2> HIDE DEF q, more
  <2>6. Result(c) = "generating" => Polling(q)
    BY <2>1, <2>3 DEF Polling, OnToday
  <2>7. more \in SUBSET Calls
    BY <2>5
  <2> QED
    BY <1>0, <2>1, <2>3, <2>4, <2>5, <2>6, <2>7, RenderKeeps
<1>6. CASE DeliverRefresh(c) \/ DeliverEdit(c)
  <2>1. PICK s \in States : Render([page EXCEPT !.state = s], {c}, {}) /\ UNCHANGED server
    <3>1. "generating" \in States /\ page.state \in States
      BY <1>0 DEF States, Page
    <3> QED
      BY <1>6, <3>1 DEF DeliverRefresh, DeliverEdit
  <2> DEFINE q == [page EXCEPT !.state = s]
  <2>2. q \in Page /\ q.briefing = page.briefing /\ q.selected = page.selected
    BY <1>0, Zenon DEF Page
  <2>3. Render(q, {c}, {}) /\ UNCHANGED server
    BY <2>1
  <2> HIDE DEF q
  <2> QED
    BY <1>0, <2>2, <2>3, SendKeeps
<1> QED
  BY <1>2, <1>3, <1>4, <1>5, <1>6 DEF Deliver

LEMMA FailureKeeps ==
  ASSUME IInv, NEW c \in calls, CallFails(c)
  PROVE  IInv'
<1>0. page \in Page /\ page.briefing \in {0, page.selected}
  BY DEF IInv, TypeInv
<1>1. /\ AfterFailure(c) \in Page /\ AfterFailure(c).briefing = page.briefing
      /\ AfterFailure(c).selected = page.selected
  <2> DEFINE b == page.loading /\ c.owner # "load"
             q == [page EXCEPT !.state = "failed", !.loading = b]
  <2>1. b \in BOOLEAN
    OBVIOUS
  <2> HIDE DEF b
  <2>2. q \in Page /\ q.briefing = page.briefing /\ q.selected = page.selected
    BY <1>0, <2>1, Zenon DEF Page, States
  <2>3. AfterFailure(c) \in {page, q}
    BY DEF AfterFailure, b
  <2> HIDE DEF q
  <2> QED
    BY <1>0, <2>2, <2>3
<1> QED
  BY <1>0, <1>1, SendKeeps DEF CallFails

-----------------------------------------------------------------------------
\* The invariant is inductive: the page, its network and the server.
LEMMA StepIInv == IInv /\ [Next]_vars => IInv'
<1> SUFFICES ASSUME IInv, [Next]_vars PROVE IInv'
  OBVIOUS
<1>1. CASE User
  BY <1>1, UserKeeps
<1>2. ASSUME NEW c \in calls, Network(c)
      PROVE  IInv'
  BY <1>2, AnswersKeep, DeliverKeeps DEF Network
<1>3. ASSUME NEW c \in calls, CallFails(c)
      PROVE  IInv'
  BY <1>3, FailureKeeps
<1>4. CASE GenerationSucceeds \/ DailyBriefing
  BY <1>4, ServerKeeps
     DEF GenerationSucceeds, DailyBriefing, Publish, IInv, TypeInv, States
<1>5. CASE GenerationFails
  BY <1>5, ServerKeeps DEF GenerationFails, IInv, TypeInv, States
<1>6. CASE Midnight
  <2>1. today' \in Days
    BY <1>6, BriefingPageAssumption DEF Midnight, IInv, TypeInv, Days
  <2> QED
    BY <1>6, <2>1, ServerKeeps DEF Midnight, IInv, TypeInv
<1>7. CASE UNCHANGED vars
  BY <1>7, ServerKeeps DEF vars, IInv, TypeInv
<1> QED
  BY <1>1, <1>2, <1>3, <1>4, <1>5, <1>6, <1>7 DEF Next

\* What the page shows belongs to what is selected, and what it polls is the
\* current date, however late answers come and however many are on their way.
THEOREM FollowsSelection == Spec => []PageFollowsSelection
<1>1. IInv => PageFollowsSelection
  BY DEF IInv, PollInv, PageFollowsSelection
<1> QED
  BY <1>1, InitIInv, StepIInv, PTL DEF Spec
=============================================================================
