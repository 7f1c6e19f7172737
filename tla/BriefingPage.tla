----------------------------- MODULE BriefingPage -----------------------------
(* The Smart Insights page of one user, src/components/SmartInsights.tsx,    *)
(* and the routes it reads briefings from.  Requests of the page overlap     *)
(* with what the user selects, with generations, and with midnight.  The     *)
(* page runs an effect again when its dependencies change, and aborts the    *)
(* calls of the run before; that is part of every step that changes them.    *)
(*                                                                           *)
(* A day stands for a date of the business timezone, 0 for none.             *)
EXTENDS Integers, FiniteSets

CONSTANTS
    LastDay,    \* bound on the days that pass
    MaxEdits    \* bound on the changes of the watchlist in flight

ASSUME BriefingPageAssumption == LastDay \in Nat \ {0} /\ MaxEdits \in Nat

VARIABLES
    today,          \* smartInsightsToday()
    published,      \* the days with a published briefing
    queue,          \* publicState of the refresh request of the user
    page,           \* the state of the component
    calls           \* its requests that are not answered

vars == <<today, published, queue, page, calls>>
server == <<today, published, queue>>

-----------------------------------------------------------------------------
Days == 1 .. LastDay

NoCatalog == [today |-> 0, dates |-> {}]

\* What has been read for a call: the briefing, the state of the refresh and
\* the catalog, and whether a change has been recorded.
Unread == [briefing |-> "unread", refresh |-> "unread", catalog |-> NoCatalog, done |-> FALSE]

\* Owners of calls: "catalog", "load" and "poll" are effects of the page,
\* "refresh" and "edit" handlers of what the user does.
Call(owner, url, date, sent) ==
    [owner |-> owner, url |-> url, date |-> date, sent |-> sent, got |-> Unread]

\* The briefing that is shown is its date; the states of queue and page are
\* "idle", "generating", "failed" and "ready".
SignedOut ==
    [user |-> FALSE, catalog |-> NoCatalog, selected |-> 0, briefing |-> 0,
     state |-> "idle", loading |-> FALSE]

Init ==
    /\ today \in Days
    /\ published \in SUBSET (1 .. today - 1)
    /\ queue = "idle"
    /\ page = SignedOut
    /\ calls = {}

-----------------------------------------------------------------------------
(* Rendering: the effects whose dependencies changed between p and q.        *)

OnToday(p) == p.selected # 0 /\ p.selected = p.catalog.today

Polling(p) == p.user /\ OnToday(p) /\ p.state = "generating"

LoadDeps(p) == <<p.user, p.selected>>
PollDeps(p) == <<p.user, p.selected, p.catalog.today, p.state>>

Of(owner) == {c \in calls : c.owner = owner}

\* Faulty: the effect that loads a briefing does not abort the load before it.
AbortPollsOnly(p, q) == IF PollDeps(p) # PollDeps(q) THEN Of("poll") ELSE {}

\* The cleanups abort the calls of the runs before.
Aborted(p, q) ==
    (IF LoadDeps(p) # LoadDeps(q) THEN Of("load") ELSE {})
        \cup (IF PollDeps(p) # PollDeps(q) THEN Of("poll") ELSE {})

Loads(p, q) == LoadDeps(p) # LoadDeps(q) /\ q.user /\ q.selected # 0

Started(p, q) ==
    (IF Loads(p, q) THEN {Call("load", "briefing", q.selected, TRUE)} ELSE {})
        \cup (IF PollDeps(p) # PollDeps(q) /\ Polling(q)
              THEN {Call("poll", "briefing", q.selected, FALSE)} ELSE {})

\* The page becomes q; calls in "done" are answered, and those in "more" sent.
Render(q, done, more) ==
    /\ page' = IF Loads(page, q) THEN [q EXCEPT !.briefing = 0, !.loading = TRUE] ELSE q
    /\ calls' = ((calls \ done) \ Aborted(page, q)) \cup more \cup Started(page, q)

-----------------------------------------------------------------------------
(* The user.                                                                 *)

\* The effect on the session asks for the dates, and regimes and preferences.
SignIn ==
    /\ ~page.user
    /\ Render([page EXCEPT !.user = TRUE], {}, {Call("catalog", "dates", 0, TRUE)})
    /\ UNCHANGED server

SignOut ==
    /\ page.user
    /\ Render(SignedOut, Of("catalog"), {})
    /\ UNCHANGED server

\* The button of the alert that the dates could not be loaded.
Retry ==
    /\ page.user
    /\ page.catalog = NoCatalog
    /\ Of("catalog") = {}
    /\ Render(page, {}, {Call("catalog", "dates", 0, TRUE)})
    /\ UNCHANGED server

\* handleAnalysisDateChange; requests of the page may be in flight.
SelectDate(d) ==
    /\ page.user /\ page.selected # 0
    /\ d \in page.catalog.dates \cup {page.catalog.today}
    /\ d # page.selected
    /\ Render([page EXCEPT !.briefing = 0, !.loading = TRUE, !.selected = d], {}, {})
    /\ UNCHANGED server

\* refreshBriefing; the button is there on the current date only.
ClickRefresh ==
    /\ page.user /\ OnToday(page) /\ ~page.loading
    /\ page.state # "generating"
    /\ Of("refresh") = {}
    /\ Render(page, {}, {Call("refresh", "refresh", page.selected, TRUE)})
    /\ UNCHANGED server

\* An asset is added to the watchlist, or removed from it.  The answer is
\* handled with the dates of the render the call was sent from.  The dialogs
\* can be left while they save: the user goes on to select, refresh and edit.
EditWatchlist(url) ==
    /\ page.user /\ page.selected # 0 /\ ~page.loading
    /\ Cardinality(Of("edit")) < MaxEdits
    /\ Render(page, {}, {Call("edit", url, IF OnToday(page) THEN page.selected ELSE 0, TRUE)})
    /\ UNCHANGED server

-----------------------------------------------------------------------------
(* The routes.                                                               *)

Reads(c, got) ==
    /\ calls' = (calls \ {c}) \cup {[c EXCEPT !.got = got]}
    /\ UNCHANGED page

\* GET reads the briefing and the state of the refresh at the same time, the
\* latter only when the date is the current one.
ReadEnvelope(c) ==
    /\ c.url = "briefing" /\ c.sent /\ c.got.briefing = "unread"
    /\ Reads(c, [c.got EXCEPT !.briefing = IF c.date \in published THEN "found" ELSE "missing"])
    /\ UNCHANGED server

ReadRefreshState(c) ==
    /\ c.url = "briefing" /\ c.sent /\ c.got.refresh = "unread"
    /\ Reads(c, [c.got EXCEPT !.refresh = IF c.date = today THEN queue ELSE "historical"])
    /\ UNCHANGED server

\* loadBriefingDateCatalog
ReadDates(c) ==
    /\ c.url = "dates" /\ ~c.got.done
    /\ Reads(c, [c.got EXCEPT !.catalog = [today |-> today, dates |-> published],
                              !.done = TRUE])
    /\ UNCHANGED server

\* enqueueBriefingRefresh, of the refresh and of a change of the watchlist.
Enqueue(c) ==
    /\ c.url \in {"refresh", "add", "remove"} /\ ~c.got.done
    /\ queue' = "generating"
    /\ Reads(c, [c.got EXCEPT !.done = TRUE])
    /\ UNCHANGED <<today, published>>

\* The watchlist is changed and the refresh cannot be queued: only the removal
\* tells the page, which then leaves the state of the briefing alone.
EnqueueFails(c) ==
    /\ c.url \in {"add", "remove"} /\ ~c.got.done
    /\ calls' = (calls \ {c}) \cup
                   {[c EXCEPT !.date = IF c.url = "remove" THEN 0 ELSE @, !.got.done = TRUE]}
    /\ UNCHANGED <<server, page>>

Answered(c) ==
    IF c.url = "briefing" THEN c.got.briefing # "unread" /\ c.got.refresh # "unread" ELSE c.got.done

\* The status of the answer of GET, as fetchBriefing understands it.
Result(c) ==
    IF c.got.briefing = "found" THEN "ready"
    ELSE IF c.got.refresh \in {"generating", "failed"} THEN c.got.refresh
    ELSE "idle"

-----------------------------------------------------------------------------
(* The page gets an answer.                                                  *)

Shown(c) == IF c.got.briefing = "found" THEN c.date ELSE 0

\* The dates, and with them the selection of today when there is none.
DeliverCatalog(c) ==
    /\ c.owner = "catalog" /\ Answered(c)
    /\ Render([page EXCEPT !.catalog = c.got.catalog,
                           !.loading = TRUE,
                           !.selected = IF @ = 0 THEN c.got.catalog.today ELSE @], {c}, {})
    /\ UNCHANGED server

\* The briefing of the selection; when its date has none, the dates again.
DeliverLoad(c) ==
    /\ c.owner = "load" /\ c.url = "briefing" /\ Answered(c)
    /\ Render([page EXCEPT !.briefing = Shown(c), !.state = Result(c), !.loading = FALSE], {c},
              IF Result(c) = "idle" /\ c.got.refresh = "historical"
              THEN {Call("load", "dates", 0, TRUE)} ELSE {})
    /\ UNCHANGED server

DeliverDates(c) ==
    /\ c.owner \in {"load", "poll"} /\ c.url = "dates" /\ Answered(c)
    /\ Render([page EXCEPT !.catalog = c.got.catalog], {c}, {})
    /\ UNCHANGED server

PollTimer(c) ==
    /\ c.owner = "poll" /\ ~c.sent
    /\ calls' = (calls \ {c}) \cup {[c EXCEPT !.sent = TRUE]}
    /\ UNCHANGED <<server, page>>

\* The timer is set again while the answer is "generating".  The call for the
\* dates is sent before the render whose cleanup aborts it.
DeliverPoll(c) ==
    /\ c.owner = "poll" /\ c.url = "briefing" /\ Answered(c)
    /\ Render([page EXCEPT !.briefing = Shown(c), !.state = Result(c)], {c},
              IF Result(c) = "generating" THEN {Call("poll", "briefing", c.date, FALSE)} ELSE {})
    /\ UNCHANGED server

DeliverRefresh(c) ==
    /\ c.owner = "refresh" /\ Answered(c)
    /\ Render([page EXCEPT !.state = "generating"], {c}, {})
    /\ UNCHANGED server

DeliverEdit(c) ==
    /\ c.owner = "edit" /\ Answered(c)
    /\ Render([page EXCEPT !.state = IF c.date # 0 THEN "generating" ELSE @], {c}, {})
    /\ UNCHANGED server

\* Faulty: a load that fails leaves the skeleton of the page.
AfterFailureLoading(c) ==
    IF c.url = "briefing" \/ c.owner = "refresh" THEN [page EXCEPT !.state = "failed"] ELSE page

\* The network, a route or the parser of the answer fails.
AfterFailure(c) ==
    IF c.url = "briefing" \/ c.owner = "refresh"
    THEN [page EXCEPT !.state = "failed", !.loading = @ /\ c.owner # "load"]
    ELSE page

CallFails(c) ==
    /\ c.sent
    /\ Render(AfterFailure(c), {c}, {})
    /\ UNCHANGED server

-----------------------------------------------------------------------------
(* The generator of briefings, and the clock of the server.                  *)

\* A generation the queue asked for, or the daily one.
Publish(state) ==
    /\ published' = published \cup {today}
    /\ queue' = state
    /\ UNCHANGED <<today, page, calls>>

GenerationSucceeds == queue = "generating" /\ Publish("ready")

DailyBriefing == Publish(queue)

GenerationFails ==
    /\ queue = "generating"
    /\ queue' = "failed"
    /\ UNCHANGED <<today, published, page, calls>>

Midnight ==
    /\ today < LastDay
    /\ today' = today + 1
    /\ UNCHANGED <<published, queue, page, calls>>

-----------------------------------------------------------------------------
Answer(c) ==
    \/ ReadEnvelope(c) \/ ReadRefreshState(c) \/ ReadDates(c)
    \/ Enqueue(c) \/ EnqueueFails(c)

Deliver(c) ==
    \/ DeliverCatalog(c) \/ DeliverLoad(c) \/ DeliverDates(c) \/ DeliverPoll(c)
    \/ DeliverRefresh(c) \/ DeliverEdit(c)

User ==
    \/ SignIn \/ SignOut \/ Retry \/ ClickRefresh
    \/ \E d \in Days : SelectDate(d)
    \/ \E url \in {"add", "remove"} : EditWatchlist(url)

Network(c) == PollTimer(c) \/ Answer(c) \/ Deliver(c)

Next ==
    \/ User
    \/ \E c \in calls : Network(c) \/ CallFails(c)
    \/ GenerationSucceeds \/ DailyBriefing \/ GenerationFails \/ Midnight

Spec == Init /\ [][Next]_vars

(* A timer fires, a call is answered, and the answer gets to the page.  What  *)
(* a page shows that its user selects again and again before an answer is     *)
(* there is no question: the user stops, at any time.                         *)
Fairness ==
    /\ \A owner \in {"load", "poll"} : WF_vars(\E c \in Of(owner) : Network(c))
    /\ <>[][~User]_vars

FairSpec == Spec /\ Fairness

-----------------------------------------------------------------------------
\* A late answer for another date never replaces what the user selected, and
\* only the current date is polled.
PageFollowsSelection ==
    /\ page.briefing \in {0, page.selected}
    /\ \A c \in Of("poll") : c.url = "briefing" => c.date = page.selected /\ Polling(page)

\* The skeleton of a selection goes away, and a page that shows a generation
\* learns that it ended: no abort, failure or order of the answers leaves the
\* page without a call that could tell it.
PageSettles ==
    /\ page.loading ~> ~page.loading
    /\ (Polling(page) /\ queue # "generating") ~> (~Polling(page) \/ queue = "generating")
=============================================================================
