----------------------------- MODULE RefreshQueue -----------------------------
(***************************************************************************)
(* The queue of briefing refreshes: one row per tenant and user, which     *)
(* coalesces the requests of the web process by counting versions, and the *)
(* consumers that claim it, generate a briefing and report.                *)
(*                                                                         *)
(* What a briefing is built from is abstracted to the newest request       *)
(* version the row held when the generator read the portfolio and the      *)
(* watchlist: the change behind that request is committed before it.       *)
(***************************************************************************)
EXTENDS Integers, FiniteSets

CONSTANTS
    Users,        \* a tenant and a user: one row each
    Workers,      \* identities of consumer processes
    Requests,     \* concurrent web requests
    MaxAttempts,  \* MAX_ATTEMPTS
    MaxVersion,   \* bound on the requests of one user
    FleetSizes,   \* how many consumer processes may run at the same time
    NoWorker, NoUser

ASSUME BoundsAssumption ==
    /\ MaxAttempts \in Nat \ {0}
    /\ MaxVersion \in Nat
    /\ FleetSizes \subseteq Nat

ASSUME NullsAssumption == NoWorker \notin Workers /\ NoUser \notin Users

VARIABLES
    row,    \* smart_insight_refresh_requests
    revisions,  \* the versions that the published revisions of a briefing reflect
    daily,  \* the scheduled job that generates the briefings of all users
    wk,     \* consumers
    req,    \* calls of enqueueBriefingRefresh
    fleet   \* how many consumers may run at the same time, never changed

vars == <<row, revisions, daily, wk, req, fleet>>

-----------------------------------------------------------------------------
Status == {"absent", "queued", "running", "succeeded", "failed"}

Row == [status     : Status,
        requested  : 0 .. MaxVersion,   \* request_version
        processing : 0 .. MaxVersion,   \* processing_version, 0 for NULL
        attempts   : 0 .. MaxAttempts,
        worker     : Workers \cup {NoWorker},
        stale      : BOOLEAN,           \* started STALE_RUNNING_SECONDS ago
        due        : BOOLEAN]           \* available_at has passed

Worker == [pc      : {"stopped", "idle", "claimed", "generating", "published", "failing"},
           user    : Users \cup {NoUser},
           attempt : 0 .. MaxAttempts,
           version : 0 .. MaxVersion,   \* processing_version of the claim
           saw     : 0 .. MaxVersion]   \* version of what the generator read

Daily == [user : Users \cup {NoUser},   \* whose briefing it generates, if any
          saw  : 0 .. MaxVersion]

Request == [pc      : {"idle", "start", "update"},
            user    : Users \cup {NoUser},
            status  : Status,
            version : 0 .. MaxVersion]

TypeOK ==
    /\ row \in [Users -> Row]
    /\ revisions \in [Users -> SUBSET (0 .. MaxVersion)]
    /\ daily \in Daily
    /\ wk \in [Workers -> Worker]
    /\ req \in [Requests -> Request]
    /\ fleet \in FleetSizes

Stopped == [pc |-> "stopped", user |-> NoUser, attempt |-> 0, version |-> 0, saw |-> 0]

Resting == [pc |-> "idle", user |-> NoUser, attempt |-> 0, version |-> 0, saw |-> 0]

NoDaily == [user |-> NoUser, saw |-> 0]

NoRequest == [pc |-> "idle", user |-> NoUser, status |-> "absent", version |-> 0]

Init ==
    /\ row = [u \in Users |-> [status |-> "absent", requested |-> 0, processing |-> 0,
                               attempts |-> 0, worker |-> NoWorker,
                               stale |-> FALSE, due |-> FALSE]]
    /\ revisions = [u \in Users |-> {}]
    /\ daily = NoDaily
    /\ wk = [w \in Workers |-> Stopped]
    /\ req = [q \in Requests |-> NoRequest]
    /\ fleet \in FleetSizes

-----------------------------------------------------------------------------
(* enqueueBriefingRefresh: under the advisory lock of the user, read the   *)
(* row and update it.  The lock keeps other requests out, not the workers. *)

RequestRefresh(q, u) ==
    /\ req[q].pc = "idle"
    /\ req' = [req EXCEPT ![q] = [NoRequest EXCEPT !.pc = "start", !.user = u]]
    /\ UNCHANGED <<row, revisions, daily, wk, fleet>>

\* Faulty: no lock is taken.
Unlocked(u) == TRUE

LockFree(u) == \A p \in Requests : req[p].pc = "update" => req[p].user # u

ReadRow(q) ==
    LET u == req[q].user IN
    /\ req[q].pc = "start"
    /\ LockFree(u)
    /\ row[u].requested < MaxVersion
    /\ req' = [req EXCEPT ![q] = [@ EXCEPT !.pc = "update",
                                           !.status = row[u].status,
                                           !.version = row[u].requested]]
    /\ UNCHANGED <<row, revisions, daily, wk, fleet>>

\* Faulty: a request during the generation starts the attempts afresh.
BumpedAfresh(x, status, version) ==
    IF status = "running"
    THEN [x EXCEPT !.requested = version + 1, !.attempts = 0]
    ELSE [status |-> "queued", requested |-> version + 1, processing |-> 0,
          attempts |-> 0, worker |-> NoWorker, stale |-> FALSE, due |-> TRUE]

\* A row that was read as running keeps its claim; any other row is queued
\* (or created) as if nothing had been attempted.
Bumped(x, status, version) ==
    IF status = "running"
    THEN [x EXCEPT !.requested = version + 1]
    ELSE [status |-> "queued", requested |-> version + 1, processing |-> 0,
          attempts |-> 0, worker |-> NoWorker, stale |-> FALSE, due |-> TRUE]

UpdateRow(q) ==
    /\ req[q].pc = "update"
    /\ row' = [row EXCEPT ![req[q].user] = Bumped(@, req[q].status, req[q].version)]
    /\ req' = [req EXCEPT ![q] = NoRequest]
    /\ UNCHANGED <<revisions, daily, wk, fleet>>

\* The route reports a refresh that could not be queued and goes on.
EnqueueFails(q) ==
    /\ req[q].pc # "idle"
    /\ req' = [req EXCEPT ![q] = NoRequest]
    /\ UNCHANGED <<row, revisions, daily, wk, fleet>>

-----------------------------------------------------------------------------
(* A consumer: claim, generate, publish, report. *)

Live == {w \in Workers : wk[w].pc # "stopped"}

\* Every process has an identity of its own, kept over all its claims.
StartWorker(w) ==
    /\ wk[w].pc = "stopped"
    /\ Cardinality(Live) < fleet
    /\ \A u \in Users : row[u].status = "running" => row[u].worker # w
    /\ wk' = [wk EXCEPT ![w] = Resting]
    /\ UNCHANGED <<row, revisions, daily, req, fleet>>

\* Faulty: the attempts of a request are not bounded.
ClaimableForEver(x) ==
    \/ x.status = "queued" /\ x.due
    \/ x.status = "running" /\ x.stale

Claimable(x) ==
    /\ \/ x.status = "queued" /\ x.due
       \/ x.status = "running" /\ x.stale
    /\ x.attempts < MaxAttempts

Claimed(x, w) ==
    [x EXCEPT !.status = "running", !.processing = x.requested, !.worker = w,
              !.attempts = x.attempts + 1, !.stale = FALSE]

ClaimNextRequest(w, u) ==
    /\ wk[w].pc = "idle"
    /\ Claimable(row[u])
    /\ row' = [row EXCEPT ![u] = Claimed(@, w)]
    /\ wk' = [wk EXCEPT ![w] = [pc |-> "claimed", user |-> u,
                                attempt |-> row[u].attempts + 1,
                                version |-> row[u].requested, saw |-> 0]]
    /\ UNCHANGED <<revisions, daily, req, fleet>>

LoadPersonalization(w) ==
    /\ wk[w].pc = "claimed"
    /\ wk' = [wk EXCEPT ![w] = [@ EXCEPT !.pc = "generating",
                                         !.saw = row[wk[w].user].requested]]
    /\ UNCHANGED <<row, revisions, daily, req, fleet>>

\* A new revision, whoever holds the claim by now, and whatever the revisions
\* before it reflect.
PublishBriefing(w) ==
    /\ wk[w].pc = "generating"
    /\ revisions' = [revisions EXCEPT ![wk[w].user] = @ \cup {wk[w].saw}]
    /\ wk' = [wk EXCEPT ![w] = [@ EXCEPT !.pc = "published"]]
    /\ UNCHANGED <<row, daily, req, fleet>>

\* Faulty: the report asks for a running row, whoever it names.
HoldsAny(w) == row[wk[w].user].status = "running"

\* The condition of complete_request and of retry_or_fail.
Holds(w) ==
    /\ row[wk[w].user].status = "running"
    /\ row[wk[w].user].worker = w

Completed(x) ==
    IF x.requested > x.processing
    THEN [x EXCEPT !.status = "queued", !.due = TRUE, !.processing = 0,
                   !.attempts = 0, !.worker = NoWorker]
    ELSE [x EXCEPT !.status = "succeeded", !.worker = NoWorker]

CompleteRequest(w) ==
    /\ wk[w].pc = "published"
    /\ row' = IF Holds(w) THEN [row EXCEPT ![wk[w].user] = Completed(@)] ELSE row
    /\ wk' = [wk EXCEPT ![w] = Resting]
    /\ UNCHANGED <<revisions, daily, req, fleet>>

\* Any exception, from the load of the data to the report of success.
GenerationFails(w) ==
    /\ wk[w].pc \in {"claimed", "generating", "published"}
    /\ wk' = [wk EXCEPT ![w] = [@ EXCEPT !.pc = "failing"]]
    /\ UNCHANGED <<row, revisions, daily, req, fleet>>

\* Faulty: the bound is compared with one attempt more.
RetriedOnceMore(x, attempt) ==
    [x EXCEPT !.status = IF attempt > MaxAttempts THEN "failed" ELSE "queued",
              !.due = x.due /\ attempt > MaxAttempts,
              !.processing = 0, !.worker = NoWorker]

Retried(x, attempt) ==
    [x EXCEPT !.status = IF attempt >= MaxAttempts THEN "failed" ELSE "queued",
              !.due = x.due /\ attempt >= MaxAttempts,
              !.processing = 0, !.worker = NoWorker]

RetryOrFail(w) ==
    /\ wk[w].pc = "failing"
    /\ row' = IF Holds(w) THEN [row EXCEPT ![wk[w].user] = Retried(@, wk[w].attempt)] ELSE row
    /\ wk' = [wk EXCEPT ![w] = Resting]
    /\ UNCHANGED <<revisions, daily, req, fleet>>

Crash(w) ==
    /\ wk[w].pc # "stopped"
    /\ wk' = [wk EXCEPT ![w] = Stopped]
    /\ UNCHANGED <<row, revisions, daily, req, fleet>>

-----------------------------------------------------------------------------
(* The scheduled job generates a briefing for every member, one after the  *)
(* other, beside the consumers: it takes no claim and touches no row.  The *)
(* lock of the scheduler lets one of its runs in at a time.                *)

DailyLoads(u) ==
    /\ daily = NoDaily
    /\ daily' = [user |-> u, saw |-> row[u].requested]
    /\ UNCHANGED <<row, revisions, wk, req, fleet>>

DailyPublishes ==
    /\ daily # NoDaily
    /\ revisions' = [revisions EXCEPT ![daily.user] = @ \cup {daily.saw}]
    /\ daily' = NoDaily
    /\ UNCHANGED <<row, wk, req, fleet>>

\* It fails, and ends without the briefings that remain, or is killed.
DailyStops ==
    /\ daily # NoDaily
    /\ daily' = NoDaily
    /\ UNCHANGED <<row, revisions, wk, req, fleet>>

-----------------------------------------------------------------------------
(* Time. *)

ClaimGoesStale(u) ==
    /\ row[u].status = "running" /\ ~row[u].stale
    /\ row' = [row EXCEPT ![u] = [@ EXCEPT !.stale = TRUE]]
    /\ UNCHANGED <<revisions, daily, wk, req, fleet>>

RetryBecomesDue(u) ==
    /\ row[u].status = "queued" /\ ~row[u].due
    /\ row' = [row EXCEPT ![u] = [@ EXCEPT !.due = TRUE]]
    /\ UNCHANGED <<revisions, daily, wk, req, fleet>>

-----------------------------------------------------------------------------
Enqueue(q) ==
    \/ \E u \in Users : RequestRefresh(q, u)
    \/ ReadRow(q)
    \/ UpdateRow(q)
    \/ EnqueueFails(q)

Proceed(w) ==
    \/ \E u \in Users : ClaimNextRequest(w, u)
    \/ LoadPersonalization(w)
    \/ PublishBriefing(w)
    \/ CompleteRequest(w)
    \/ RetryOrFail(w)

Next ==
    \/ \E q \in Requests : Enqueue(q)
    \/ \E w \in Workers : StartWorker(w) \/ Proceed(w) \/ GenerationFails(w) \/ Crash(w)
    \/ \E u \in Users : DailyLoads(u) \/ ClaimGoesStale(u) \/ RetryBecomesDue(u)
    \/ DailyPublishes \/ DailyStops

Spec == Init /\ [][Next]_vars

(* The consumer polls for ever and systemd restarts it when it fails; a      *)
(* claim is the first thing a new process does, so although it may crash at  *)
(* any time some claims get through.  Time passes.  Nothing is owed to the scheduled job.    *)
Fairness ==
    /\ \A w \in Workers : WF_vars(StartWorker(w)) /\ WF_vars(Proceed(w))
    /\ \A u \in Users :
          /\ SF_vars(\E w \in Workers : ClaimNextRequest(w, u))
          /\ WF_vars(ClaimGoesStale(u))
          /\ WF_vars(RetryBecomesDue(u))

FairSpec == Spec /\ Fairness

-----------------------------------------------------------------------------
(* Properties *)

Working(w) == wk[w].pc \in {"claimed", "generating", "published", "failing"}

\* While a row carries the identity of a consumer, the consumer works on that
\* very claim: its report cannot settle another attempt or another version.
ClaimCurrent ==
    \A w \in Workers :
        Working(w) /\ row[wk[w].user].worker = w
            => /\ row[wk[w].user].status = "running"
               /\ wk[w].attempt = row[wk[w].user].attempts
               /\ wk[w].version = row[wk[w].user].processing

\* Every accepted request is a version of its own, so a consumer that compares
\* versions misses none: two requests never write the same number.
EveryRequestCounts ==
    [][\A q \in Requests :
          req[q].pc = "update" /\ UpdateRow(q)
              => row'[req[q].user].requested = row[req[q].user].requested + 1]_vars

\* When the row says ready, some revision of the briefing was generated for the
\* version that the row was claimed for, or for a newer one: however many
\* consumers there are, a report never settles a claim whose briefing nobody
\* has published.  (It need not be the latest revision: the scheduled job and
\* an overtaken consumer publish what they read, however old.)
ReadyWasPublished ==
    \A u \in Users :
        row[u].status = "succeeded" => \E v \in revisions[u] : v >= row[u].processing

\* A queued refresh is eventually claimed.
QueuedIsServed ==
    \A u \in Users : row[u].status = "queued" ~> row[u].status # "queued"
=============================================================================
