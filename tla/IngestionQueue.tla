---------------------------- MODULE IngestionQueue ----------------------------
(***************************************************************************)
(* The queue of market ingestion requests and its worker: a request asks   *)
(* for the daily bars of an instrument, a worker claims it, fetches and    *)
(* merges the bars, publishes them as the active version of the dataset    *)
(* and completes the request with that version.  A second thread of the    *)
(* worker renews the lease.                                                *)
(*                                                                         *)
(* The bars of an instrument are abstracted to how many of its revisions   *)
(* (bars closed and corrections) the provider had when they were fetched:  *)
(* the fetch window always reaches back to the last stored bar, so a merge *)
(* is as recent as its fetch.                                              *)
(***************************************************************************)
EXTENDS Integers, FiniteSets

CONSTANTS
    Requests,     \* identities of rows of market_ingestion_requests
    Users,        \* an organization and a user
    Instruments,  \* provider instruments, each with its dataset
    Workers,      \* identities of worker processes
    MaxAttempts,  \* 3, in the claim, the report and the CHECK of the table
    MaxFeed,      \* bound on the revisions a provider publishes
    MaxLive,      \* worker processes that run at the same time
    NoWorker, NoRequest, NoUser, NoInstrument

ASSUME BoundsAssumption ==
    /\ MaxAttempts \in Nat \ {0}
    /\ MaxFeed \in Nat \ {0}
    /\ MaxLive \in Nat

ASSUME NullsAssumption ==
    /\ NoWorker \notin Workers
    /\ NoRequest \notin Requests
    /\ NoUser \notin Users
    /\ NoInstrument \notin Instruments

VARIABLES
    row,     \* market_ingestion_requests, by identity
    asked,   \* what the provider had when a request was submitted
    active,  \* the bars of the active version of each dataset, 0 for none
    feed,    \* what the provider has of each instrument
    wk,      \* worker processes
    plan     \* what the snapshot of a requeue chose, per worker process

vars == <<row, asked, active, feed, wk, plan>>

-----------------------------------------------------------------------------
Active == {"queued", "running"}

Row == [status     : {"absent", "succeeded", "failed"} \cup Active,
        user       : Users \cup {NoUser},
        instrument : Instruments \cup {NoInstrument},
        worker     : Workers \cup {NoWorker},
        lease      : {"none", "live", "expired"},
        attempts   : 0 .. MaxAttempts,
        due        : BOOLEAN,          \* available_at has passed
        version    : 0 .. MaxFeed]     \* the bars of dataset_version_id

Worker == [pc      : {"stopped", "start", "requeue", "sweep", "idle", "claimed", "prepared", "publishing",
                      "installing", "published", "failing"},
           request : Requests \cup {NoRequest},
           attempt : 0 .. MaxAttempts,
           bars    : 0 .. MaxFeed,
           lost    : BOOLEAN]          \* _LeaseHeartbeat.lost

\* current: no request has become active since the snapshot.
Plan == [rows : SUBSET Requests, current : BOOLEAN]

TypeOK ==
    /\ row \in [Requests -> Row]
    /\ asked \in [Requests -> 0 .. MaxFeed]
    /\ active \in [Instruments -> 0 .. MaxFeed]
    /\ feed \in [Instruments -> 1 .. MaxFeed]
    /\ wk \in [Workers -> Worker]
    /\ plan \in [Workers -> Plan]

AbsentRow == [status |-> "absent", user |-> NoUser, instrument |-> NoInstrument,
              worker |-> NoWorker, lease |-> "none", attempts |-> 0, due |-> FALSE,
              version |-> 0]

At(pc) == [pc |-> pc, request |-> NoRequest, attempt |-> 0, bars |-> 0, lost |-> FALSE]

NoPlan == [rows |-> {}, current |-> FALSE]

Init ==
    /\ row = [r \in Requests |-> AbsentRow]
    /\ asked = [r \in Requests |-> 0]
    /\ active = [i \in Instruments |-> 0]
    /\ feed = [i \in Instruments |-> 1]
    /\ wk = [w \in Workers |-> At("stopped")]
    /\ plan = [w \in Workers |-> NoPlan]

-----------------------------------------------------------------------------
(* Requests, by requestMarketIngestion or by the due queue of the catalog   *)
(* synchronization: a row of one target, which the unique index on active   *)
(* rows admits when it is written.  (What else a submission looks at, and   *)
(* how it is refused, is IngestionAdmission.)                               *)

SameTarget(x, y) == x.user = y.user /\ x.instrument = y.instrument

\* The index on the active rows of a target, market_ingestion_requests_active_unique.
ActiveTwin(x) == \E s \in Requests : row[s].status \in Active /\ SameTarget(row[s], x)

Overtaken(p) == [p EXCEPT !.current = FALSE]

Submit(r, u, i) ==
    LET new == [AbsentRow EXCEPT !.status = "queued", !.user = u, !.instrument = i,
                                 !.due = TRUE] IN
    /\ row[r].status = "absent"
    /\ ~ActiveTwin(new)
    /\ row' = [row EXCEPT ![r] = new]
    /\ asked' = [asked EXCEPT ![r] = feed[i]]
    /\ plan' = [w \in Workers |-> Overtaken(plan[w])]
    /\ UNCHANGED <<active, feed, wk>>

\* fail_request, fail_exhausted_requests and the synchronization write this.
Failed(x) == [x EXCEPT !.status = "failed", !.worker = NoWorker, !.lease = "none"]

DeactivateInstrument(i) ==
    /\ row' = [r \in Requests |->
                  IF row[r].instrument = i /\ row[r].status \in Active
                  THEN Failed(row[r])
                  ELSE row[r]]
    /\ UNCHANGED <<asked, active, feed, wk, plan>>

-----------------------------------------------------------------------------
(* A worker process: main, and the steps of its loop.                      *)

Live == {w \in Workers : wk[w].pc # "stopped"}

NewIdentity(w) == \A r \in Requests : row[r].status = "running" => row[r].worker # w

StartWorker(w) ==
    /\ wk[w].pc = "stopped"
    /\ NewIdentity(w)
    /\ Cardinality(Live) < MaxLive
    /\ wk' = [wk EXCEPT ![w] = At("start")]
    /\ UNCHANGED <<row, asked, active, feed, plan>>

\* Failed requests without an active twin whose dataset was never published.
Candidates ==
    {r \in Requests : /\ row[r].status = "failed"
                      /\ ~ActiveTwin(row[r])
                      /\ active[row[r].instrument] = 0}

\* Faulty: no DISTINCT ON.
AnyCandidates(S) == S \subseteq Candidates

\* DISTINCT ON: of the failed requests of one target only one is put back.
OneOfEachTarget(S) ==
    /\ S \subseteq Candidates
    /\ \A r, s \in S : SameTarget(row[r], row[s]) => r = s

Requeued(x) ==
    [x EXCEPT !.status = "queued", !.due = TRUE, !.attempts = 0,
              !.worker = NoWorker, !.lease = "none"]

\* --retry-failed, the first thing a process does.  One statement at read
\* committed: it chooses by its snapshot ...
ChooseFailedRequests(w) ==
    /\ wk[w].pc = "start"
    /\ \E S \in SUBSET Requests :
          /\ S # {}
          /\ OneOfEachTarget(S)
          /\ plan' = [plan EXCEPT ![w] = [rows |-> S, current |-> TRUE]]
    /\ wk' = [wk EXCEPT ![w] = At("requeue")]
    /\ UNCHANGED <<row, asked, active, feed>>

\* The rows of S may be active beside those that are.
IndexAdmits(S) ==
    \A r \in S, s \in Requests :
        (s \in S \/ row[s].status \in Active) /\ SameTarget(row[r], row[s]) => r = s

\* ... and writes the rows it chose, whatever they are by then.
RequeueFailedRequests(w) ==
    /\ wk[w].pc = "requeue"
    /\ IndexAdmits(plan[w].rows)
    /\ row' = [r \in Requests |-> IF r \in plan[w].rows THEN Requeued(row[r]) ELSE row[r]]
    /\ wk' = [wk EXCEPT ![w] = At("sweep")]
    /\ plan' = [v \in Workers |-> IF v = w THEN NoPlan ELSE Overtaken(plan[v])]
    /\ UNCHANGED <<asked, active, feed>>

\* The index refuses the whole batch, and nobody handles the error.
RequeueRefused(w) ==
    /\ wk[w].pc = "requeue"
    /\ ~IndexAdmits(plan[w].rows)
    /\ wk' = [wk EXCEPT ![w] = At("stopped")]
    /\ plan' = [plan EXCEPT ![w] = NoPlan]
    /\ UNCHANGED <<row, asked, active, feed>>

Exhausted(x) ==
    x.status = "running" /\ x.lease = "expired" /\ x.attempts >= MaxAttempts

FailExhaustedRequests(w) ==
    /\ wk[w].pc \in {"start", "sweep"}
    /\ row' = [r \in Requests |-> IF Exhausted(row[r]) THEN Failed(row[r]) ELSE row[r]]
    /\ wk' = [wk EXCEPT ![w] = At("idle")]
    /\ UNCHANGED <<asked, active, feed, plan>>

\* Faulty: the lease is looked at whatever the status, and is NULL in the queue.
ClaimableByLease(x) ==
    /\ x.status \in Active
    /\ x.lease = "expired"
    /\ x.attempts < MaxAttempts

Claimable(x) ==
    \/ x.status = "queued" /\ x.due
    \/ x.status = "running" /\ x.lease = "expired" /\ x.attempts < MaxAttempts

Claimed(x, w) ==
    [x EXCEPT !.status = "running", !.worker = w, !.lease = "live",
              !.attempts = x.attempts + 1]

ClaimNextRequest(w, r) ==
    /\ wk[w].pc = "idle"
    /\ Claimable(row[r])
    /\ row' = [row EXCEPT ![r] = Claimed(@, w)]
    /\ wk' = [wk EXCEPT ![w] = [At("claimed") EXCEPT !.request = r,
                                                     !.attempt = row[r].attempts + 1]]
    /\ UNCHANGED <<asked, active, feed, plan>>

\* Faulty: any running request is reported on.
HoldsByStatus(w) == row[wk[w].request].status = "running"

\* The condition of retry_or_fail and fail_request.
Holds(w) ==
    /\ row[wk[w].request].status = "running"
    /\ row[wk[w].request].worker = w

Instrument(w) == row[wk[w].request].instrument

\* The heartbeat thread finds the lease gone, or its update fails: it only
\* raises a flag.  A renewal in time leaves the lease live.
HeartbeatStops(w) ==
    /\ wk[w].pc \in {"claimed", "prepared", "publishing", "installing", "published"}
    /\ ~wk[w].lost
    /\ wk' = [wk EXCEPT ![w] = [@ EXCEPT !.lost = TRUE]]
    /\ UNCHANGED <<row, asked, active, feed, plan>>

\* Faulty: the stored bars are published when the provider has no answer.
PrepareFromActive(w) ==
    /\ wk[w].pc = "claimed"
    /\ \E bars \in {active[Instrument(w)], feed[Instrument(w)]} :
          wk' = [wk EXCEPT ![w] = [@ EXCEPT !.pc = "prepared", !.bars = bars]]
    /\ UNCHANGED <<row, asked, active, feed, plan>>

PrepareRequestDataset(w) ==
    /\ wk[w].pc = "claimed"
    /\ wk' = [wk EXCEPT ![w] = [@ EXCEPT !.pc = "prepared", !.bars = feed[Instrument(w)]]]
    /\ UNCHANGED <<row, asked, active, feed, plan>>

\* A lost lease found before publication ends the attempt without a report.
CheckLease(w) ==
    /\ wk[w].pc = "prepared"
    /\ wk' = [wk EXCEPT ![w] = IF wk[w].lost THEN At("idle") ELSE [@ EXCEPT !.pc = "publishing"]]
    /\ UNCHANGED <<row, asked, active, feed, plan>>

\* publish_if_changed compares before publish locks the dataset.
CompareChecksum(w) ==
    /\ wk[w].pc = "publishing"
    /\ wk' = [wk EXCEPT ![w] = [@ EXCEPT !.pc =
                 IF active[Instrument(w)] = wk[w].bars THEN "published" ELSE "installing"]]
    /\ UNCHANGED <<row, asked, active, feed, plan>>

Publish(w) ==
    /\ wk[w].pc = "installing"
    /\ active' = [active EXCEPT ![Instrument(w)] = wk[w].bars]
    /\ wk' = [wk EXCEPT ![w] = [@ EXCEPT !.pc = "published"]]
    /\ UNCHANGED <<row, asked, feed, plan>>

Completed(x, version) ==
    [x EXCEPT !.status = "succeeded", !.lease = "none", !.version = version]

LeaseLive(w) == Holds(w) /\ row[wk[w].request].lease = "live"

CompleteRequest(w) ==
    /\ wk[w].pc = "published"
    /\ ~wk[w].lost
    /\ LeaseLive(w)
    /\ row' = [row EXCEPT ![wk[w].request] = Completed(@, wk[w].bars)]
    /\ wk' = [wk EXCEPT ![w] = At("idle")]
    /\ UNCHANGED <<asked, active, feed, plan>>

\* An exception leaves the block of the heartbeat: its thread is joined, and
\* what was fetched is dropped.
Failing(x) == [x EXCEPT !.pc = "failing", !.bars = 0, !.lost = FALSE]

\* The flag ends the attempt silently; an update that found no row raises.
CompletionRefused(w) ==
    /\ wk[w].pc = "published"
    /\ wk[w].lost \/ ~LeaseLive(w)
    /\ wk' = [wk EXCEPT ![w] = IF wk[w].lost THEN At("idle") ELSE Failing(@)]
    /\ UNCHANGED <<row, asked, active, feed, plan>>

\* An unavailable provider, or any exception that is not a ValueError.
Raise(w) ==
    /\ wk[w].pc \in {"claimed", "publishing", "installing", "published"}
    /\ wk' = [wk EXCEPT ![w] = Failing(@)]
    /\ UNCHANGED <<row, asked, active, feed, plan>>

\* Faulty: the bound is compared with one attempt more.
RetriedOnceMore(x, attempt) ==
    IF attempt > MaxAttempts
    THEN Failed(x)
    ELSE [x EXCEPT !.status = "queued", !.due = FALSE, !.worker = NoWorker, !.lease = "none"]

Retried(x, attempt) ==
    IF attempt >= MaxAttempts
    THEN Failed(x)
    ELSE [x EXCEPT !.status = "queued", !.due = FALSE, !.worker = NoWorker, !.lease = "none"]

RetryOrFail(w) ==
    /\ wk[w].pc = "failing"
    /\ row' = IF Holds(w)
              THEN [row EXCEPT ![wk[w].request] = Retried(@, wk[w].attempt)]
              ELSE row
    /\ wk' = [wk EXCEPT ![w] = At("idle")]
    /\ UNCHANGED <<asked, active, feed, plan>>

\* A provider that is not approved, or bars that cannot be published.
FailRequest(w) ==
    /\ wk[w].pc = "claimed"
    /\ row' = IF Holds(w) THEN [row EXCEPT ![wk[w].request] = Failed(@)] ELSE row
    /\ wk' = [wk EXCEPT ![w] = At("idle")]
    /\ UNCHANGED <<asked, active, feed, plan>>

\* The process dies, or ends after its batch when it does not watch.
Crash(w) ==
    /\ wk[w].pc # "stopped"
    /\ wk' = [wk EXCEPT ![w] = At("stopped")]
    /\ plan' = [plan EXCEPT ![w] = NoPlan]
    /\ UNCHANGED <<row, asked, active, feed>>

-----------------------------------------------------------------------------
(* The scheduled ingestion publishes the same datasets beside the workers:   *)
(* its lock keeps out other scheduled runs only.  It installs what the       *)
(* provider had when it fetched, whatever was published since; one that      *)
(* fails, is killed or finds the bars unchanged changes nothing.             *)

ScheduledIngestion(i) ==
    /\ \E bars \in 1 .. feed[i] : active' = [active EXCEPT ![i] = bars]
    /\ UNCHANGED <<row, asked, feed, wk, plan>>

-----------------------------------------------------------------------------
(* Time and the provider. *)

ExpireLease(r) ==
    /\ row[r].lease = "live"
    /\ row' = [row EXCEPT ![r] = [@ EXCEPT !.lease = "expired"]]
    /\ UNCHANGED <<asked, active, feed, wk, plan>>

RetryBecomesDue(r) ==
    /\ row[r].status = "queued" /\ ~row[r].due
    /\ row' = [row EXCEPT ![r] = [@ EXCEPT !.due = TRUE]]
    /\ UNCHANGED <<asked, active, feed, wk, plan>>

FeedAdvances(i) ==
    /\ feed[i] < MaxFeed
    /\ feed' = [feed EXCEPT ![i] = feed[i] + 1]
    /\ UNCHANGED <<row, asked, active, wk, plan>>

-----------------------------------------------------------------------------
Proceed(w) ==
    \/ RequeueFailedRequests(w)
    \/ RequeueRefused(w)
    \/ FailExhaustedRequests(w)
    \/ \E r \in Requests : ClaimNextRequest(w, r)
    \/ PrepareRequestDataset(w)
    \/ CheckLease(w)
    \/ CompareChecksum(w)
    \/ Publish(w)
    \/ CompleteRequest(w)
    \/ CompletionRefused(w)
    \/ RetryOrFail(w)
    \/ FailRequest(w)

Next ==
    \/ \E r \in Requests, u \in Users, i \in Instruments : Submit(r, u, i)
    \/ \E w \in Workers :
          \/ StartWorker(w) \/ ChooseFailedRequests(w) \/ Proceed(w)
          \/ HeartbeatStops(w) \/ Raise(w) \/ Crash(w)
    \/ \E r \in Requests : ExpireLease(r) \/ RetryBecomesDue(r)
    \/ \E i \in Instruments : FeedAdvances(i) \/ DeactivateInstrument(i) \/ ScheduledIngestion(i)

Spec == Init /\ [][Next]_vars

(* The worker of the deployment watches for ever and is restarted when it    *)
(* fails; although it may die at any time, some processes get through their  *)
(* sweep.  The claim takes the request that has been available longest, so   *)
(* one that stays available is claimed.  Time passes.  Nothing is owed to    *)
(* the scheduled ingestion.                                                  *)
Fairness ==
    /\ \A w \in Workers : WF_vars(StartWorker(w)) /\ WF_vars(Proceed(w))
    /\ SF_vars(\E w \in Workers : FailExhaustedRequests(w))
    /\ \A r \in Requests :
          /\ SF_vars(\E w \in Workers : ClaimNextRequest(w, r))
          /\ WF_vars(ExpireLease(r))
          /\ WF_vars(RetryBecomesDue(r))

FairSpec == Spec /\ Fairness

-----------------------------------------------------------------------------
(* Properties *)

\* The batch of a requeue is refused as a whole only when a request became
\* active after its snapshot: while it is current, the unique index admits it,
\* however many failed requests its targets have, and whatever the workers do.
BatchFits ==
    \A w \in Workers :
        wk[w].pc = "requeue" /\ plan[w].current => IndexAdmits(plan[w].rows)

\* A request succeeds only with bars as recent as those the provider had when
\* it was submitted, whichever attempt fetched them and whoever published.
SucceededIsFresh ==
    \A r \in Requests : row[r].status = "succeeded" => row[r].version >= asked[r]

\* Whatever a worker writes to a row is about its own attempt: after the lease
\* moved on, or the request was failed and put back, nothing it reports counts.
ReportsOwnAttempt ==
    [][\A w \in Workers, r \in Requests :
          /\ CompleteRequest(w) \/ RetryOrFail(w) \/ FailRequest(w)
          /\ row'[r] # row[r]
          => r = wk[w].request /\ wk[w].attempt = row[r].attempts]_vars

\* A request that waits in the queue is eventually claimed or failed.
QueuedIsServed ==
    \A r \in Requests : row[r].status = "queued" ~> row[r].status # "queued"
=============================================================================
