------------------------------ MODULE QuantRuns ------------------------------
(***************************************************************************)
(* The queue of backtests: the rows of quant_runs, their legs and          *)
(* artifacts, the web requests that create and cancel a run, and the       *)
(* Python workers that claim, execute, checkpoint and complete it.  They   *)
(* share nothing but the database, so an action is one transaction (or one *)
(* statement, where other transactions can commit between two of them).    *)
(***************************************************************************)
EXTENDS Integers, Sequences

CONSTANTS
    Runs,         \* identities of rows of quant_runs
    Workers,      \* worker identities: one per invocation of run_once
    Clients,      \* concurrent web requests
    Keys,         \* organization, engine version and portfolio hash of a run
    Checkpoints,  \* progress values an execution reports, in order
    MaxAttempts,  \* MAX_ATTEMPTS
    NoWorker, NoRun, NoKey, NoClient

ASSUME AttemptsAssumption == MaxAttempts \in Nat \ {0}

ASSUME CheckpointsAssumption == Checkpoints \in Seq(5 .. 99)

ASSUME NullsAssumption ==
    /\ NoWorker \notin Workers
    /\ NoRun \notin Runs
    /\ NoKey \notin Keys
    /\ NoClient \notin Clients

VARIABLES
    row,        \* quant_runs, by identity
    legs,       \* the common status of the legs of a run
    artifacts,  \* the attempt that wrote the artifacts of a run, 0 if none
    wk,         \* invocations of run_once
    cl,         \* web requests
    lock        \* advisory transaction lock of each key

vars == <<row, legs, artifacts, wk, cl, lock>>

-----------------------------------------------------------------------------
(* Types *)

Outcomes == {"succeeded", "failed", "cancelled", "timed_out"}

Open == {"queued", "running", "cancel_requested"}

Row == [status    : {"absent"} \cup Open \cup Outcomes,
        progress  : 0 .. 100,
        worker    : Workers \cup {NoWorker},
        lease     : {"none", "live", "expired"},
        attempts  : 0 .. MaxAttempts,
        overdue   : BOOLEAN,   \* deadline_at has passed
        key       : Keys \cup {NoKey}]

LegStatus == {"absent", "queued", "running"} \cup Outcomes

Worker == [pc      : {"stopped", "recover", "claim", "execute"},
           run     : Runs \cup {NoRun},
           attempt : 0 .. MaxAttempts,
           step    : 0 .. Len(Checkpoints) + 1]

Client == [pc  : {"idle", "waiting", "deduplicate", "insert",
                  "cancelQueued", "cancelRunning"},
           run : Runs \cup {NoRun},
           key : Keys \cup {NoKey}]

TypeOK ==
    /\ row \in [Runs -> Row]
    /\ legs \in [Runs -> LegStatus]
    /\ artifacts \in [Runs -> 0 .. MaxAttempts]
    /\ wk \in [Workers -> Worker]
    /\ cl \in [Clients -> Client]
    /\ lock \in [Keys -> Clients \cup {NoClient}]

-----------------------------------------------------------------------------
(* Rows *)

AbsentRow == [status |-> "absent", progress |-> 0, worker |-> NoWorker,
              lease |-> "none", attempts |-> 0, overdue |-> FALSE,
              key |-> NoKey]

QueuedRow(k) == [AbsentRow EXCEPT !.status = "queued", !.key = k]

Settled(x, s) == [x EXCEPT !.status = s, !.progress = 100, !.lease = "none"]

\* Faulty: a run that still waits in the queue is not looked for.
AnswersWhenStarted(x, k) == x.status \in {"running", "succeeded"} /\ x.key = k

\* The rows a new request for key k is answered with instead of a new run.
Answers(x, k) == x.status \in {"queued", "running", "succeeded"} /\ x.key = k

\* Faulty: the reported progress is stored as it is.
LatestReport(p, q) == q

\* GREATEST(progress, reported).
AtLeast(p, q) == IF p >= q THEN p ELSE q

\* Faulty: an expired lease may be taken over for ever.
ClaimableForEver(x) ==
    /\ ~x.overdue
    /\ \/ x.status = "queued"
       \/ x.status = "running" /\ x.lease = "expired"

Claimable(x) ==
    /\ ~x.overdue
    /\ \/ x.status = "queued"
       \/ x.status = "running" /\ x.lease = "expired" /\ x.attempts < MaxAttempts

\* Faulty: a cancellation is settled only when no lease was ever taken.
StaleCancelUnleased(x) == x.status = "cancel_requested" /\ x.lease = "none"

StaleCancel(x) == x.status = "cancel_requested" /\ x.lease # "live"

\* Faulty: a lease that expired on the last attempt is left to the deadline.
StaleByDeadline(x) == x.status \in {"queued", "running"} /\ x.overdue

StaleRun(x) ==
    \/ x.status = "queued" /\ x.overdue
    \/ /\ x.status = "running"
       /\ x.overdue \/ (x.lease = "expired" /\ x.attempts >= MaxAttempts)

\* What recover_stale_runs makes of a row.
Recovered(x) ==
    IF StaleCancel(x) THEN Settled(x, "cancelled")
    ELSE IF StaleRun(x) THEN Settled(x, "timed_out")
    ELSE x

\* What claim_next_run, checkpoint_run and a cancellation make of a row.
Claimed(x, w) ==
    [x EXCEPT !.status = "running", !.progress = AtLeast(x.progress, 5),
              !.worker = w, !.lease = "live", !.attempts = x.attempts + 1]

Reported(x, p) == [x EXCEPT !.progress = AtLeast(x.progress, p), !.lease = "live"]

Marked(x) == [x EXCEPT !.status = "cancel_requested"]

SettleLegs(s, outcome) == IF s \in {"queued", "running"} THEN outcome ELSE s

Idle == [pc |-> "idle", run |-> NoRun, key |-> NoKey]

Stopped == [pc |-> "stopped", run |-> NoRun, attempt |-> 0, step |-> 0]

Init ==
    /\ row = [r \in Runs |-> AbsentRow]
    /\ legs = [r \in Runs |-> "absent"]
    /\ artifacts = [r \in Runs |-> 0]
    /\ wk = [w \in Workers |-> Stopped]
    /\ cl = [c \in Clients |-> Idle]
    /\ lock = [k \in Keys |-> NoClient]

-----------------------------------------------------------------------------
(* Web requests: createPortfolioQuantRun.  The key was computed before the *)
(* transaction; the lock is held from its acquisition to the commit.       *)

Release(c) == lock' = [k \in Keys |-> IF lock[k] = c THEN NoClient ELSE lock[k]]

RequestRun(c, k) ==
    /\ cl[c].pc = "idle"
    /\ cl' = [cl EXCEPT ![c] = [pc |-> "waiting", run |-> NoRun, key |-> k]]
    /\ UNCHANGED <<row, legs, artifacts, wk, lock>>

LockKey(c) ==
    /\ cl[c].pc = "waiting"
    /\ lock[cl[c].key] = NoClient
    /\ lock' = [lock EXCEPT ![cl[c].key] = c]
    /\ cl' = [cl EXCEPT ![c].pc = "deduplicate"]
    /\ UNCHANGED <<row, legs, artifacts, wk>>

\* A run that answers the key is returned as it is and nothing is written.
FindCachedRun(c) ==
    /\ cl[c].pc = "deduplicate"
    /\ IF \E r \in Runs : Answers(row[r], cl[c].key)
       THEN cl' = [cl EXCEPT ![c] = Idle] /\ Release(c)
       ELSE cl' = [cl EXCEPT ![c].pc = "insert"] /\ UNCHANGED lock
    /\ UNCHANGED <<row, legs, artifacts, wk>>

InsertRun(c, r) ==
    /\ cl[c].pc = "insert"
    /\ row[r].status = "absent"
    /\ row' = [row EXCEPT ![r] = QueuedRow(cl[c].key)]
    /\ legs' = [legs EXCEPT ![r] = "queued"]
    /\ cl' = [cl EXCEPT ![c] = Idle]
    /\ Release(c)
    /\ UNCHANGED <<artifacts, wk>>

(* cancelPortfolioQuantRun: read the status, then update under that status. *)

ReadForCancel(c, r) ==
    /\ cl[c].pc = "idle"
    /\ row[r].status \in {"queued", "running"}
    /\ cl' = [cl EXCEPT ![c] =
                [pc  |-> IF row[r].status = "queued" THEN "cancelQueued" ELSE "cancelRunning",
                 run |-> r, key |-> NoKey]]
    /\ UNCHANGED <<row, legs, artifacts, wk, lock>>

\* Faulty: no second update when a worker claimed the run after the read.
CancelQueuedRunOnly(c) ==
    LET r == cl[c].run IN
    /\ cl[c].pc = "cancelQueued"
    /\ cl' = [cl EXCEPT ![c] = Idle]
    /\ IF row[r].status = "queued"
       THEN /\ row' = [row EXCEPT ![r] = Settled(@, "cancelled")]
            /\ legs' = [legs EXCEPT ![r] = "cancelled"]
       ELSE UNCHANGED <<row, legs>>
    /\ UNCHANGED <<artifacts, wk, lock>>

CancelQueuedRun(c) ==
    LET r == cl[c].run IN
    /\ cl[c].pc = "cancelQueued"
    /\ IF row[r].status = "queued"
       THEN /\ row' = [row EXCEPT ![r] = Settled(@, "cancelled")]
            /\ legs' = [legs EXCEPT ![r] = IF @ = "queued" THEN "cancelled" ELSE @]
            /\ cl' = [cl EXCEPT ![c] = Idle]
       ELSE /\ cl' = [cl EXCEPT ![c].pc = "cancelRunning"]
            /\ UNCHANGED <<row, legs>>
    /\ UNCHANGED <<artifacts, wk, lock>>

\* Faulty: the update does not repeat the status it was decided on.
CancelByIdentity(c) ==
    /\ cl[c].pc = "cancelRunning"
    /\ row' = [row EXCEPT ![cl[c].run].status = "cancel_requested"]
    /\ cl' = [cl EXCEPT ![c] = Idle]
    /\ UNCHANGED <<legs, artifacts, wk, lock>>

CancelRunningRun(c) ==
    LET r == cl[c].run IN
    /\ cl[c].pc = "cancelRunning"
    /\ row' = [row EXCEPT ![r] = IF @.status = "running" THEN Marked(@) ELSE @]
    /\ cl' = [cl EXCEPT ![c] = Idle]
    /\ UNCHANGED <<legs, artifacts, wk, lock>>

\* A request that dies or times out is rolled back, which frees its lock.
AbortRequest(c) ==
    /\ cl[c].pc # "idle"
    /\ cl' = [cl EXCEPT ![c] = Idle]
    /\ Release(c)
    /\ UNCHANGED <<row, legs, artifacts, wk>>

-----------------------------------------------------------------------------
(* The worker: run_once takes an identity no open row carries, recovers,   *)
(* claims at most one run and executes it between two checkpoints.         *)

StartInvocation(w) ==
    /\ wk[w].pc = "stopped"
    /\ \A r \in Runs : row[r].status \in Open => row[r].worker # w
    /\ wk' = [wk EXCEPT ![w].pc = "recover"]
    /\ UNCHANGED <<row, legs, artifacts, cl, lock>>

RecoverStaleRuns(w) ==
    /\ wk[w].pc = "recover"
    /\ row' = [r \in Runs |-> Recovered(row[r])]
    /\ legs' = [r \in Runs |-> IF row'[r].status \in {"cancelled", "timed_out"}
                               THEN SettleLegs(legs[r], row'[r].status)
                               ELSE legs[r]]
    /\ wk' = [wk EXCEPT ![w].pc = "claim"]
    /\ UNCHANGED <<artifacts, cl, lock>>

\* SKIP LOCKED: any eligible row may be the oldest one that is not locked.
ClaimNextRun(w, r) ==
    /\ wk[w].pc = "claim"
    /\ Claimable(row[r])
    /\ row' = [row EXCEPT ![r] = Claimed(@, w)]
    /\ wk' = [wk EXCEPT ![w] = [pc |-> "execute", run |-> r,
                                attempt |-> row[r].attempts + 1, step |-> 1]]
    /\ UNCHANGED <<legs, artifacts, cl, lock>>

NothingToClaim(w) ==
    /\ wk[w].pc = "claim"
    /\ wk' = [wk EXCEPT ![w] = Stopped]
    /\ UNCHANGED <<row, legs, artifacts, cl, lock>>

\* Faulty: the update names the run but not the worker.
HoldsByStatus(w, s) == row[wk[w].run].status = s

\* The fence of every write a worker makes to the run it executes.
Holds(w, s) ==
    /\ row[wk[w].run].status = s
    /\ row[wk[w].run].worker = w

AtCheckpoint(w) == wk[w].pc = "execute" /\ wk[w].step <= Len(Checkpoints)

Advanced(u) == [u EXCEPT !.step = u.step + 1]

Finish(w, outcome) ==
    LET r == wk[w].run IN
    /\ row' = [row EXCEPT ![r] = Settled(@, outcome)]
    /\ legs' = [legs EXCEPT ![r] = SettleLegs(@, outcome)]
    /\ wk' = [wk EXCEPT ![w] = Stopped]
    /\ UNCHANGED <<cl, lock>>

CheckpointCancelled(w) ==
    /\ AtCheckpoint(w)
    /\ Holds(w, "cancel_requested")
    /\ Finish(w, "cancelled")
    /\ UNCHANGED artifacts

CheckpointTimedOut(w) ==
    /\ AtCheckpoint(w)
    /\ Holds(w, "running")
    /\ row[wk[w].run].overdue
    /\ Finish(w, "timed_out")
    /\ UNCHANGED artifacts

CheckpointHeld(w) ==
    LET r == wk[w].run IN
    /\ AtCheckpoint(w)
    /\ Holds(w, "running")
    /\ ~row[r].overdue
    /\ row' = [row EXCEPT ![r] = Reported(@, Checkpoints[wk[w].step])]
    /\ legs' = [legs EXCEPT ![r] = SettleLegs(@, "running")]
    /\ wk' = [wk EXCEPT ![w] = Advanced(@)]
    /\ UNCHANGED <<artifacts, cl, lock>>

\* Neither update found the row.  A cancellation that commits between the
\* first and the last update of checkpoint_run ends the attempt here too,
\* with the row left cancel_requested.
CheckpointLost(w) ==
    /\ AtCheckpoint(w)
    /\ ~Holds(w, "running")
    /\ wk' = [wk EXCEPT ![w] = Stopped]
    /\ UNCHANGED <<row, legs, artifacts, cl, lock>>

CompleteRun(w) ==
    /\ wk[w].pc = "execute" /\ wk[w].step > Len(Checkpoints)
    /\ Holds(w, "running")
    /\ artifacts' = [artifacts EXCEPT ![wk[w].run] = wk[w].attempt]
    /\ Finish(w, "succeeded")

\* Datasets that are missing or do not match, a bad configuration, a bug.
FailRun(w) ==
    /\ wk[w].pc = "execute" /\ wk[w].step > 1
    /\ Holds(w, "running")
    /\ Finish(w, "failed")
    /\ UNCHANGED artifacts

\* complete_run or fail_run found no row to update and rolled back.
WriteRefused(w) ==
    /\ wk[w].pc = "execute" /\ wk[w].step > 1
    /\ ~Holds(w, "running")
    /\ wk' = [wk EXCEPT ![w] = Stopped]
    /\ UNCHANGED <<row, legs, artifacts, cl, lock>>

\* The process dies, at any point between two transactions.
Crash(w) ==
    /\ wk[w].pc # "stopped"
    /\ wk' = [wk EXCEPT ![w] = Stopped]
    /\ UNCHANGED <<row, legs, artifacts, cl, lock>>

-----------------------------------------------------------------------------
(* Time: only whether a lease or a deadline has passed matters. *)

Expired(x) == [x EXCEPT !.lease = "expired"]

Overdue(x) == [x EXCEPT !.overdue = TRUE]

ExpireLease(r) ==
    /\ row[r].lease = "live"
    /\ row' = [row EXCEPT ![r] = Expired(@)]
    /\ UNCHANGED <<legs, artifacts, wk, cl, lock>>

PassDeadline(r) ==
    /\ row[r].status \in Open
    /\ ~row[r].overdue
    /\ row' = [row EXCEPT ![r] = Overdue(@)]
    /\ UNCHANGED <<legs, artifacts, wk, cl, lock>>

-----------------------------------------------------------------------------
Request(c) ==
    \/ \E k \in Keys : RequestRun(c, k)
    \/ LockKey(c)
    \/ FindCachedRun(c)
    \/ \E r \in Runs : InsertRun(c, r)
    \/ \E r \in Runs : ReadForCancel(c, r)
    \/ CancelQueuedRun(c)
    \/ CancelRunningRun(c)
    \/ AbortRequest(c)

\* What run_once does of its own accord once it was started.
Proceed(w) ==
    \/ RecoverStaleRuns(w)
    \/ \E r \in Runs : ClaimNextRun(w, r)
    \/ NothingToClaim(w)
    \/ CheckpointCancelled(w)
    \/ CheckpointTimedOut(w)
    \/ CheckpointHeld(w)
    \/ CheckpointLost(w)
    \/ CompleteRun(w)
    \/ FailRun(w)
    \/ WriteRefused(w)

Time == \E r \in Runs : ExpireLease(r) \/ PassDeadline(r)

Next ==
    \/ \E c \in Clients : Request(c)
    \/ \E w \in Workers : StartInvocation(w) \/ Proceed(w) \/ Crash(w)
    \/ Time

Spec == Init /\ [][Next]_vars

(* The worker loop polls for ever and one that died is started again; a     *)
(* process that keeps dying still gets to recover_stale_runs, its first     *)
(* statement, again and again.  Time passes.  Nothing is assumed of the     *)
(* requests.                                                                *)
Fairness ==
    /\ \A w \in Workers : WF_vars(StartInvocation(w)) /\ WF_vars(Proceed(w))
    /\ SF_vars(\E w \in Workers : RecoverStaleRuns(w))
    /\ \A r \in Runs : WF_vars(ExpireLease(r)) /\ WF_vars(PassDeadline(r))

FairSpec == Spec /\ Fairness

-----------------------------------------------------------------------------
(* Properties *)

\* At most one run answers a key: two requests with the same portfolio hash
\* never leave two runs waiting, running or succeeded, whatever the timing
\* of the requests, of the workers and of cancellations.
OneRunPerKey ==
    \A k \in Keys : \A r, s \in Runs :
        Answers(row[r], k) /\ Answers(row[s], k) => r = s

\* Artifacts exist exactly for succeeded runs and were written by the latest
\* attempt: a worker that lost its lease to a retry writes nothing.
ArtifactsFenced ==
    \A r \in Runs :
        artifacts[r] = IF row[r].status = "succeeded" THEN row[r].attempts ELSE 0

\* A run is never in nobody's hands: until it settles, a lease runs on it, a
\* worker may claim it, or the next recovery settles it.
NoOrphan ==
    \A r \in Runs :
        row[r].status \in Open =>
            \/ row[r].lease = "live"
            \/ Claimable(row[r])
            \/ Recovered(row[r]) # row[r]

\* Progress never goes back, across retries of an execution that starts over.
ProgressMonotonic ==
    [][\A r \in Runs : row'[r].progress >= row[r].progress]_vars

\* When a cancellation returns, the run it was about has settled or is marked:
\* it cannot slip from the queue into a worker's hands between the two reads.
CancellationAnswered ==
    [][\A c \in Clients :
          /\ CancelQueuedRun(c) \/ CancelRunningRun(c)
          /\ cl'[c].pc = "idle"
          => row'[cl[c].run].status \notin {"queued", "running"}]_vars

\* Every run settles, although workers die and requests come at any time, and
\* its legs settle as it does, wherever it is settled from.
EventuallySettled ==
    \A r \in Runs :
        row[r].status \in Open
            ~> row[r].status \in Outcomes /\ legs[r] = row[r].status

(* The queue implements the life cycle of a job. *)

JobState(s) ==
    CASE s = "absent" -> "none"
      [] s \in {"queued", "running"} -> "open"
      [] s = "cancel_requested" -> "stopping"
      [] OTHER -> s

JobView == [r \in Runs |-> [state  |-> JobState(row[r].status),
                           key    |-> row[r].key,
                           result |-> artifacts[r] # 0]]

Lifecycle == INSTANCE JobLifecycle WITH Jobs <- Runs, job <- JobView

\* Every transaction of the queue is a step of the life cycle or invisible.
ImplementsLifecycle == Lifecycle!Spec
=============================================================================
