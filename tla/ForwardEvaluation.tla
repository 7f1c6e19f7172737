--------------------------- MODULE ForwardEvaluation ---------------------------
(***************************************************************************)
(* Forward tests of one asset: a successful backtest leg is applied to a   *)
(* portfolio as an assignment, each publication of a dataset version       *)
(* enqueues a job for the active assignments, and a worker evaluates the   *)
(* bars an assignment has not seen, writes signals and moves it forward.   *)
(*                                                                         *)
(* The asset has two datasets of the same bars, raw and adjusted for       *)
(* dividends, each with its active version, and several publishers.  A     *)
(* version is known by the last bar it holds: that of a later one may be   *)
(* older.  The worker claims, evaluates and writes in one transaction:     *)
(* what it claimed is seen by the others only as a lock, and nothing       *)
(* remains of it if the process dies.                                      *)
(***************************************************************************)
EXTENDS Integers, FiniteSets

CONSTANTS
    Assignments,  \* identities of rows of strategy_assignments
    Portfolios,
    Workers,      \* worker processes
    Requests,     \* concurrent calls of applyStrategyAssignment
    MaxVersion,   \* bound on the versions published, of both datasets
    MaxBar,       \* bound on their bars
    MaxLive,      \* worker processes that run at the same time
    NoAssignment, NoPortfolio

ASSUME BoundsAssumption ==
    /\ MaxVersion \in Nat \ {0}
    /\ MaxBar \in Nat \ {0}
    /\ MaxLive \in Nat

ASSUME NullsAssumption == NoAssignment \notin Assignments /\ NoPortfolio \notin Portfolios

\* Versions are numbered in the order of their publication.
Versions == 1 .. MaxVersion

Datasets == {"raw", "total_return"}

VARIABLES
    newest,   \* the version published last, 0 before the first
    active,   \* the active version of each dataset, 0 for none
    lastBar,  \* the last bar of each published version, 0 before
    row,      \* strategy_assignments
    job,      \* status of strategy_evaluation_jobs, by assignment and version
    signals,  \* strategy_signals of evaluations: assignment, version, bar
    wk,       \* worker processes
    req       \* calls of applyStrategyAssignment

vars == <<newest, active, lastBar, row, job, signals, wk, req>>

-----------------------------------------------------------------------------
Row == [status    : {"absent", "active", "archived", "evaluation_failed"},
        portfolio : Portfolios \cup {NoPortfolio},
        seen      : 0 .. MaxBar]        \* last_evaluated_bar_at

\* "invalid" is failed by the claim, "failed" by the evaluation.
JobStatus == {"absent", "queued", "succeeded", "failed", "invalid"}

Worker == [pc         : {"stopped", "idle", "evaluating", "rejecting"},
           assignment : Assignments \cup {NoAssignment},
           version    : 0 .. MaxVersion,
           seen       : 0 .. MaxBar]    \* last_evaluated_bar_at when claimed

Request == [pc        : {"idle", "checked"},
            portfolio : Portfolios \cup {NoPortfolio},
            version   : 0 .. MaxVersion]

TypeOK ==
    /\ newest \in 0 .. MaxVersion
    /\ active \in [Datasets -> 0 .. MaxVersion]
    /\ lastBar \in [Versions -> 0 .. MaxBar]
    /\ row \in [Assignments -> Row]
    /\ job \in [Assignments \X Versions -> JobStatus]
    /\ signals \subseteq Assignments \X Versions \X (1 .. MaxBar)
    /\ wk \in [Workers -> Worker]
    /\ req \in [Requests -> Request]

At(pc) == [pc |-> pc, assignment |-> NoAssignment, version |-> 0, seen |-> 0]

NoRequest == [pc |-> "idle", portfolio |-> NoPortfolio, version |-> 0]

Init ==
    /\ newest = 0
    /\ active = [d \in Datasets |-> 0]
    /\ lastBar = [v \in Versions |-> 0]
    /\ row = [a \in Assignments |->
                 [status |-> "absent", portfolio |-> NoPortfolio, seen |-> 0]]
    /\ job = [j \in Assignments \X Versions |-> "absent"]
    /\ signals = {}
    /\ wk = [w \in Workers |-> At("stopped")]
    /\ req = [c \in Requests |-> NoRequest]

-----------------------------------------------------------------------------
(* Publication. *)

\* A job is missing only once: ON CONFLICT (assignment, version) DO NOTHING.
EnqueueStrategyEvaluations(v) ==
    [j \in Assignments \X Versions |->
        IF j[2] = v /\ row[j[1]].status = "active" /\ job[j] = "absent"
        THEN "queued"
        ELSE job[j]]

\* Whatever bars the publisher merged, or imported: an import queues no jobs.
Publish(d, b) ==
    LET v == newest + 1 IN
    /\ v \in Versions
    /\ newest' = v
    /\ active' = [active EXCEPT ![d] = v]
    /\ lastBar' = [lastBar EXCEPT ![v] = b]
    /\ job' \in {job, EnqueueStrategyEvaluations(v)}
    /\ UNCHANGED <<row, signals, wk, req>>

\* The corporate actions do not cover the raw bars any more.
DeactivateAdjusted ==
    /\ active' = [active EXCEPT !["total_return"] = 0]
    /\ UNCHANGED <<newest, lastBar, row, job, signals, wk, req>>

-----------------------------------------------------------------------------
(* applyStrategyAssignment: a transaction at the default isolation, whose  *)
(* checks may be outdated when it commits.                                 *)

IsActive(v) == \E d \in Datasets : active[d] = v

\* The backtest leg was run on a version that is active now.
CheckLeg(c, p, v) ==
    /\ req[c].pc = "idle"
    /\ IsActive(v)
    /\ req' = [req EXCEPT ![c] = [pc |-> "checked", portfolio |-> p, version |-> v]]
    /\ UNCHANGED <<newest, active, lastBar, row, job, signals, wk>>

\* Faulty: the assignment of the portfolio stays active beside the new one.
KeepActive(x, p) == x

ArchiveActive(x, p) ==
    IF x.portfolio = p /\ x.status = "active" THEN [x EXCEPT !.status = "archived"] ELSE x

\* Identities are interchangeable: the next row to insert.
Fresh(a) ==
    /\ row[a].status = "absent"
    /\ a = CHOOSE b \in Assignments : row[b].status = "absent"

CreateAssignment(c, a) ==
    /\ req[c].pc = "checked"
    /\ Fresh(a)
    /\ row' = [b \in Assignments |->
                  IF b = a
                  THEN [status |-> "active", portfolio |-> req[c].portfolio,
                        seen |-> lastBar[req[c].version]]
                  ELSE ArchiveActive(row[b], req[c].portfolio)]
    /\ req' = [req EXCEPT ![c] = NoRequest]
    /\ UNCHANGED <<newest, active, lastBar, job, signals, wk>>

\* A failed check, or the index of active assignments against a call that
\* committed in between.
ApplyFails(c) ==
    /\ req[c].pc = "checked"
    /\ req' = [req EXCEPT ![c] = NoRequest]
    /\ UNCHANGED <<newest, active, lastBar, row, job, signals, wk>>

-----------------------------------------------------------------------------
(* The worker. *)

Live == {w \in Workers : wk[w].pc # "stopped"}

StartWorker(w) ==
    /\ wk[w].pc = "stopped"
    /\ Cardinality(Live) < MaxLive
    /\ wk' = [wk EXCEPT ![w] = At("idle")]
    /\ UNCHANGED <<newest, active, lastBar, row, job, signals, req>>

\* FOR UPDATE SKIP LOCKED
Locked(a, v) == \E w \in Workers : wk[w].assignment = a /\ wk[w].version = v

\* No transaction commits a job as running, so a lease never expires.
Claimable(a, v) == job[<<a, v>>] = "queued" /\ ~Locked(a, v)

\* Jobs of one version were created at the same time.
Oldest(a, v) ==
    /\ Claimable(a, v)
    /\ \A b \in Assignments, u \in Versions : Claimable(b, u) => u >= v

Eligible(a, v) == row[a].status = "active" /\ IsActive(v)

ClaimNextEvaluation(w, a, v) ==
    /\ wk[w].pc = "idle"
    /\ Oldest(a, v)
    /\ wk' = [wk EXCEPT ![w] = [pc         |-> IF Eligible(a, v) THEN "evaluating"
                                                                 ELSE "rejecting",
                                assignment |-> a,
                                version    |-> v,
                                seen       |-> row[a].seen]]
    /\ UNCHANGED <<newest, active, lastBar, row, job, signals, req>>

\* Whatever became of the assignment meanwhile.
Failed(x) == [x EXCEPT !.status = "evaluation_failed"]

\* Faulty: the job stays queued for a later try.
RejectedLater(outcome) == IF outcome = "invalid" THEN "queued" ELSE outcome

Settled(outcome) == outcome

\* The transaction commits: the job has an outcome, the assignment becomes x.
Settle(w, outcome, x) ==
    /\ job' = [job EXCEPT ![<<wk[w].assignment, wk[w].version>>] = Settled(outcome)]
    /\ row' = [row EXCEPT ![wk[w].assignment] = x]
    /\ wk' = [wk EXCEPT ![w] = At("idle")]
    /\ UNCHANGED <<newest, active, lastBar, req>>

Reject(w) ==
    /\ wk[w].pc = "rejecting"
    /\ Settle(w, "invalid", Failed(row[wk[w].assignment]))
    /\ UNCHANGED signals

\* Faulty: the last bar that was seen is evaluated again.
NewBarsAndLast(w) == {b \in 1 .. lastBar[wk[w].version] : b >= wk[w].seen}

NewBars(w) == {b \in 1 .. lastBar[wk[w].version] : b > wk[w].seen}

\* strategy_assignments_one_active_per_asset: the assignment would become
\* active again beside the one that replaced it.
IndexRefuses(w) ==
    \E a \in Assignments \ {wk[w].assignment} :
        /\ row[a].status = "active"
        /\ row[a].portfolio = row[wk[w].assignment].portfolio

\* Any of the new bars may call for a signal; each is inserted once.
CompleteEvaluation(w) ==
    LET a == wk[w].assignment
        v == wk[w].version
    IN  /\ wk[w].pc = "evaluating"
        /\ ~IndexRefuses(w)
        /\ \E bars \in SUBSET NewBars(w) :
              signals' = signals \cup {<<a, v, b>> : b \in bars}
        /\ Settle(w, "succeeded", [row[a] EXCEPT !.status = "active", !.seen = lastBar[v]])

\* The error aborts the transaction, fail_evaluation fails in it too, and the
\* process ends.
CompletionRefused(w) ==
    /\ wk[w].pc = "evaluating"
    /\ IndexRefuses(w)
    /\ wk' = [wk EXCEPT ![w] = At("stopped")]
    /\ UNCHANGED <<newest, active, lastBar, row, job, signals, req>>

\* A checksum or hash that does not match, a rule that cannot be read, a bug.
FailEvaluation(w) ==
    /\ wk[w].pc = "evaluating"
    /\ Settle(w, "failed", Failed(row[wk[w].assignment]))
    /\ UNCHANGED signals

Crash(w) ==
    /\ wk[w].pc # "stopped"
    /\ wk' = [wk EXCEPT ![w] = At("stopped")]
    /\ UNCHANGED <<newest, active, lastBar, row, job, signals, req>>

-----------------------------------------------------------------------------
Apply(c) ==
    \/ \E p \in Portfolios, v \in Versions : CheckLeg(c, p, v)
    \/ \E a \in Assignments : CreateAssignment(c, a)
    \/ ApplyFails(c)

Conclude(w) == Reject(w) \/ CompleteEvaluation(w)

Claim(w) == \E a \in Assignments, v \in Versions : ClaimNextEvaluation(w, a, v)

Proceed(w) ==
    \/ Claim(w)
    \/ Conclude(w)
    \/ CompletionRefused(w)

Next ==
    \/ \E d \in Datasets, b \in 1 .. MaxBar : Publish(d, b)
    \/ DeactivateAdjusted
    \/ \E c \in Requests : Apply(c)
    \/ \E w \in Workers : StartWorker(w) \/ Proceed(w) \/ FailEvaluation(w) \/ Crash(w)

Spec == Init /\ [][Next]_vars

(* The worker polls for ever, and one that died is started again.  It may    *)
(* die at any time, but not each time before it claims or each time that it  *)
(* evaluates: the deaths that the code does not cause (CompletionRefused is  *)
(* one that it does) have nothing to do with the job at hand.                *)
Fairness ==
    /\ \A w \in Workers : WF_vars(StartWorker(w)) /\ WF_vars(Proceed(w))
    /\ SF_vars(\E w \in Workers : Claim(w))
    /\ SF_vars(\E w \in Workers : Conclude(w))

FairSpec == Spec /\ Fairness

-----------------------------------------------------------------------------
(* Properties *)

\* A portfolio follows one strategy for the asset: a completion that comes
\* after the assignment was replaced does not bring it back.
OneActive ==
    \A a, b \in Assignments :
        /\ row[a].status = "active" /\ row[b].status = "active"
        /\ row[a].portfolio = row[b].portfolio
        => a = b

\* An evaluation acts on a bar only if it is later than those its assignment
\* has been taken through when the signals are written: none works from a state
\* that another one has replaced.  So only an evaluation that took the
\* assignment back, to a version with an older last bar, makes it act twice.
SignalsAreNew == [][\A s \in signals' \ signals : s[3] > row[s[1]].seen]_vars

\* Every job is settled, although publications supersede it, assignments are
\* replaced under it and workers die.
QueuedIsSettled ==
    \A a \in Assignments, v \in Versions :
        job[<<a, v>>] = "queued" ~> job[<<a, v>>] # "queued"
=============================================================================
