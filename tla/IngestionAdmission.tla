-------------------------- MODULE IngestionAdmission --------------------------
(***************************************************************************)
(* How a request for market data is admitted: requestMarketIngestion, run  *)
(* by several web requests of one organization at a time.  Its transaction *)
(* is serializable, and its first statement waits for the advisory lock of *)
(* the target, so its snapshot is as old as the wait: whoever waited does  *)
(* not see what was inserted under the lock, and owes it to the conflict   *)
(* detection of the database, and to the retries, that it answers right.   *)
(* That detection is between serializable transactions.  The worker and    *)
(* the catalog synchronization write the same rows at read committed,      *)
(* without the lock and without the limits: only the unique index on the   *)
(* active rows stands between them and a submission.                       *)
(***************************************************************************)
EXTENDS Integers, FiniteSets

CONSTANTS
    Rows,         \* identities of rows of market_ingestion_requests
    Users,        \* the users of the organization
    Instruments,
    Clients,      \* concurrent web requests
    UserLimit,    \* 20 active requests of a user
    OrgLimit,     \* 100 active requests of the organization
    MaxTries,     \* TRANSACTION_RETRY_ATTEMPTS
    NoClient, NoTarget

ASSUME LimitsAssumption ==
    /\ UserLimit \in Nat
    /\ OrgLimit \in Nat
    /\ MaxTries \in Nat \ {0}

ASSUME NullsAssumption == NoClient \notin Clients /\ NoTarget \notin Users \X Instruments

VARIABLES
    row,   \* market_ingestion_requests of the organization
    tx,    \* calls of requestMarketIngestion
    lock   \* advisory transaction lock of each target

vars == <<row, tx, lock>>

-----------------------------------------------------------------------------
Targets == Users \X Instruments

Row == [status : {"absent", "queued", "running", "succeeded", "failed"},
        target : Targets \cup {NoTarget}]

Tx == [pc     : {"idle", "start", "waiting", "deduplicate", "insert"},
       target : Targets \cup {NoTarget},
       tries  : 0 .. MaxTries,
       active : SUBSET Rows,   \* the active rows of the snapshot
       beside : BOOLEAN,       \* a submission committed since the snapshot
       outside : SUBSET Rows]  \* rows made active since by anybody else

TypeOK ==
    /\ row \in [Rows -> Row]
    /\ tx \in [Clients -> Tx]
    /\ lock \in [Targets -> Clients \cup {NoClient}]

Idle == [pc |-> "idle", target |-> NoTarget, tries |-> 0,
         active |-> {}, beside |-> FALSE, outside |-> {}]

Init ==
    /\ row = [r \in Rows |-> [status |-> "absent", target |-> NoTarget]]
    /\ tx = [c \in Clients |-> Idle]
    /\ lock = [t \in Targets |-> NoClient]

\* The rows under the unique index market_ingestion_requests_active_unique.
ActiveRows == {r \in Rows : row[r].status \in {"queued", "running"}}

Existing == {r \in Rows : row[r].status # "absent"}

Twins(t) == {r \in ActiveRows : row[r].target = t}

\* Identities are interchangeable: the next row to insert.
Fresh(r) ==
    /\ row[r].status = "absent"
    /\ r = CHOOSE s \in Rows : row[s].status = "absent"

Reading(c) == tx[c].pc \in {"waiting", "deduplicate", "insert"}

Release(c) == lock' = [t \in Targets |-> IF lock[t] = c THEN NoClient ELSE lock[t]]

-----------------------------------------------------------------------------
\* The bound of the model: every open request finds an identity to insert.
Room == Cardinality({c \in Clients : tx[c].pc # "idle"}) < Cardinality(Rows \ Existing)

Started(t, tries) == [pc |-> "start", target |-> t, tries |-> tries,
                      active |-> {}, beside |-> FALSE, outside |-> {}]

Request(c, t) ==
    /\ tx[c].pc = "idle"
    /\ Room
    /\ tx' = [tx EXCEPT ![c] = Started(t, 0)]
    /\ UNCHANGED <<row, lock>>

\* Faulty: a request that a worker has claimed is not looked at.
WaitingRows == {r \in Rows : row[r].status = "queued"}

\* The rows of ACTIVE_STATUSES, for the lookup and for the two counts.
FoundRows == {r \in Rows : row[r].status \in {"queued", "running"}}

\* The first statement of the transaction: snapshot, then wait.
Begin(c) ==
    /\ tx[c].pc = "start"
    /\ tx' = [tx EXCEPT ![c] = [pc |-> "waiting", target |-> tx[c].target,
                                tries |-> tx[c].tries + 1,
                                active |-> FoundRows, beside |-> FALSE, outside |-> {}]]
    /\ UNCHANGED <<row, lock>>

LockTarget(c) ==
    /\ tx[c].pc = "waiting"
    /\ lock[tx[c].target] = NoClient
    /\ lock' = [lock EXCEPT ![tx[c].target] = c]
    /\ tx' = [tx EXCEPT ![c] = [@ EXCEPT !.pc = "deduplicate"]]
    /\ UNCHANGED row

OfUser(S, u) == {r \in S : row[r].target[1] = u}

\* The request is answered with an active one, or refused for the limits.
Answered(c) ==
    \/ \E r \in tx[c].active : row[r].target = tx[c].target
    \/ Cardinality(OfUser(tx[c].active, tx[c].target[1])) >= UserLimit
    \/ Cardinality(tx[c].active) >= OrgLimit

FindActive(c) ==
    /\ tx[c].pc = "deduplicate"
    /\ IF Answered(c)
       THEN tx' = [tx EXCEPT ![c] = Idle] /\ Release(c)
       ELSE tx' = [tx EXCEPT ![c] = [@ EXCEPT !.pc = "insert"]] /\ UNCHANGED lock
    /\ UNCHANGED row

\* Faulty: read committed, where a concurrent insertion is no conflict.
ReadCommitted(c) == TRUE

\* Of two submissions that count the rows and insert one, each missing the
\* row of the other, the database commits the first.
Serializable(c) == ~tx[c].beside

\* An insertion that commits: the others that have their snapshot miss it.
Committed(c) ==
    [d \in Clients |-> IF d = c THEN Idle
                       ELSE IF Reading(d) THEN [tx[d] EXCEPT !.beside = TRUE]
                       ELSE tx[d]]

InsertRequest(c, r) ==
    /\ tx[c].pc = "insert"
    /\ Serializable(c)
    /\ Twins(tx[c].target) = {}
    /\ Fresh(r)
    /\ row' = [row EXCEPT ![r] = [status |-> "queued", target |-> tx[c].target]]
    /\ tx' = Committed(c)
    /\ Release(c)

\* P2002: the unique index refuses the row, and the call fails with it.
RefuseDuplicate(c) ==
    /\ tx[c].pc = "insert"
    /\ Serializable(c)
    /\ Twins(tx[c].target) # {}
    /\ tx' = [tx EXCEPT ![c] = Idle]
    /\ Release(c)
    /\ UNCHANGED row

NextTry(x) == IF x.tries < MaxTries THEN Started(x.target, x.tries) ELSE Idle

\* Faulty: the lock belongs to the session and survives the rollback.
RetryUnderLock(c) ==
    /\ tx[c].pc = "insert"
    /\ ~Serializable(c)
    /\ tx' = [tx EXCEPT ![c] = NextTry(@)]
    /\ UNCHANGED <<row, lock>>

\* P2034: rolled back, and run again unless the budget is exhausted.
Retry(c) ==
    /\ tx[c].pc = "insert"
    /\ ~Serializable(c)
    /\ tx' = [tx EXCEPT ![c] = NextTry(@)]
    /\ Release(c)
    /\ UNCHANGED row

Abort(c) ==
    /\ tx[c].pc # "idle"
    /\ tx' = [tx EXCEPT ![c] = Idle]
    /\ Release(c)
    /\ UNCHANGED row

\* The worker claims, completes, fails or retries: see IngestionQueue.
Work(r) ==
    /\ \/ /\ row[r].status = "queued"
          /\ \E status \in {"running", "failed"} : row' = [row EXCEPT ![r].status = status]
       \/ /\ row[r].status = "running"
          /\ \E status \in {"queued", "succeeded", "failed"} :
                row' = [row EXCEPT ![r].status = status]
    /\ UNCHANGED <<tx, lock>>

\* A row that no submission inserted becomes active.
OutsideWrite(r, t) ==
    /\ Twins(t) = {}
    /\ row' = [row EXCEPT ![r] = [status |-> "queued", target |-> t]]
    /\ tx' = [c \in Clients |->
                 IF Reading(c) THEN [tx[c] EXCEPT !.outside = @ \cup {r}] ELSE tx[c]]
    /\ UNCHANGED lock

\* requeue_failed_requests, one row at a time: which ones its batch puts back
\* together, and that the index refuses all or none, is in IngestionQueue.
Requeue(r) ==
    /\ row[r].status = "failed"
    /\ OutsideWrite(r, row[r].target)

\* queue_market_ingestion_requests: ON CONFLICT DO NOTHING.
QueueDue(r, t) ==
    /\ Fresh(r)
    /\ Room
    /\ OutsideWrite(r, t)

\* The bound of the model: the identity of a row nobody looks at any more
\* stands for that of a later one.
Recycle(r) ==
    /\ row[r].status \in {"succeeded", "failed"}
    /\ \A c \in Clients : tx[c].pc = "idle"
    /\ row' = [row EXCEPT ![r] = [status |-> "absent", target |-> NoTarget]]
    /\ UNCHANGED <<tx, lock>>

-----------------------------------------------------------------------------
Proceed(c) ==
    \/ Begin(c)
    \/ LockTarget(c)
    \/ FindActive(c)
    \/ \E r \in Rows : InsertRequest(c, r)
    \/ RefuseDuplicate(c)
    \/ Retry(c)

Next ==
    \/ \E c \in Clients : \/ \E t \in Targets : Request(c, t)
                          \/ Proceed(c)
                          \/ Abort(c)
    \/ \E r \in Rows : \/ Work(r) \/ Requeue(r) \/ Recycle(r)
                       \/ \E t \in Targets : QueueDue(r, t)

Spec == Init /\ [][Next]_vars

\* A request that is being served goes on; who is served next for a lock is
\* the database's first come, first served queue.
Fairness ==
    \A c \in Clients : WF_vars(Proceed(c)) /\ SF_vars(LockTarget(c))

FairSpec == Spec /\ Fairness

-----------------------------------------------------------------------------
(* Properties *)

\* Submissions never run into one another at the unique index, whose error
\* is not retried: whatever it refuses a submission for was made active by the
\* worker or the synchronization, after the snapshot.
RefusedForOthers ==
    \A c \in Clients :
        tx[c].pc = "insert" /\ Serializable(c) => Twins(tx[c].target) \subseteq tx[c].outside

\* No timing of submissions takes a user, or the organization, beyond its
\* limit, although each counts before it inserts: a submission is inserted
\* below the limits, but for what others made active after its snapshot.
AdmittedWithinLimits ==
    \A c \in Clients :
        tx[c].pc = "insert" /\ Serializable(c) =>
            /\ Cardinality(ActiveRows \ tx[c].outside) < OrgLimit
            /\ Cardinality(OfUser(ActiveRows \ tx[c].outside, tx[c].target[1])) < UserLimit

\* Every request is answered: no order of waiting for locks, conflicts and
\* retries keeps one waiting for ever.
EveryRequestAnswered == \A c \in Clients : tx[c].pc # "idle" ~> tx[c].pc = "idle"
=============================================================================
