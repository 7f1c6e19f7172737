------------------------------ MODULE Portfolio ------------------------------
(* The ledger of one portfolio and the strategy signals it executes:         *)
(* src/lib/backend/portfolio-repository.ts, updateStrategySignalStatus, and  *)
(* the synchronization of exchange rates.  Handlers of the web application   *)
(* run at the same time; each mutation is one database transaction that      *)
(* locks the row of the portfolio, shown as its statements.  Dates are the   *)
(* days of PortfolioLedger, and the prices of the inputs are in USD.         *)
EXTENDS PortfolioReport

CONSTANTS
    Requests,     \* web requests handled at the same time
    Signals,
    MaxRows,      \* bounds the transactions there are at a time
    SignalOf,     \* signal -> the [asset, type] it suggests
    Patched,      \* the signals users set the status of
    RateOn,       \* day -> VND per USD, for the days that get an observation
    FallbackRate,
    NoSignal

ASSUME PortfolioAssumption ==
    /\ MaxRows \in Nat
    /\ SignalOf \in [Signals -> [asset : Assets, type : {"buy", "sell"}]]
    /\ Patched \subseteq Signals
    /\ DOMAIN RateOn \subseteq Days
    /\ RateOn \in [DOMAIN RateOn -> Nat \ {0}]
    /\ FallbackRate \in Nat \ {0}
    /\ NoSignal \notin Signals

VARIABLES
    source,       \* id -> sourceSignalId
    fx,           \* id -> [rate, fallback], the FX snapshot
    positions,    \* [quantity, average], the position rows
    signal,       \* signal -> status
    observed,     \* days whose rate is stored
    pc,           \* request -> where its handler stands
    job,          \* request -> the operation it serves
    staged        \* request -> what its open transaction is going to write

vars == <<rows, source, fx, positions, signal, observed, pc, job, staged>>
database == <<rows, source, fx, positions, signal>>

-----------------------------------------------------------------------------
Ids == 1 .. MaxRows
Statuses == {"suggested", "reviewed", "executed", "dismissed"}
Snapshot == [rate : Nat, fallback : BOOLEAN]
Positions == [quantity : [Assets -> Nat], average : [Assets -> Int]]

NoJob == [op |-> "none", id |-> 0, input |-> << >>, signal |-> NoSignal]
NoStage == [snapshot |-> << >>, positions |-> << >>]

Job == [op : {"create", "update", "delete"}, id : Ids, input : Inputs \cup {<< >>},
        signal : Signals \cup {NoSignal}]
Stage == [snapshot : Snapshot, positions : Positions]

TypeOK ==
    /\ DOMAIN rows \subseteq Ids
    /\ rows \in [DOMAIN rows -> Inputs]
    /\ source \in [DOMAIN rows -> Signals \cup {NoSignal}]
    /\ fx \in [DOMAIN rows -> Snapshot]
    /\ positions \in Positions
    /\ signal \in [Signals -> Statuses]
    /\ observed \subseteq DOMAIN RateOn
    /\ pc \in [Requests -> {"idle", "ready", "locked", "rebuilt"}]
    /\ job \in [Requests -> Job \cup {NoJob}]
    /\ staged \in [Requests -> Stage \cup {NoStage}]

Init ==
    /\ rows = << >>
    /\ source = << >>
    /\ fx = << >>
    /\ positions = [quantity |-> [a \in Assets |-> 0], average |-> [a \in Assets |-> 0]]
    /\ signal = [g \in Signals |-> "suggested"]
    /\ observed = {}
    /\ pc = [c \in Requests |-> "idle"]
    /\ job = [c \in Requests |-> NoJob]
    /\ staged = [c \in Requests |-> NoStage]

-----------------------------------------------------------------------------
(* What a transaction of the database sees and writes.                       *)

Put(f, i, x) == [j \in DOMAIN f \cup {i} |-> IF j = i THEN x ELSE f[j]]

Drop(f, i) == [j \in DOMAIN f \ {i} |-> f[j]]

\* latestFxSnapshot: the latest observation on or before the day, never later.
SnapshotFor(day) ==
    LET known == {d \in observed : d <= day}
    IN  IF known = {} THEN [rate |-> FallbackRate, fallback |-> TRUE]
        ELSE [rate |-> RateOn[Max(known)], fallback |-> FALSE]

\* The rows after the statement of the operation.
RowsAfter(c) ==
    IF job[c].op = "delete" THEN Drop(rows, job[c].id) ELSE Put(rows, job[c].id, job[c].input)

FxAfter(c, snapshot) ==
    IF job[c].op = "delete" THEN Drop(fx, job[c].id) ELSE Put(fx, job[c].id, snapshot)

\* convertAt: price and fee of each transaction at its own snapshot.
InVnd(ledger, snapshots) ==
    [i \in DOMAIN ledger |->
        [ledger[i] EXCEPT !.price = @ * snapshots[i].rate, !.fee = @ * snapshots[i].rate]]

\* rebuildPortfolioPositions: what replaces the position rows.
Rebuilt(ledger, snapshots) ==
    [quantity |-> Holdings(ledger).quantity,
     average |-> Accounts(InVnd(ledger, snapshots)).average]

-----------------------------------------------------------------------------
(* createPortfolioTransaction, updatePortfolioTransaction and                *)
(* deletePortfolioTransaction.                                               *)

Begin(c, j) ==
    /\ pc[c] = "idle"
    /\ pc' = [pc EXCEPT ![c] = "ready"]
    /\ job' = [job EXCEPT ![c] = j]
    /\ UNCHANGED <<database, observed, staged>>

\* createdAt is the time the database transaction starts, before it waits for
\* the lock: after the rows there are, and before or after those of handlers
\* that run meanwhile.
Fresh == {i \in Ids : /\ \A j \in DOMAIN rows : i > j
                      /\ \A c \in Requests : job[c].id # i}

BeginCreate(c, i, input, g) ==
    /\ i \in Fresh
    /\ \A j \in Fresh : i <= j
    /\ Begin(c, [op |-> "create", id |-> i, input |-> input, signal |-> g])

\* The transaction is looked for before the lock is taken.
BeginUpdate(c, i, input) ==
    /\ i \in DOMAIN rows
    /\ Begin(c, [op |-> "update", id |-> i, input |-> input, signal |-> NoSignal])

BeginDelete(c, i) ==
    /\ i \in DOMAIN rows
    /\ Begin(c, [op |-> "delete", id |-> i, input |-> << >>, signal |-> source[i]])

\* Faulty: no lock is taken.
NoLockNeeded == TRUE

\* SELECT ... FOR UPDATE on the portfolio waits for the transaction that has it.
LockFree == \A c \in Requests : pc[c] \notin {"locked", "rebuilt"}

\* validateSourceSignalExecution
Executable(g, input) ==
    /\ signal[g] \in {"suggested", "reviewed"}
    /\ SignalOf[g] = [asset |-> input.asset, type |-> input.type]

Admitted(c) ==
    job[c].op = "create" /\ job[c].signal # NoSignal
        => Executable(job[c].signal, job[c].input)

Finish(c) ==
    /\ pc' = [pc EXCEPT ![c] = "idle"]
    /\ job' = [job EXCEPT ![c] = NoJob]
    /\ staged' = [staged EXCEPT ![c] = NoStage]

Lock(c) ==
    /\ pc[c] = "ready"
    /\ LockFree
    /\ IF Admitted(c)
       THEN pc' = [pc EXCEPT ![c] = "locked"] /\ UNCHANGED <<job, staged>>
       ELSE Finish(c)
    /\ UNCHANGED <<database, observed>>

\* Faulty: the column is not unique.
NoUniqueIndex(g) == TRUE

\* The unique index on the signal of a transaction.
SignalUnused(g) == g = NoSignal \/ \A i \in DOMAIN rows : source[i] # g

\* The statement finds its row, and its signal is not taken.
StatementSucceeds(c) ==
    IF job[c].op = "create" THEN SignalUnused(job[c].signal) ELSE job[c].id \in DOMAIN rows

\* Faulty: a deletion is not replayed.
ReplayableUnlessDeleted(c) == job[c].op = "delete" \/ Holdings(RowsAfter(c)).ok

\* replayPortfolioLedger throws no PortfolioDomainError.
Replayable(c) == Holdings(RowsAfter(c)).ok

\* The statement of the operation, then the replay of all the rows.
Rebuild(c) ==
    LET snapshot == IF job[c].op = "delete" THEN [rate |-> 0, fallback |-> FALSE]
                                            ELSE SnapshotFor(job[c].input.day)
    IN  /\ pc[c] = "locked"
        /\ StatementSucceeds(c)
        /\ Replayable(c)
        /\ pc' = [pc EXCEPT ![c] = "rebuilt"]
        /\ staged' = [staged EXCEPT ![c] =
               [snapshot |-> snapshot,
                positions |-> Rebuilt(RowsAfter(c), FxAfter(c, snapshot))]]
        /\ UNCHANGED <<database, observed, job>>

\* A statement fails, the replay refuses a sale, or the process dies: the
\* transaction is rolled back and its lock is released.
Abort(c) ==
    /\ pc[c] \in {"ready", "locked", "rebuilt"}
    /\ Finish(c)
    /\ UNCHANGED <<database, observed>>

\* Faulty: a deleted transaction leaves its signal executed.
StatusAfterKept(c) ==
    IF job[c].signal = NoSignal THEN signal
    ELSE [signal EXCEPT ![job[c].signal] = IF job[c].op = "delete" THEN @ ELSE "executed"]

\* A signal is executed with its transaction, and suggested again without it.
StatusAfter(c) ==
    IF job[c].signal = NoSignal THEN signal
    ELSE [signal EXCEPT ![job[c].signal] =
             IF job[c].op = "delete" THEN "suggested" ELSE "executed"]

SourceAfter(c) ==
    CASE job[c].op = "create" -> Put(source, job[c].id, job[c].signal)
      [] job[c].op = "update" -> source
      [] job[c].op = "delete" -> Drop(source, job[c].id)

Commit(c) ==
    /\ pc[c] = "rebuilt"
    /\ rows' = RowsAfter(c)
    /\ fx' = FxAfter(c, staged[c].snapshot)
    /\ source' = SourceAfter(c)
    /\ positions' = staged[c].positions
    /\ signal' = StatusAfter(c)
    /\ Finish(c)
    /\ UNCHANGED observed

-----------------------------------------------------------------------------
(* The other writers: the status of a signal set by a user, and the          *)
(* synchronization of rates.                                                 *)

\* updateStrategySignalStatus: any status, whatever the one there is.
SetSignalStatus(g, status) ==
    /\ g \in Patched
    /\ signal[g] # status
    /\ signal' = [signal EXCEPT ![g] = status]
    /\ UNCHANGED <<rows, source, fx, positions, observed, pc, job, staged>>

\* upsert of a missing date.
ObserveRate(d) ==
    /\ d \notin observed
    /\ observed' = observed \cup {d}
    /\ UNCHANGED <<database, pc, job, staged>>

\* backfill_transaction_snapshots, run by every synchronization of history and
\* by a daily one that failed: a fallback snapshot is replaced by a rate there
\* is now.  It waits for the row that an open transaction has written.
BackfillSnapshots ==
    /\ \A c \in Requests : pc[c] = "rebuilt" => job[c].op = "create"
    /\ fx' = [i \in DOMAIN rows |-> IF fx[i].fallback THEN SnapshotFor(rows[i].day) ELSE fx[i]]
    /\ UNCHANGED <<rows, source, positions, signal, observed, pc, job, staged>>

-----------------------------------------------------------------------------
Handle(c) ==
    \/ \E i \in Ids, input \in Inputs, g \in Signals \cup {NoSignal} : BeginCreate(c, i, input, g)
    \/ \E i \in Ids, input \in Inputs : BeginUpdate(c, i, input)
    \/ \E i \in Ids : BeginDelete(c, i)
    \/ Lock(c)
    \/ Rebuild(c)
    \/ Abort(c)
    \/ Commit(c)

Next ==
    \/ \E c \in Requests : Handle(c)
    \/ \E g \in Signals, status \in Statuses : SetSignalStatus(g, status)
    \/ \E d \in DOMAIN RateOn : ObserveRate(d)
    \/ BackfillSnapshots

Spec == Init /\ [][Next]_vars

-----------------------------------------------------------------------------
\* The position rows hold the quantities that the recorded transactions leave,
\* and the ledger can always be replayed: every mutation replays all of it
\* under the lock of the portfolio, so no interleaving of handlers leaves the
\* cache of another ledger, or a ledger that the page cannot show.
PositionsAreReplay ==
    /\ Holdings(rows).ok
    /\ positions.quantity = Holdings(rows).quantity

\* A signal is executed by one transaction at most, even when users reopen it.
SignalExecutedOnce ==
    \A i, j \in DOMAIN rows : source[i] = source[j] /\ source[i] # NoSignal => i = j

\* A signal whose status users leave alone is executed exactly while a
\* transaction executes it, across deletions, refusals and rollbacks.
ExecutedIsLinked ==
    \A g \in Signals \ Patched :
        signal[g] = "executed" <=> \E i \in DOMAIN rows : source[i] = g

Book == INSTANCE LedgerBook
            WITH Ids <- Ids, Trades <- Inputs, trades <- rows, held <- positions.quantity

\* The handlers implement a ledger that is changed one transaction at a time.
ImplementsBook == Book!Spec
=============================================================================
