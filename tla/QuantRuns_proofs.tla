--------------------------- MODULE QuantRuns_proofs ---------------------------
(***************************************************************************)
(* Theorems about the queue of backtests, for any number of runs, workers, *)
(* requests, keys, attempts and checkpoints.                               *)
(***************************************************************************)
EXTENDS QuantRuns, SequenceTheorems, TLAPS

-----------------------------------------------------------------------------
(* Rows *)

LEMMA SettledType ==
    ASSUME NEW x \in Row, NEW s \in Outcomes
    PROVE  Settled(x, s) \in Row
<1>1. 100 \in 0 .. 100
  OBVIOUS
<1> QED
  BY <1>1, Zenon DEF Settled, Row

LEMMA RecoveredType ==
    ASSUME NEW x \in Row
    PROVE  Recovered(x) \in Row
  BY SettledType DEF Recovered, Outcomes

LEMMA QueuedType ==
    ASSUME NEW k \in Keys
    PROVE  QueuedRow(k) \in Row
<1>1. 0 \in 0 .. 100 /\ 0 \in 0 .. MaxAttempts
  BY AttemptsAssumption
<1>2. AbsentRow \in Row
  BY <1>1, Zenon DEF AbsentRow, Row
<1> QED
  BY <1>2, Zenon DEF QueuedRow, Row, Open

LEMMA ClaimedType ==
    ASSUME NEW x \in Row, NEW w \in Workers, Claimable(x),
           x.status = "queued" => x.attempts = 0
    PROVE  /\ Claimed(x, w) \in Row
           /\ x.attempts + 1 \in 1 .. MaxAttempts
<1>1. x.attempts + 1 \in 1 .. MaxAttempts
  BY AttemptsAssumption DEF Claimable, Row
<1>2. AtLeast(x.progress, 5) \in 0 .. 100
  BY DEF AtLeast, Row
<1>3. x.attempts + 1 \in 0 .. MaxAttempts
  BY <1>1
<1>4. Claimed(x, w) \in Row
  BY <1>2, <1>3, Zenon DEF Claimed, Row, Open
<1> QED
  BY <1>1, <1>4

LEMMA ReportedType ==
    ASSUME NEW x \in Row, NEW p \in 5 .. 99
    PROVE  Reported(x, p) \in Row
<1>1. AtLeast(x.progress, p) \in 0 .. 100
  BY DEF AtLeast, Row
<1> QED
  BY <1>1, Zenon DEF Reported, Row

LEMMA MarkedType ==
    ASSUME NEW x \in Row
    PROVE  Marked(x) \in Row
  BY Zenon DEF Marked, Row, Open

(* What each helper changes of a row. *)

LEMMA SettledFields ==
    ASSUME NEW x \in Row, NEW s \in Outcomes
    PROVE  /\ Settled(x, s).status = s
           /\ Settled(x, s).progress = 100
           /\ Settled(x, s).lease = "none"
           /\ Settled(x, s).worker = x.worker
           /\ Settled(x, s).attempts = x.attempts
           /\ Settled(x, s).overdue = x.overdue
           /\ Settled(x, s).key = x.key
  BY Zenon DEF Settled, Row

LEMMA ClaimedFields ==
    ASSUME NEW x \in Row, NEW w \in Workers
    PROVE  /\ Claimed(x, w).status = "running"
           /\ Claimed(x, w).progress = AtLeast(x.progress, 5)
           /\ Claimed(x, w).lease = "live"
           /\ Claimed(x, w).worker = w
           /\ Claimed(x, w).attempts = x.attempts + 1
           /\ Claimed(x, w).key = x.key
  BY Zenon DEF Claimed, Row

LEMMA ReportedFields ==
    ASSUME NEW x \in Row, NEW p \in 5 .. 99
    PROVE  /\ Reported(x, p).progress = AtLeast(x.progress, p)
           /\ Reported(x, p).lease = "live"
           /\ Reported(x, p).status = x.status
           /\ Reported(x, p).worker = x.worker
           /\ Reported(x, p).attempts = x.attempts
           /\ Reported(x, p).key = x.key
  BY Zenon DEF Reported, Row

LEMMA MarkedFields ==
    ASSUME NEW x \in Row
    PROVE  /\ Marked(x).status = "cancel_requested"
           /\ Marked(x).progress = x.progress
           /\ Marked(x).lease = x.lease
           /\ Marked(x).worker = x.worker
           /\ Marked(x).attempts = x.attempts
           /\ Marked(x).key = x.key
  BY Zenon DEF Marked, Row

LEMMA QueuedFields ==
    ASSUME NEW k \in Keys
    PROVE  /\ QueuedRow(k).status = "queued"
           /\ QueuedRow(k).attempts = 0
           /\ QueuedRow(k).progress = 0
           /\ QueuedRow(k).key = k
  BY Zenon DEF QueuedRow, AbsentRow

LEMMA AdvancedFields ==
    ASSUME NEW u \in Worker, u.step + 1 \in 0 .. Len(Checkpoints) + 1
    PROVE  /\ Advanced(u) \in Worker
           /\ Advanced(u).step = u.step + 1
           /\ Advanced(u).pc = u.pc
           /\ Advanced(u).run = u.run
           /\ Advanced(u).attempt = u.attempt
  BY Zenon DEF Advanced, Worker

LEMMA TimeFields ==
    ASSUME NEW x \in Row, NEW y \in {Expired(x), Overdue(x)}
    PROVE  /\ y \in Row
           /\ y.status = x.status
           /\ y.progress = x.progress
           /\ y.worker = x.worker
           /\ y.attempts = x.attempts
           /\ y.key = x.key
<1>1. CASE y = Expired(x)
  BY <1>1, Zenon DEF Expired, Row
<1>2. CASE y = Overdue(x)
  BY <1>2, Zenon DEF Overdue, Row
<1> QED BY <1>1, <1>2

\* A recovery leaves a row alone or settles it, unless it succeeded or failed.
LEMMA RecoveredCases ==
    ASSUME NEW x \in Row
    PROVE  \/ Recovered(x) = x
           \/ /\ x.status \in Open
              /\ \E s \in {"cancelled", "timed_out"} :
                    /\ Recovered(x) = Settled(x, s)
                    /\ x.status = "cancel_requested" => s = "cancelled"
  BY DEF Recovered, StaleCancel, StaleRun, Open

-----------------------------------------------------------------------------
(* Type correctness.  Beyond the types it needs that a client that works on *)
(* a run or on a key has one, and that a run still in the queue was never   *)
(* attempted: a claim of a queued run does not look at the attempts.        *)

QueueUntouched ==
    \A r \in Runs : /\ row[r].status = "queued" => row[r].attempts = 0
                    /\ row[r].status = "absent" => row[r].key = NoKey

ClientsReady ==
    \A c \in Clients :
        /\ cl[c].pc \in {"waiting", "deduplicate", "insert"} => cl[c].key \in Keys
        /\ cl[c].pc \in {"cancelQueued", "cancelRunning"} => cl[c].run \in Runs

WorkersReady ==
    \A w \in Workers :
        wk[w].pc = "execute" => /\ wk[w].run \in Runs
                                /\ wk[w].step >= 1
                                /\ wk[w].attempt >= 1

TypeInv == TypeOK /\ QueueUntouched /\ ClientsReady /\ WorkersReady

LEMMA TypeInit == Init => TypeInv
  BY AttemptsAssumption, CheckpointsAssumption
     DEF Init, TypeInv, TypeOK, QueueUntouched, ClientsReady, WorkersReady, AbsentRow, Row, Idle, Stopped,
         Client, Worker, LegStatus, Open

LEMMA RequestType ==
    ASSUME TypeInv, NEW c \in Clients, Request(c)
    PROVE  TypeInv'
<1> USE DEF TypeInv, TypeOK, QueueUntouched, ClientsReady, WorkersReady
<1>1. ASSUME NEW k \in Keys, RequestRun(c, k) PROVE TypeInv'
  BY <1>1 DEF RequestRun, Client
<1>2. CASE LockKey(c)
  BY <1>2 DEF LockKey, Client
<1>3. CASE FindCachedRun(c)
  BY <1>3 DEF FindCachedRun, Client, Idle, Release
<1>4. ASSUME NEW r \in Runs, InsertRun(c, r) PROVE TypeInv'
  <2>1. QueueUntouched'
    BY <1>4, QueuedFields DEF InsertRun
  <2> QED
    BY <1>4, <2>1, QueuedType DEF InsertRun, Client, Idle, Release, LegStatus
<1>5. ASSUME NEW r \in Runs, ReadForCancel(c, r) PROVE TypeInv'
  BY <1>5 DEF ReadForCancel, Client
<1>6. CASE CancelQueuedRun(c)
  <2>1. QueueUntouched'
    BY <1>6, SettledFields DEF CancelQueuedRun, Outcomes
  <2>2. row' \in [Runs -> Row]
    BY <1>6, SettledType DEF CancelQueuedRun, Outcomes
  <2>3. legs' \in [Runs -> LegStatus]
    BY <1>6 DEF CancelQueuedRun, LegStatus, Outcomes
  <2>4. cl' \in [Clients -> Client] /\ ClientsReady'
    BY <1>6 DEF CancelQueuedRun, Client, Idle
  <2>5. UNCHANGED <<wk, artifacts>>
    BY <1>6 DEF CancelQueuedRun
  <2> QED
    BY <1>6, <2>1, <2>2, <2>3, <2>4, <2>5 DEF CancelQueuedRun
<1>7. CASE CancelRunningRun(c)
  <2>1. row' \in [Runs -> Row]
    BY <1>7, MarkedType DEF CancelRunningRun
  <2>2. QueueUntouched'
    BY <1>7, MarkedFields DEF CancelRunningRun
  <2> QED BY <1>7, <2>1, <2>2 DEF CancelRunningRun, Client, Idle
<1>8. CASE AbortRequest(c)
  BY <1>8 DEF AbortRequest, Client, Idle, Release
<1> QED
  BY <1>1, <1>2, <1>3, <1>4, <1>5, <1>6, <1>7, <1>8 DEF Request

LEMMA FinishType ==
    ASSUME TypeInv, NEW w \in Workers, wk[w].pc = "execute", NEW s \in Outcomes, Finish(w, s),
           artifacts' \in [Runs -> 0 .. MaxAttempts]
    PROVE  TypeInv'
<1>1. row' \in [Runs -> Row]
  BY SettledType DEF Finish, TypeInv, TypeOK, WorkersReady
<1>0. QueueUntouched'
  BY SettledFields DEF Finish, Outcomes, TypeInv, TypeOK, QueueUntouched, WorkersReady
<1>2. legs' \in [Runs -> LegStatus]
  BY DEF Finish, SettleLegs, LegStatus, TypeInv, TypeOK, WorkersReady
<1>3. wk' \in [Workers -> Worker] /\ WorkersReady'
  BY AttemptsAssumption, CheckpointsAssumption
     DEF Finish, Stopped, Worker, TypeInv, TypeOK, WorkersReady
<1> QED
  BY <1>0, <1>1, <1>2, <1>3 DEF Finish, TypeInv, TypeOK, ClientsReady

\* What a checkpoint that finds its row writes.
HeldEffect(w) ==
    /\ wk[w].pc = "execute"
    /\ wk' = [wk EXCEPT ![w] = Advanced(@)]
    /\ wk[w].step + 1 \in 0 .. Len(Checkpoints) + 1
    /\ UNCHANGED <<artifacts, cl, lock>>
    /\ \E r \in Runs, p \in 5 .. 99 :
          /\ r = wk[w].run
          /\ row[r].status = "running"
          /\ row[r].worker = w
          /\ row' = [row EXCEPT ![r] = Reported(@, p)]
          /\ legs' = [legs EXCEPT ![r] = SettleLegs(@, "running")]

LEMMA HeldStep ==
    ASSUME TypeInv, NEW w \in Workers, CheckpointHeld(w)
    PROVE  HeldEffect(w)
<1> USE DEF TypeInv, TypeOK, WorkersReady
<1>1. PICK r \in Runs : r = wk[w].run
  BY DEF CheckpointHeld, AtCheckpoint
<1>2. wk[w].step \in 1 .. Len(Checkpoints)
  BY CheckpointsAssumption, LenProperties DEF CheckpointHeld, AtCheckpoint, Worker
<1>3. PICK p \in 5 .. 99 : p = Checkpoints[wk[w].step]
  BY <1>2, CheckpointsAssumption, ElementOfSeq, Zenon
<1>4. wk[w].step + 1 \in 0 .. Len(Checkpoints) + 1
  BY <1>2, CheckpointsAssumption, LenProperties
<1> QED BY <1>1, <1>3, <1>4 DEF HeldEffect, CheckpointHeld, AtCheckpoint, Holds

LEMMA WorkerType ==
    ASSUME TypeInv, NEW w \in Workers, StartInvocation(w) \/ Proceed(w) \/ Crash(w)
    PROVE  TypeInv'
<1>h. CheckpointHeld(w) => HeldEffect(w)
  BY HeldStep
<1> USE DEF TypeInv, TypeOK, QueueUntouched, ClientsReady, WorkersReady
<1>a. Stopped \in Worker
  BY AttemptsAssumption, CheckpointsAssumption DEF Stopped, Worker
<1>b. Len(Checkpoints) \in Nat
  BY CheckpointsAssumption
<1>1. CASE StartInvocation(w)
  BY <1>1 DEF StartInvocation, Worker
<1>2. CASE RecoverStaleRuns(w)
  <2>1. row' \in [Runs -> Row]
    BY <1>2, RecoveredType DEF RecoverStaleRuns
  <2>2. legs' \in [Runs -> LegStatus]
    <3>1. ASSUME NEW r \in Runs
          PROVE  (IF row'[r].status \in {"cancelled", "timed_out"}
                  THEN SettleLegs(legs[r], row'[r].status) ELSE legs[r]) \in LegStatus
      BY DEF SettleLegs, LegStatus, Outcomes
    <3> QED BY <1>2, <3>1 DEF RecoverStaleRuns
  <2>3. QueueUntouched'
    BY <1>2, RecoveredCases, SettledFields DEF RecoverStaleRuns, Outcomes
  <2> QED BY <1>2, <2>1, <2>2, <2>3 DEF RecoverStaleRuns, Worker
<1>3. ASSUME NEW r \in Runs, ClaimNextRun(w, r) PROVE TypeInv'
  <2>1. /\ Claimed(row[r], w) \in Row
        /\ row[r].attempts + 1 \in 1 .. MaxAttempts
    BY <1>3, ClaimedType DEF ClaimNextRun
  <2>2. QueueUntouched'
    BY <1>3, ClaimedFields DEF ClaimNextRun
  <2>3. wk' \in [Workers -> Worker] /\ WorkersReady'
    BY <1>3, <1>b, <2>1 DEF ClaimNextRun, Worker
  <2> QED BY <1>3, <2>1, <2>2, <2>3 DEF ClaimNextRun
<1>4. CASE NothingToClaim(w)
  BY <1>4, <1>a DEF NothingToClaim, Stopped
<1>5. CASE CheckpointCancelled(w)
  BY <1>5, FinishType DEF CheckpointCancelled, AtCheckpoint, Outcomes
<1>6. CASE CheckpointTimedOut(w)
  BY <1>6, FinishType DEF CheckpointTimedOut, AtCheckpoint, Outcomes
<1>7. CASE CheckpointHeld(w)
  <2>p. PICK r \in Runs, p \in 5 .. 99 :
            /\ r = wk[w].run
            /\ row[r].status = "running" /\ row[r].worker = w
            /\ row' = [row EXCEPT ![r] = Reported(@, p)]
    BY <1>7, <1>h DEF HeldEffect
  <2>1. row' \in [Runs -> Row] /\ QueueUntouched'
    BY <2>p, ReportedType, ReportedFields
  <2>2. legs' \in [Runs -> LegStatus]
    BY <1>7, <1>h DEF HeldEffect, SettleLegs, LegStatus
  <2>a. /\ Advanced(wk[w]) \in Worker
        /\ Advanced(wk[w]).step = wk[w].step + 1
        /\ Advanced(wk[w]).run = wk[w].run
        /\ Advanced(wk[w]).attempt = wk[w].attempt
    BY <1>7, <1>h, AdvancedFields DEF HeldEffect
  <2>b. wk[w].step \in Nat
    BY <1>b DEF Worker
  <2>3. wk' \in [Workers -> Worker] /\ WorkersReady'
    <3>1. wk' = [wk EXCEPT ![w] = Advanced(wk[w])] /\ wk[w].pc = "execute"
      BY <1>7, <1>h DEF HeldEffect
    <3>2. Advanced(wk[w]).step >= 1
      BY <2>a, <2>b, <3>1
    <3> QED BY <2>a, <3>1, <3>2
  <2> QED BY <1>7, <1>h, <2>1, <2>2, <2>3 DEF HeldEffect
<1>8. CASE CheckpointLost(w)
  BY <1>8, <1>a DEF CheckpointLost, Stopped
<1>9. CASE CompleteRun(w)
  <2>1. artifacts' \in [Runs -> 0 .. MaxAttempts]
    BY <1>9 DEF CompleteRun, Worker
  <2> QED BY <1>9, <2>1, FinishType DEF CompleteRun, Outcomes
<1>10. CASE FailRun(w)
  BY <1>10, FinishType DEF FailRun, Outcomes
<1>11. CASE WriteRefused(w)
  BY <1>11, <1>a DEF WriteRefused, Stopped
<1>12. CASE Crash(w)
  BY <1>12, <1>a DEF Crash, Stopped
<1> QED
  BY <1>1, <1>2, <1>3, <1>4, <1>5, <1>6, <1>7, <1>8, <1>9, <1>10, <1>11, <1>12 DEF Proceed

LEMMA TimeType ==
    ASSUME TypeInv, Time
    PROVE  TypeInv'
<1> USE DEF TypeInv, TypeOK, QueueUntouched, ClientsReady, WorkersReady
<1>1. PICK r \in Runs : ExpireLease(r) \/ PassDeadline(r)
  BY DEF Time
<1>2. row' \in [Runs -> Row] /\ QueueUntouched'
  BY <1>1, TimeFields DEF ExpireLease, PassDeadline
<1> QED BY <1>1, <1>2 DEF ExpireLease, PassDeadline

LEMMA TypeNext == TypeInv /\ [Next]_vars => TypeInv'
<1> SUFFICES ASSUME TypeInv, [Next]_vars PROVE TypeInv'
  OBVIOUS
<1>1. CASE UNCHANGED vars
  BY <1>1 DEF vars, TypeInv, TypeOK, QueueUntouched, ClientsReady, WorkersReady
<1> QED
  BY <1>1, RequestType, WorkerType, TimeType DEF Next

(* Every row, leg, artifact, worker and request keeps its type; in          *)
(* particular no run is attempted more than MAX_ATTEMPTS times and progress *)
(* stays within 0 and 100.                                                  *)
THEOREM TypeCorrect == Spec => []TypeOK
<1>1. TypeInv => TypeOK
  BY DEF TypeInv
<1> QED BY <1>1, TypeInit, TypeNext, PTL DEF Spec

LEMMA TypeAlways == Spec => []TypeInv
  BY TypeInit, TypeNext, PTL DEF Spec

-----------------------------------------------------------------------------
(* Fencing.  An invocation may go on executing a run that was taken over;   *)
(* while the row still carries its identity it executes the latest attempt. *)

HoldersCurrent ==
    \A w \in Workers :
        wk[w].pc = "execute" /\ Holds(w, "running")
            => wk[w].attempt = row[wk[w].run].attempts

FenceInv == ArtifactsFenced /\ HoldersCurrent

LEMMA FenceInit == Init => FenceInv
  BY DEF Init, FenceInv, ArtifactsFenced, HoldersCurrent, Holds, AbsentRow, Stopped

LEMMA RequestFence ==
    ASSUME TypeInv, FenceInv, NEW c \in Clients, Request(c)
    PROVE  FenceInv'
<1> USE DEF TypeInv, TypeOK, ClientsReady, WorkersReady, FenceInv, ArtifactsFenced,
            HoldersCurrent, Holds
<1>1. ASSUME UNCHANGED <<row, artifacts, wk>> PROVE FenceInv'
  BY <1>1
<1>2. ASSUME NEW r \in Runs, InsertRun(c, r) PROVE FenceInv'
  BY <1>2, QueuedFields DEF InsertRun
<1>3. CASE CancelQueuedRun(c)
  <2>1. \A r \in Runs :
            \/ row'[r] = row[r]
            \/ row[r].status = "queued" /\ row'[r].status = "cancelled"
    BY <1>3, SettledFields DEF CancelQueuedRun, Outcomes
  <2> QED BY <1>3, <2>1 DEF CancelQueuedRun
<1>4. CASE CancelRunningRun(c)
  BY <1>4, MarkedFields DEF CancelRunningRun
<1> QED
  BY <1>1, <1>2, <1>3, <1>4
     DEF Request, RequestRun, LockKey, FindCachedRun, ReadForCancel, AbortRequest

LEMMA WorkerFence ==
    ASSUME TypeInv, FenceInv, NEW w \in Workers, StartInvocation(w) \/ Proceed(w) \/ Crash(w)
    PROVE  FenceInv'
<1>h. CheckpointHeld(w) => HeldEffect(w)
  BY HeldStep
<1> USE DEF TypeInv, TypeOK, ClientsReady, WorkersReady, FenceInv, ArtifactsFenced,
            HoldersCurrent, Holds
\* An invocation that stops, or starts, without writing.
<1>1. ASSUME UNCHANGED <<row, artifacts>>,
             \A v \in Workers : wk'[v] = wk[v] \/ wk'[v].pc # "execute"
      PROVE  FenceInv'
  BY <1>1
<1>2. CASE RecoverStaleRuns(w)
  <2>1. ASSUME NEW r \in Runs
        PROVE  \/ row'[r] = row[r]
               \/ /\ row'[r].status \in {"cancelled", "timed_out"}
                  /\ row[r].status # "succeeded"
    <3>1. row'[r] = Recovered(row[r])
      BY <1>2 DEF RecoverStaleRuns
    <3> QED BY <3>1, RecoveredCases, SettledFields DEF Outcomes, Open
  <2> QED BY <1>2, <2>1 DEF RecoverStaleRuns
<1>3. ASSUME NEW r \in Runs, ClaimNextRun(w, r) PROVE FenceInv'
  <2>1. row[r].status # "succeeded"
    BY <1>3 DEF ClaimNextRun, Claimable
  <2> QED BY <1>3, <2>1, ClaimedFields DEF ClaimNextRun
<1>4. ASSUME NEW s \in Outcomes \ {"succeeded"}, wk[w].pc = "execute", Finish(w, s),
             UNCHANGED artifacts, row[wk[w].run].status \in Open
      PROVE  FenceInv'
  BY <1>4, SettledFields DEF Finish, Stopped, Outcomes, Open
<1>5. CASE CompleteRun(w)
  BY <1>5, SettledFields DEF CompleteRun, Finish, Stopped, Outcomes
<1>6. CASE CheckpointHeld(w)
  <2>p. PICK r \in Runs, p \in 5 .. 99 :
            /\ r = wk[w].run
            /\ row[r].status = "running" /\ row[r].worker = w
            /\ row' = [row EXCEPT ![r] = Reported(@, p)]
    BY <1>6, <1>h DEF HeldEffect
  <2>1. /\ Reported(row[r], p).status = row[r].status
        /\ Reported(row[r], p).worker = row[r].worker
        /\ Reported(row[r], p).attempts = row[r].attempts
    BY ReportedFields
  <2>2. /\ Advanced(wk[w]).pc = wk[w].pc
        /\ Advanced(wk[w]).run = wk[w].run
        /\ Advanced(wk[w]).attempt = wk[w].attempt
    BY <1>6, <1>h, AdvancedFields DEF HeldEffect
  <2>3. /\ wk' = [wk EXCEPT ![w] = Advanced(wk[w])]
        /\ UNCHANGED artifacts
    BY <1>6, <1>h DEF HeldEffect
  <2>4. \A s \in Runs : /\ row'[s].status = row[s].status
                         /\ row'[s].worker = row[s].worker
                         /\ row'[s].attempts = row[s].attempts
    BY <2>p, <2>1
  <2>5. \A v \in Workers : /\ wk'[v].pc = wk[v].pc
                            /\ wk'[v].run = wk[v].run
                            /\ wk'[v].attempt = wk[v].attempt
    BY <2>2, <2>3
  <2> QED BY <2>3, <2>4, <2>5
<1>7. ASSUME \/ StartInvocation(w) \/ NothingToClaim(w) \/ CheckpointLost(w)
             \/ WriteRefused(w) \/ Crash(w)
      PROVE  FenceInv'
  <2>1. \A v \in Workers : wk'[v] = wk[v] \/ wk'[v].pc # "execute"
    BY <1>7 DEF StartInvocation, NothingToClaim, CheckpointLost, WriteRefused, Crash, Stopped,
                Worker
  <2> QED
    BY <1>1, <1>7, <2>1 DEF StartInvocation, NothingToClaim, CheckpointLost, WriteRefused, Crash
<1>8. CASE CheckpointCancelled(w) \/ CheckpointTimedOut(w) \/ FailRun(w)
  BY <1>4, <1>8 DEF CheckpointCancelled, CheckpointTimedOut, FailRun, AtCheckpoint, Outcomes, Open
<1> QED
  BY <1>2, <1>3, <1>5, <1>6, <1>7, <1>8 DEF Proceed

LEMMA TimeFence ==
    ASSUME TypeInv, FenceInv, Time
    PROVE  FenceInv'
<1>1. PICK r \in Runs : ExpireLease(r) \/ PassDeadline(r)
  BY DEF Time
<1> QED
  BY <1>1, TimeFields DEF ExpireLease, PassDeadline, TypeInv, TypeOK, WorkersReady, FenceInv,
                          ArtifactsFenced, HoldersCurrent, Holds

LEMMA FenceNext == TypeInv /\ FenceInv /\ [Next]_vars => FenceInv'
<1> SUFFICES ASSUME TypeInv, FenceInv, [Next]_vars PROVE FenceInv'
  OBVIOUS
<1>1. CASE UNCHANGED vars
  BY <1>1 DEF vars, FenceInv, ArtifactsFenced, HoldersCurrent, Holds
<1> QED
  BY <1>1, RequestFence, WorkerFence, TimeFence DEF Next

LEMMA FenceAlways == Spec => []FenceInv
  BY TypeAlways, FenceInit, FenceNext, PTL DEF Spec

(* The artifacts of a run exist exactly when it succeeded and come from its *)
(* latest attempt: a worker whose run was taken over, cancelled or timed    *)
(* out writes nothing, however late it gets to complete_run.                *)
THEOREM Fencing == Spec => []ArtifactsFenced
<1>1. FenceInv => ArtifactsFenced
  BY DEF FenceInv
<1> QED BY <1>1, FenceAlways, PTL

-----------------------------------------------------------------------------
(* Deduplication.  The lock makes the search and the insertion one step for *)
(* other requests of the key, and no other step makes a run answer a key.   *)

LockHeld ==
    \A c \in Clients :
        cl[c].pc \in {"deduplicate", "insert"} => lock[cl[c].key] = c

NoneFound ==
    \A c \in Clients : cl[c].pc = "insert" => \A r \in Runs : ~Answers(row[r], cl[c].key)

DedupInv == OneRunPerKey /\ LockHeld /\ NoneFound

LEMMA DedupInit == Init => DedupInv
  BY DEF Init, DedupInv, OneRunPerKey, LockHeld, NoneFound, Answers, AbsentRow, Idle

\* A step that makes no run answer a key, and leaves the requests alone.
LEMMA QuietDedup ==
    ASSUME TypeInv, DedupInv, UNCHANGED <<cl, lock>>,
           \A r \in Runs, k \in Keys : Answers(row'[r], k) => Answers(row[r], k)
    PROVE  DedupInv'
  BY DEF TypeInv, ClientsReady, DedupInv, OneRunPerKey, LockHeld, NoneFound

LEMMA RequestDedup ==
    ASSUME TypeInv, DedupInv, NEW c \in Clients, Request(c)
    PROVE  DedupInv'
<1> USE DEF TypeInv, TypeOK, ClientsReady, DedupInv, OneRunPerKey, LockHeld, NoneFound
<1>0. NoClient \notin Clients
  BY NullsAssumption
<1>1. ASSUME NEW k \in Keys, RequestRun(c, k) PROVE DedupInv'
  BY <1>1 DEF RequestRun
<1>2. CASE LockKey(c)
  BY <1>0, <1>2 DEF LockKey, Client
<1>3. CASE FindCachedRun(c)
  <2>1. CASE \E r \in Runs : Answers(row[r], cl[c].key)
    BY <1>3, <2>1 DEF FindCachedRun, Idle, Release
  <2>2. CASE ~\E r \in Runs : Answers(row[r], cl[c].key)
    BY <1>3, <2>2 DEF FindCachedRun, Client
  <2> QED BY <2>1, <2>2
<1>4. ASSUME NEW r \in Runs, InsertRun(c, r) PROVE DedupInv'
  <2>1. \A s \in Runs, k \in Keys :
            Answers(row'[s], k) => Answers(row[s], k) \/ (s = r /\ k = cl[c].key)
    BY <1>4, QueuedFields DEF InsertRun, Answers
  <2>2. \A k \in Keys : lock'[k] = IF lock[k] = c THEN NoClient ELSE lock[k]
    BY <1>4 DEF InsertRun, Release
  <2>3. \A d \in Clients : cl'[d] = IF d = c THEN Idle ELSE cl[d]
    BY <1>4 DEF InsertRun
  <2>4. OneRunPerKey'
    BY <1>4, <2>1 DEF InsertRun
  <2>5. LockHeld'
    BY <2>2, <2>3 DEF Idle
  <2>6. NoneFound'
    BY <1>4, <2>1, <2>3 DEF Idle, InsertRun
  <2> QED BY <2>4, <2>5, <2>6
<1>5. ASSUME NEW r \in Runs, ReadForCancel(c, r) PROVE DedupInv'
  BY <1>5 DEF ReadForCancel
<1>6. CASE CancelQueuedRun(c)
  <2>1. \A r \in Runs, k \in Keys : Answers(row'[r], k) => Answers(row[r], k)
    BY <1>6, SettledFields DEF CancelQueuedRun, Answers, Outcomes
  <2>2. \A d \in Clients : cl'[d] = cl[d] \/ cl'[d].pc \in {"idle", "cancelRunning"}
    BY <1>6 DEF CancelQueuedRun, Idle, Client
  <2> QED BY <1>6, <2>1, <2>2 DEF CancelQueuedRun
<1>7. CASE CancelRunningRun(c)
  <2>1. \A r \in Runs, k \in Keys : Answers(row'[r], k) => Answers(row[r], k)
    BY <1>7, MarkedFields DEF CancelRunningRun, Answers
  <2> QED BY <1>7, <2>1 DEF CancelRunningRun, Idle
<1>8. CASE AbortRequest(c)
  BY <1>8 DEF AbortRequest, Idle, Release
<1> QED
  BY <1>1, <1>2, <1>3, <1>4, <1>5, <1>6, <1>7, <1>8 DEF Request

LEMMA WorkerDedup ==
    ASSUME TypeInv, DedupInv, NEW w \in Workers, StartInvocation(w) \/ Proceed(w) \/ Crash(w)
    PROVE  DedupInv'
<1>h. CheckpointHeld(w) => HeldEffect(w)
  BY HeldStep
<1> USE DEF TypeInv, TypeOK, WorkersReady
<1>1. ASSUME UNCHANGED <<row, cl, lock>> PROVE DedupInv'
  BY <1>1, QuietDedup
<1>2. CASE RecoverStaleRuns(w)
  BY <1>2, RecoveredCases, SettledFields, QuietDedup DEF RecoverStaleRuns, Answers, Outcomes
<1>3. ASSUME NEW r \in Runs, ClaimNextRun(w, r) PROVE DedupInv'
  BY <1>3, ClaimedFields, QuietDedup DEF ClaimNextRun, Claimable, Answers
<1>4. ASSUME NEW s \in Outcomes, wk[w].pc = "execute", Finish(w, s),
             s = "succeeded" => row[wk[w].run].status = "running"
      PROVE  DedupInv'
  BY <1>4, SettledFields, QuietDedup DEF Finish, Answers, Outcomes
<1>5. CASE CheckpointHeld(w)
  <2>p. PICK r \in Runs, p \in 5 .. 99 :
            /\ r = wk[w].run
            /\ row[r].status = "running" /\ row[r].worker = w
            /\ row' = [row EXCEPT ![r] = Reported(@, p)]
    BY <1>5, <1>h DEF HeldEffect
  <2>1. \A s \in Runs, k \in Keys : Answers(row'[s], k) => Answers(row[s], k)
    <3>1. Reported(row[r], p).status = row[r].status /\ Reported(row[r], p).key = row[r].key
      BY ReportedFields
    <3> QED BY <2>p, <3>1 DEF Answers
  <2> QED BY <1>5, <1>h, <2>1, QuietDedup DEF HeldEffect
<1> QED
  BY <1>1, <1>2, <1>3, <1>4, <1>5
     DEF Proceed, StartInvocation, NothingToClaim, CheckpointCancelled, CheckpointTimedOut,
         CheckpointLost, CompleteRun, FailRun, WriteRefused, Crash, AtCheckpoint, Outcomes, Holds

LEMMA DedupNext == TypeInv /\ DedupInv /\ [Next]_vars => DedupInv'
<1> SUFFICES ASSUME TypeInv, DedupInv, [Next]_vars PROVE DedupInv'
  OBVIOUS
<1>1. CASE UNCHANGED vars
  BY <1>1, QuietDedup DEF vars
<1>2. CASE Time
  BY <1>2, TimeFields, QuietDedup
     DEF Time, ExpireLease, PassDeadline, Answers, TypeInv, TypeOK
<1> QED
  BY <1>1, <1>2, RequestDedup, WorkerDedup DEF Next

LEMMA DedupAlways == Spec => []DedupInv
  BY TypeAlways, DedupInit, DedupNext, PTL DEF Spec

(* No two runs of one tenant and one fingerprint are ever waiting, running  *)
(* or succeeded together, for any number of concurrent requests.            *)
THEOREM Deduplication == Spec => []OneRunPerKey
<1>1. DedupInv => OneRunPerKey
  BY DEF DedupInv
<1> QED BY <1>1, DedupAlways, PTL

-----------------------------------------------------------------------------
(* Refinement.  What a step does to one run, in terms of the columns the    *)
(* life cycle shows.                                                        *)

Unseen(r) ==
    /\ JobState(row'[r].status) = JobState(row[r].status)
    /\ row'[r].key = row[r].key
    /\ artifacts'[r] = artifacts[r]

Submitted(r) ==
    /\ row[r].status = "absent" /\ row'[r].status = "queued"
    /\ row'[r].key \in Keys
    /\ artifacts'[r] = artifacts[r]

Stopping(r) ==
    /\ row[r].status = "running" /\ row'[r].status = "cancel_requested"
    /\ row'[r].key = row[r].key
    /\ artifacts'[r] = artifacts[r]

Settling(r) ==
    /\ row[r].status \in Open /\ row'[r].status \in Outcomes
    /\ row[r].status = "cancel_requested" => row'[r].status = "cancelled"
    /\ row'[r].key = row[r].key
    /\ artifacts'[r] # 0 <=> row'[r].status = "succeeded"

Moves(r) == Unseen(r) \/ Submitted(r) \/ Stopping(r) \/ Settling(r)

LEMMA SameRow ==
    ASSUME NEW r \in Runs, row'[r] = row[r], artifacts'[r] = artifacts[r]
    PROVE  Moves(r)
  BY DEF Moves, Unseen

\* Before a run succeeds it has no artifacts.
LEMMA OpenEmpty ==
    ASSUME TypeInv, FenceInv, NEW r \in Runs, row[r].status \in Open
    PROVE  artifacts[r] = 0
  BY DEF FenceInv, ArtifactsFenced, Open

LEMMA RequestMoves ==
    ASSUME TypeInv, FenceInv, NEW c \in Clients, Request(c), NEW q \in Runs
    PROVE  Moves(q)
<1>o. \A r \in Runs : row[r].status \in Open => artifacts[r] = 0
  BY OpenEmpty
<1> USE DEF TypeInv, TypeOK, ClientsReady
<1>1. ASSUME UNCHANGED <<row, artifacts>> PROVE Moves(q)
  BY <1>1, SameRow
<1>2. ASSUME NEW r \in Runs, InsertRun(c, r) PROVE Moves(q)
  <2>1. cl[c].key \in Keys /\ row[r].status = "absent" /\ UNCHANGED artifacts
    BY <1>2 DEF InsertRun
  <2>2. row' = [row EXCEPT ![r] = QueuedRow(cl[c].key)]
    BY <1>2 DEF InsertRun
  <2>3. CASE q = r
    BY <2>1, <2>2, <2>3, QueuedFields DEF Moves, Submitted
  <2>4. CASE q # r
    BY <2>1, <2>2, <2>4, SameRow
  <2> QED BY <2>3, <2>4
<1>3. CASE CancelQueuedRun(c)
  <2>1. CASE q = cl[c].run /\ row[q].status = "queued"
    <3>1. row'[q] = Settled(row[q], "cancelled") /\ UNCHANGED artifacts
      BY <1>3, <2>1 DEF CancelQueuedRun
    <3>2. row'[q].status = "cancelled" /\ row'[q].key = row[q].key
      BY <3>1, SettledFields DEF Outcomes
    <3> QED BY <1>o, <2>1, <3>1, <3>2 DEF Moves, Settling, Open, Outcomes
  <2>2. CASE ~(q = cl[c].run /\ row[q].status = "queued")
    BY <1>3, <2>2, SameRow DEF CancelQueuedRun
  <2> QED BY <2>1, <2>2
<1>4. CASE CancelRunningRun(c)
  <2>1. CASE q = cl[c].run /\ row[q].status = "running"
    BY <1>4, <2>1, MarkedFields DEF CancelRunningRun, Moves, Stopping
  <2>2. CASE ~(q = cl[c].run /\ row[q].status = "running")
    BY <1>4, <2>2, SameRow DEF CancelRunningRun
  <2> QED BY <2>1, <2>2
<1> QED
  BY <1>1, <1>2, <1>3, <1>4
     DEF Request, RequestRun, LockKey, FindCachedRun, ReadForCancel, AbortRequest

LEMMA FinishMoves ==
    ASSUME TypeInv, FenceInv, NEW w \in Workers, wk[w].pc = "execute",
           NEW s \in Outcomes, Finish(w, s), NEW q \in Runs,
           row[wk[w].run].status \in Open,
           row[wk[w].run].status = "cancel_requested" => s = "cancelled",
           artifacts' = IF s = "succeeded"
                        THEN [artifacts EXCEPT ![wk[w].run] = wk[w].attempt]
                        ELSE artifacts
    PROVE  Moves(q)
<1>o. \A r \in Runs : row[r].status \in Open => artifacts[r] = 0
  BY OpenEmpty
<1> USE DEF TypeInv, TypeOK, WorkersReady
<1>1. CASE q = wk[w].run
  <2>1. row'[q] = Settled(row[q], s)
    BY <1>1 DEF Finish
  <2>2. row'[q].status = s /\ row'[q].key = row[q].key
    BY <2>1, SettledFields
  <2>3. artifacts'[q] # 0 <=> s = "succeeded"
    <3>1. wk[w].attempt # 0
      BY DEF Worker
    <3> QED BY <1>1, <1>o, <3>1
  <2> QED BY <1>1, <2>2, <2>3 DEF Moves, Settling
<1>2. CASE q # wk[w].run
  BY <1>2, SameRow DEF Finish
<1> QED BY <1>1, <1>2

LEMMA WorkerMoves ==
    ASSUME TypeInv, FenceInv, NEW w \in Workers, NEW q \in Runs,
           StartInvocation(w) \/ Proceed(w) \/ Crash(w)
    PROVE  Moves(q)
<1>h. CheckpointHeld(w) => HeldEffect(w)
  BY HeldStep
<1>o. row[q].status \in Open => artifacts[q] = 0
  BY OpenEmpty
<1>f. ASSUME NEW s \in Outcomes, wk[w].pc = "execute", Finish(w, s),
             row[wk[w].run].status \in Open,
             row[wk[w].run].status = "cancel_requested" => s = "cancelled",
             artifacts' = IF s = "succeeded"
                          THEN [artifacts EXCEPT ![wk[w].run] = wk[w].attempt]
                          ELSE artifacts
      PROVE  Moves(q)
  BY <1>f, FinishMoves
<1> USE DEF TypeInv, TypeOK, WorkersReady
<1>1. ASSUME UNCHANGED <<row, artifacts>> PROVE Moves(q)
  BY <1>1, SameRow
<1>2. CASE RecoverStaleRuns(w)
  <2>1. row'[q] = Recovered(row[q]) /\ artifacts'[q] = artifacts[q]
    BY <1>2 DEF RecoverStaleRuns
  <2>2. CASE Recovered(row[q]) = row[q]
    BY <2>1, <2>2, SameRow
  <2>3. CASE Recovered(row[q]) # row[q]
    <3>1. PICK s \in {"cancelled", "timed_out"} :
              /\ row[q].status \in Open
              /\ row'[q] = Settled(row[q], s)
              /\ row[q].status = "cancel_requested" => s = "cancelled"
      BY <2>1, <2>3, RecoveredCases
    <3>2. row'[q].status = s /\ row'[q].key = row[q].key
      BY <3>1, SettledFields DEF Outcomes
    <3> QED BY <1>o, <2>1, <3>1, <3>2 DEF Moves, Settling, Outcomes
  <2> QED BY <2>2, <2>3
<1>3. ASSUME NEW r \in Runs, ClaimNextRun(w, r) PROVE Moves(q)
  <2>1. CASE q = r
    <3>1. row'[q] = Claimed(row[q], w) /\ UNCHANGED artifacts /\ Claimable(row[q])
      BY <1>3, <2>1 DEF ClaimNextRun
    <3>2. row'[q].status = "running" /\ row'[q].key = row[q].key
      BY <3>1, ClaimedFields
    <3> QED BY <3>1, <3>2 DEF Claimable, JobState, Moves, Unseen
  <2>2. CASE q # r
    BY <1>3, <2>2, SameRow DEF ClaimNextRun
  <2> QED BY <2>1, <2>2
<1>4. CASE CheckpointHeld(w)
  <2>p. PICK r \in Runs, p \in 5 .. 99 :
            /\ r = wk[w].run
            /\ row[r].status = "running" /\ row[r].worker = w
            /\ row' = [row EXCEPT ![r] = Reported(@, p)]
    BY <1>4, <1>h DEF HeldEffect
  <2>1. Reported(row[r], p).status = row[r].status /\ Reported(row[r], p).key = row[r].key
    BY ReportedFields
  <2>2. UNCHANGED artifacts
    BY <1>4, <1>h DEF HeldEffect
  <2> QED BY <2>p, <2>1, <2>2 DEF Moves, Unseen
<1>5. CASE CheckpointCancelled(w)
  BY <1>5, <1>f DEF CheckpointCancelled, AtCheckpoint, Holds, Outcomes, Open
<1>6. CASE CheckpointTimedOut(w)
  BY <1>6, <1>f DEF CheckpointTimedOut, AtCheckpoint, Holds, Outcomes, Open
<1>7. CASE CompleteRun(w)
  BY <1>7, <1>f DEF CompleteRun, Holds, Outcomes, Open
<1>8. CASE FailRun(w)
  BY <1>8, <1>f DEF FailRun, Holds, Outcomes, Open
<1> QED
  BY <1>1, <1>2, <1>3, <1>4, <1>5, <1>6, <1>7, <1>8
     DEF Proceed, StartInvocation, NothingToClaim, CheckpointLost, WriteRefused, Crash

LEMMA AllMove ==
    ASSUME TypeInv, FenceInv, [Next]_vars, NEW q \in Runs
    PROVE  Moves(q)
<1>1. CASE UNCHANGED vars
  BY <1>1, SameRow DEF vars
<1>2. CASE Time
  <2>1. PICK r \in Runs : ExpireLease(r) \/ PassDeadline(r)
    BY <1>2 DEF Time
  <2> QED
    BY <2>1, TimeFields, SameRow
       DEF ExpireLease, PassDeadline, TypeInv, TypeOK, Moves, Unseen
<1> QED
  BY <1>1, <1>2, RequestMoves, WorkerMoves DEF Next

LEMMA LifecycleInit == Init => Lifecycle!Init
<1> SUFFICES ASSUME Init PROVE JobView = [r \in Runs |-> Lifecycle!Unsubmitted]
  BY DEF Lifecycle!Init
<1>1. ASSUME NEW r \in Runs
      PROVE  [state |-> JobState(row[r].status), key |-> row[r].key, result |-> artifacts[r] # 0]
                = Lifecycle!Unsubmitted
  <2>1. row[r].status = "absent" /\ row[r].key = NoKey /\ artifacts[r] = 0
    BY DEF Init, AbsentRow
  <2>2. JobState(row[r].status) = "none" /\ (artifacts[r] # 0) = FALSE
    BY <2>1 DEF JobState
  <2> QED BY <2>1, <2>2, Zenon DEF Lifecycle!Unsubmitted
<1> QED BY <1>1, Zenon DEF JobView

LEMMA LifecycleStep ==
    ASSUME TypeInv, TypeInv', FenceInv, DedupInv', [Next]_vars
    PROVE  Lifecycle!Next
<1>1. JobView' = [r \in Runs |-> JobView'[r]]
  BY DEF JobView
<1>2. ASSUME NEW q \in Runs
      PROVE  \/ JobView'[q] = JobView[q]
             \/ Lifecycle!Submit(q)
             \/ Lifecycle!Stop(q)
             \/ Lifecycle!Settle(q)
  <2>v. /\ JobView[q] = [state |-> JobState(row[q].status), key |-> row[q].key,
                         result |-> artifacts[q] # 0]
        /\ JobView'[q] = [state |-> JobState(row'[q].status), key |-> row'[q].key,
                          result |-> artifacts'[q] # 0]
    BY DEF JobView
  <2>o. row[q].status \in Open => artifacts[q] = 0
    BY OpenEmpty
  <2>1. CASE Unseen(q)
    BY <2>v, <2>1 DEF Unseen
  <2>2. CASE Submitted(q)
    <3>1. JobView[q] = Lifecycle!Unsubmitted
      BY <2>2, <2>v
         DEF Submitted, Lifecycle!Unsubmitted, JobState, TypeInv, QueueUntouched, FenceInv,
             ArtifactsFenced
    <3>2. artifacts'[q] = 0
      BY <2>2 DEF Submitted, FenceInv, ArtifactsFenced
    <3>3. JobView'[q] = [state |-> "open", key |-> row'[q].key, result |-> FALSE]
      BY <2>2, <2>v, <3>2 DEF Submitted, JobState
    <3>4. ASSUME NEW i \in Runs \ {q} PROVE ~Lifecycle!Answers(JobView'[i], row'[q].key)
      <4>1. JobView'[i].state = JobState(row'[i].status) /\ JobView'[i].key = row'[i].key
        BY DEF JobView
      <4>2. ~Answers(row'[i], row'[q].key)
        BY <2>2 DEF DedupInv, OneRunPerKey, Submitted, Answers
      <4>3. row'[i].status \in {"absent"} \cup Open \cup Outcomes
        BY DEF TypeInv, TypeOK, Row
      <4> QED BY <4>1, <4>2, <4>3 DEF Lifecycle!Answers, Answers, JobState, Open, Outcomes
    <3> QED BY <2>2, <3>1, <3>3, <3>4 DEF Submitted, Lifecycle!Submit
  <2>3. CASE Stopping(q)
    BY <2>3, <2>v DEF Stopping, JobState, Lifecycle!Stop
  <2>4. CASE Settling(q)
    <3>1. JobState(row'[q].status) = row'[q].status
      BY <2>4 DEF Settling, Outcomes, JobState
    <3>2. \/ JobState(row[q].status) = "open"
          \/ JobState(row[q].status) = "stopping" /\ row'[q].status = "cancelled"
      BY <2>4 DEF Settling, Open, JobState
    <3>3. JobView'[q] = [state |-> row'[q].status, key |-> JobView[q].key,
                         result |-> (row'[q].status = "succeeded")]
      <4>1. (artifacts'[q] # 0) = (row'[q].status = "succeeded") /\ row'[q].key = row[q].key
        BY <2>4 DEF Settling
      <4>2. JobView[q].key = row[q].key
        BY <2>v
      <4> QED BY <2>v, <3>1, <4>1, <4>2, Zenon
    <3>4. row'[q].status \in Lifecycle!Outcomes
      BY <2>4 DEF Settling, Outcomes, Lifecycle!Outcomes
    <3>5. JobView[q].state = JobState(row[q].status)
      BY <2>v
    <3> QED BY <3>2, <3>3, <3>4, <3>5 DEF Lifecycle!Settle
  <2> QED BY <2>1, <2>2, <2>3, <2>4, AllMove DEF Moves
<1> QED BY <1>1, <1>2 DEF Lifecycle!Next

(* The queue implements the life cycle of a job: whatever requests, workers, *)
(* retries and crashes do, a job is submitted once per key, settles once,    *)
(* has a result exactly if it succeeded, and cannot succeed once a           *)
(* cancellation marked it.                                                   *)
THEOREM Implementation == Spec => ImplementsLifecycle
<1>1. TypeInv /\ TypeInv' /\ FenceInv /\ DedupInv' /\ [Next]_vars => [Lifecycle!Next]_JobView
  BY LifecycleStep
<1> QED
  BY <1>1, LifecycleInit, TypeAlways, FenceAlways, DedupAlways, PTL
     DEF Spec, ImplementsLifecycle, Lifecycle!Spec

-----------------------------------------------------------------------------
(* Rows, one by one: what a step may make of a row, whoever takes it.       *)

Move(x, y) ==
    \/ y = x
    \/ x.status = "absent" /\ \E k \in Keys : y = QueuedRow(k)
    \/ \E w \in Workers : y = Claimed(x, w)
    \/ x.status = "running" /\ \E p \in 5 .. 99 : y = Reported(x, p)
    \/ \E s \in Outcomes : y = Settled(x, s)
    \/ y = Marked(x)
    \/ x.lease = "live" /\ y = Expired(x)
    \/ y = Overdue(x)

\* A row that a transaction does not name stays.
LEMMA OneMoves ==
    ASSUME TypeInv, NEW r \in Runs, NEW y, row' = [row EXCEPT ![r] = y], Move(row[r], y)
    PROVE  \A s \in Runs : Move(row[s], row'[s])
<1>1. row'[r] = y /\ \A s \in Runs \ {r} : row'[s] = row[s]
  BY DEF TypeInv, TypeOK
<1>2. ASSUME NEW s \in Runs \ {r} PROVE Move(row[s], row'[s])
  BY <1>1, <1>2 DEF Move
<1>3. Move(row[r], row'[r])
  BY <1>1
<1> QED BY <1>2, <1>3

LEMMA NoneMoves ==
    ASSUME row' = row
    PROVE  \A s \in Runs : Move(row[s], row'[s])
  BY DEF Move

\* A transaction that writes a settled row.
LEMMA SettleMove ==
    ASSUME TypeInv, NEW r \in Runs, NEW s \in Outcomes, row' = [row EXCEPT ![r] = Settled(@, s)]
    PROVE  \A t \in Runs : Move(row[t], row'[t])
<1>1. Move(row[r], Settled(row[r], s))
  BY DEF Move
<1> QED BY <1>1, OneMoves

LEMMA RequestMove ==
    ASSUME TypeInv, NEW c \in Clients, Request(c)
    PROVE  \A t \in Runs : Move(row[t], row'[t])
<1>1. CASE \E k \in Keys : RequestRun(c, k)
  BY <1>1, NoneMoves DEF RequestRun
<1>2. CASE LockKey(c) \/ FindCachedRun(c) \/ AbortRequest(c)
  BY <1>2, NoneMoves DEF LockKey, FindCachedRun, AbortRequest
<1>3. ASSUME NEW r \in Runs, InsertRun(c, r)
      PROVE  \A t \in Runs : Move(row[t], row'[t])
  <2>1. cl[c].key \in Keys
    BY <1>3 DEF InsertRun, TypeInv, ClientsReady
  <2>2. Move(row[r], QueuedRow(cl[c].key))
    BY <1>3, <2>1 DEF InsertRun, Move
  <2> QED BY <1>3, <2>2, OneMoves DEF InsertRun
<1>4. CASE \E r \in Runs : ReadForCancel(c, r)
  BY <1>4, NoneMoves DEF ReadForCancel
<1>5. CASE CancelQueuedRun(c)
  <2>1. cl[c].run \in Runs /\ "cancelled" \in Outcomes
    BY <1>5 DEF CancelQueuedRun, TypeInv, ClientsReady, Outcomes
  <2> QED BY <1>5, <2>1, SettleMove, NoneMoves DEF CancelQueuedRun
<1>6. CASE CancelRunningRun(c)
  <2>1. cl[c].run \in Runs
    BY <1>6 DEF CancelRunningRun, TypeInv, ClientsReady
  <2>2. Move(row[cl[c].run], Marked(row[cl[c].run])) /\ Move(row[cl[c].run], row[cl[c].run])
    BY DEF Move
  <2> QED BY <1>6, <2>1, <2>2, OneMoves DEF CancelRunningRun
<1> QED BY <1>1, <1>2, <1>3, <1>4, <1>5, <1>6 DEF Request

LEMMA WorkerMove ==
    ASSUME TypeInv, NEW w \in Workers, StartInvocation(w) \/ Proceed(w) \/ Crash(w)
    PROVE  \A t \in Runs : Move(row[t], row'[t])
<1>r. wk[w].pc = "execute" => wk[w].run \in Runs
  BY DEF TypeInv, WorkersReady
<1>1. CASE StartInvocation(w) \/ NothingToClaim(w) \/ CheckpointLost(w) \/ WriteRefused(w) \/ Crash(w)
  BY <1>1, NoneMoves DEF StartInvocation, NothingToClaim, CheckpointLost, WriteRefused, Crash
<1>2. CASE RecoverStaleRuns(w)
  <2>1. ASSUME NEW t \in Runs PROVE Move(row[t], row'[t])
    <3>1. row'[t] = Recovered(row[t]) /\ row[t] \in Row
      BY <1>2 DEF RecoverStaleRuns, TypeInv, TypeOK
    <3> QED BY <3>1, RecoveredCases DEF Move, Outcomes
  <2> QED BY <2>1
<1>3. ASSUME NEW r \in Runs, ClaimNextRun(w, r)
      PROVE  \A t \in Runs : Move(row[t], row'[t])
  <2>1. Move(row[r], Claimed(row[r], w))
    BY DEF Move
  <2> QED BY <1>3, <2>1, OneMoves DEF ClaimNextRun
<1>4. CASE CheckpointHeld(w)
  <2>0. HeldEffect(w)
    BY <1>4, HeldStep
  <2>1. PICK r \in Runs, p \in 5 .. 99 :
           row[r].status = "running" /\ row' = [row EXCEPT ![r] = Reported(@, p)]
    BY <2>0 DEF HeldEffect
  <2>2. Move(row[r], Reported(row[r], p))
    BY <2>1 DEF Move
  <2> QED BY <2>1, <2>2, OneMoves
<1>5. CASE CheckpointCancelled(w) \/ CheckpointTimedOut(w) \/ CompleteRun(w) \/ FailRun(w)
  BY <1>5, <1>r, SettleMove
     DEF CheckpointCancelled, CheckpointTimedOut, CompleteRun, FailRun, AtCheckpoint, Finish, Outcomes
<1> QED BY <1>1, <1>2, <1>3, <1>4, <1>5 DEF Proceed

LEMMA StepMove ==
    ASSUME TypeInv, [Next]_vars
    PROVE  \A t \in Runs : Move(row[t], row'[t])
<1>1. CASE UNCHANGED vars
  BY <1>1, NoneMoves DEF vars
<1>2. CASE Time
  <2>1. PICK r \in Runs : ExpireLease(r) \/ PassDeadline(r)
    BY <1>2 DEF Time
  <2>2. row[r].lease = "live" => Move(row[r], Expired(row[r]))
    BY DEF Move
  <2>3. Move(row[r], Overdue(row[r]))
    BY DEF Move
  <2> QED BY <2>1, <2>2, <2>3, OneMoves DEF ExpireLease, PassDeadline
<1> QED BY <1>1, <1>2, RequestMove, WorkerMove DEF Next

-----------------------------------------------------------------------------
(* Nobody's runs, and progress.  A run that is running has a lease, live or *)
(* expired; one that is not there yet has made no progress.                 *)

LeaseInv ==
    \A r \in Runs : /\ row[r].status = "running" => row[r].lease # "none"
                    /\ row[r].status = "absent" => row[r].progress = 0

LEMMA LeaseInit == Init => LeaseInv
<1> SUFFICES ASSUME Init, NEW r \in Runs
             PROVE  row[r].status = "absent" /\ row[r].progress = 0
  BY DEF LeaseInv
<1>1. row[r] = AbsentRow
  BY DEF Init
<1>2. AbsentRow.status = "absent" /\ AbsentRow.progress = 0
  BY DEF AbsentRow
<1> QED BY <1>1, <1>2

\* The remaining fields a move may change.
LEMMA MoveLease ==
    ASSUME NEW x \in Row, NEW y \in Row, Move(x, y)
    PROVE  /\ y.status = "running" => y.lease # "none" \/ (y.lease = x.lease /\ x.status = "running")
           /\ y.status = "absent" => x.status = "absent" /\ y.progress = x.progress
           /\ x.status # "absent" => y.progress >= x.progress
           /\ x.status = "absent" => y.progress >= 0
<1>0. x.progress \in 0 .. 100 /\ y.progress \in 0 .. 100
  BY DEF Row
<1>1. CASE y = x
  BY <1>0, <1>1
<1>2. CASE x.status = "absent" /\ \E k \in Keys : y = QueuedRow(k)
  BY <1>0, <1>2, QueuedFields
<1>3. CASE \E w \in Workers : y = Claimed(x, w)
  BY <1>0, <1>3, ClaimedFields DEF AtLeast
<1>4. CASE x.status = "running" /\ \E p \in 5 .. 99 : y = Reported(x, p)
  <2>1. PICK p \in 5 .. 99 : y = Reported(x, p)
    BY <1>4
  <2>2. y.status = "running" /\ y.lease = "live" /\ y.progress = AtLeast(x.progress, p)
    BY <1>4, <2>1, ReportedFields
  <2> QED BY <1>0, <1>4, <2>2 DEF AtLeast
<1>5. CASE \E s \in Outcomes : y = Settled(x, s)
  BY <1>0, <1>5, SettledFields DEF Outcomes
<1>6. CASE y = Marked(x)
  BY <1>0, <1>6, MarkedFields
<1>7. CASE x.lease = "live" /\ y = Expired(x)
  <2>1. y.lease = "expired" /\ y.status = x.status /\ y.progress = x.progress
    BY <1>7, Zenon DEF Expired, Row
  <2> QED BY <1>0, <2>1
<1>8. CASE y = Overdue(x)
  <2>1. y.lease = x.lease /\ y.status = x.status /\ y.progress = x.progress
    BY <1>8, Zenon DEF Overdue, Row
  <2> QED BY <1>0, <2>1
<1> QED BY <1>1, <1>2, <1>3, <1>4, <1>5, <1>6, <1>7, <1>8 DEF Move

LEMMA LeaseNext == TypeInv /\ TypeInv' /\ LeaseInv /\ [Next]_vars => LeaseInv'
<1> SUFFICES ASSUME TypeInv, TypeInv', LeaseInv, [Next]_vars, NEW r \in Runs
             PROVE  /\ row'[r].status = "running" => row'[r].lease # "none"
                    /\ row'[r].status = "absent" => row'[r].progress = 0
  BY DEF LeaseInv
<1>1. row[r] \in Row /\ row'[r] \in Row /\ Move(row[r], row'[r])
  BY StepMove DEF TypeInv, TypeOK
<1> QED BY <1>1, MoveLease DEF LeaseInv

LEMMA LeaseAlways == Spec => []LeaseInv
  BY TypeAlways, LeaseInit, LeaseNext, PTL DEF Spec

(* A run is never in nobody's hands: what is neither leased nor waiting for *)
(* a worker is what the next recovery settles.  The three conditions, in    *)
(* claim_next_run and recover_stale_runs, leave no gap between them.        *)
THEOREM Attended == Spec => []NoOrphan
<1>1. TypeInv /\ LeaseInv => NoOrphan
  <2> SUFFICES ASSUME TypeInv, LeaseInv, NEW r \in Runs, row[r].status \in Open,
                      row[r].lease # "live", ~Claimable(row[r])
               PROVE  Recovered(row[r]) # row[r]
    BY DEF NoOrphan
  <2> DEFINE x == row[r]
  <2>1. x \in Row /\ x.attempts \in Nat
    BY AttemptsAssumption DEF TypeInv, TypeOK, Row
  <2>2. CASE x.status = "cancel_requested"
    <3>1. Recovered(x) = Settled(x, "cancelled")
      BY <2>2 DEF Recovered, StaleCancel
    <3> QED BY <2>1, <2>2, <3>1, SettledFields DEF Outcomes
  <2>3. CASE x.status \in {"queued", "running"}
    <3>1. x.status = "running" => x.lease = "expired"
      BY <2>1 DEF LeaseInv, Row
    <3>2. StaleRun(x) /\ ~StaleCancel(x)
      BY <2>1, <2>3, <3>1, AttemptsAssumption DEF Claimable, StaleRun, StaleCancel
    <3>3. Recovered(x) = Settled(x, "timed_out")
      BY <3>2 DEF Recovered
    <3> QED BY <2>1, <2>3, <3>3, SettledFields DEF Outcomes
  <2> QED BY <2>2, <2>3 DEF Open
<1> QED BY <1>1, TypeAlways, LeaseAlways, PTL

(* Progress never goes back, whoever reports it and however often the run   *)
(* is started over.                                                         *)
THEOREM ProgressAdvances == Spec => ProgressMonotonic
<1> DEFINE A == \A r \in Runs : row'[r].progress >= row[r].progress
<1>1. TypeInv /\ TypeInv' /\ LeaseInv /\ [Next]_vars => [A]_vars
  <2> SUFFICES ASSUME TypeInv, TypeInv', LeaseInv, [Next]_vars, NEW r \in Runs
               PROVE  row'[r].progress >= row[r].progress
    OBVIOUS
  <2>1. row[r] \in Row /\ row'[r] \in Row /\ Move(row[r], row'[r])
    BY StepMove DEF TypeInv, TypeOK
  <2> QED BY <2>1, MoveLease DEF LeaseInv
<1> QED BY <1>1, TypeAlways, LeaseAlways, PTL DEF Spec, ProgressMonotonic
-----------------------------------------------------------------------------
(* Cancellations.  A request that gave up on the queue saw its run out of   *)
(* the queue, and a run never gets back into it.                            *)

CancelInv ==
    \A c \in Clients :
        /\ cl[c].pc = "cancelQueued" => row[cl[c].run].status # "absent"
        /\ cl[c].pc = "cancelRunning" => row[cl[c].run].status \notin {"absent", "queued"}

\* A row that is there stays, and one that left the queue stays out of it.
LEMMA MoveStatus ==
    ASSUME NEW x \in Row, NEW y, Move(x, y)
    PROVE  /\ x.status # "absent" => y.status # "absent"
           /\ x.status \notin {"absent", "queued"} => y.status \notin {"absent", "queued"}
<1>1. CASE \E w \in Workers : y = Claimed(x, w)
  BY <1>1, ClaimedFields
<1>2. CASE x.status = "running" /\ \E p \in 5 .. 99 : y = Reported(x, p)
  BY <1>2, ReportedFields
<1>3. CASE \E s \in Outcomes : y = Settled(x, s)
  BY <1>3, SettledFields DEF Outcomes
<1>4. CASE y = Marked(x)
  BY <1>4, MarkedFields
<1>5. CASE y \in {Expired(x), Overdue(x)}
  BY <1>5, TimeFields
<1> QED BY <1>1, <1>2, <1>3, <1>4, <1>5 DEF Move

LEMMA CancelInit == Init => CancelInv
  BY DEF Init, CancelInv, Idle

\* Only the request itself writes where it stands.
LEMMA ClientStep ==
    ASSUME TypeInv, CancelInv, [Next]_vars, NEW c \in Clients,
           cl'[c].pc \in {"cancelQueued", "cancelRunning"}
    PROVE  \/ cl'[c] = cl[c]
           \/ /\ row' = row
              /\ cl'[c].pc = "cancelQueued" => row[cl'[c].run].status = "queued"
              /\ cl'[c].pc = "cancelRunning"
                    => row[cl'[c].run].status \notin {"absent", "queued"}
<1>1. CASE UNCHANGED cl
  BY <1>1
<1>2. ASSUME NEW d \in Clients, Request(d), d # c
      PROVE  cl'[c] = cl[c]
  BY <1>2 DEF Request, RequestRun, LockKey, FindCachedRun, InsertRun, ReadForCancel,
              CancelQueuedRun, CancelRunningRun, AbortRequest, TypeInv, TypeOK
<1>3. CASE Request(c)
  <2>1. CASE \E r \in Runs : ReadForCancel(c, r)
    BY <2>1 DEF ReadForCancel, TypeInv, TypeOK
  <2>2. CASE CancelQueuedRun(c)
    <3>1. cl[c].run \in Runs /\ cl[c].pc = "cancelQueued" /\ row[cl[c].run].status # "absent"
      BY <2>2 DEF CancelQueuedRun, CancelInv, TypeInv, ClientsReady
    <3>2. CASE row[cl[c].run].status = "queued"
      BY <2>2, <3>2 DEF CancelQueuedRun, Idle, TypeInv, TypeOK
    <3>3. CASE row[cl[c].run].status # "queued"
      <4>1. row' = row /\ cl' = [cl EXCEPT ![c].pc = "cancelRunning"]
        BY <2>2, <3>3 DEF CancelQueuedRun
      <4>2. cl'[c].run = cl[c].run /\ cl'[c].pc = "cancelRunning"
        BY <4>1 DEF TypeInv, TypeOK, Client
      <4> QED BY <3>1, <3>3, <4>1, <4>2
    <3> QED BY <3>2, <3>3
  <2> QED
    BY <1>3, <2>1, <2>2 DEF Request, RequestRun, LockKey, FindCachedRun, InsertRun,
        CancelRunningRun, AbortRequest, Idle, Client, TypeInv, TypeOK
<1>4. CASE UNCHANGED vars \/ Time \/ \E w \in Workers : StartInvocation(w) \/ Proceed(w) \/ Crash(w)
  BY <1>1, <1>4 DEF vars, Time, ExpireLease, PassDeadline, StartInvocation, Proceed, Crash,
      RecoverStaleRuns, ClaimNextRun, NothingToClaim, CheckpointCancelled, CheckpointTimedOut,
      CheckpointHeld, CheckpointLost, CompleteRun, FailRun, WriteRefused, Finish
<1> QED BY <1>2, <1>3, <1>4 DEF Next

LEMMA CancelNext == TypeInv /\ CancelInv /\ [Next]_vars => CancelInv'
<1> SUFFICES ASSUME TypeInv, CancelInv, [Next]_vars, NEW c \in Clients,
                    cl'[c].pc \in {"cancelQueued", "cancelRunning"}
             PROVE  /\ cl'[c].pc = "cancelQueued" => row'[cl'[c].run].status # "absent"
                    /\ cl'[c].pc = "cancelRunning"
                          => row'[cl'[c].run].status \notin {"absent", "queued"}
  BY DEF CancelInv
<1>1. CASE cl'[c] = cl[c]
  <2> DEFINE r == cl[c].run
  <2>1. r \in Runs /\ row[r] \in Row
    BY <1>1 DEF TypeInv, TypeOK, ClientsReady
  <2>2. Move(row[r], row'[r])
    BY <2>1, StepMove
  <2> QED BY <1>1, <2>1, <2>2, MoveStatus DEF CancelInv
<1>2. CASE cl'[c] # cl[c]
  BY <1>2, ClientStep
<1> QED BY <1>1, <1>2

LEMMA CancelAlways == Spec => []CancelInv
  BY TypeAlways, CancelInit, CancelNext, PTL DEF Spec

(* When a cancellation returns, its run has settled or carries the mark:    *)
(* whatever a worker does between the reads and the updates of the request, *)
(* the run does not go on as if nobody had asked.                           *)
THEOREM CancellationsAnswered == Spec => CancellationAnswered
<1> DEFINE A == \A c \in Clients :
                   /\ CancelQueuedRun(c) \/ CancelRunningRun(c)
                   /\ cl'[c].pc = "idle"
                   => row'[cl[c].run].status \notin {"queued", "running"}
<1>1. TypeInv /\ CancelInv => [A]_vars
  <2> SUFFICES ASSUME TypeInv, CancelInv, NEW c \in Clients,
                      CancelQueuedRun(c) \/ CancelRunningRun(c), cl'[c].pc = "idle"
               PROVE  row'[cl[c].run].status \notin {"queued", "running"}
    OBVIOUS
  <2> DEFINE r == cl[c].run
  <2>1. r \in Runs /\ row[r] \in Row
    BY DEF CancelQueuedRun, CancelRunningRun, TypeInv, TypeOK, ClientsReady
  <2>2. CASE CancelQueuedRun(c)
    <3>1. row[r].status = "queued"
      BY <2>2 DEF CancelQueuedRun, Client, TypeInv, TypeOK
    <3> QED BY <2>1, <2>2, <3>1, SettledFields DEF CancelQueuedRun, Outcomes, TypeInv, TypeOK
  <2>3. CASE CancelRunningRun(c)
    <3>1. row[r].status # "queued"
      BY <2>3 DEF CancelRunningRun, CancelInv
    <3> QED BY <2>1, <2>3, <3>1, MarkedFields DEF CancelRunningRun, TypeInv, TypeOK
  <2> QED BY <2>2, <2>3
<1> QED BY <1>1, TypeAlways, CancelAlways, PTL DEF CancellationAnswered
=============================================================================
