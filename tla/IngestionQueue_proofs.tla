------------------------ MODULE IngestionQueue_proofs ------------------------
(* Proofs about IngestionQueue, for any number of requests, users,           *)
(* instruments, workers and attempts.                                        *)
EXTENDS IngestionQueue, TLAPS

-----------------------------------------------------------------------------
(* The inductive invariant.                                                  *)

Steps == {"claimed", "prepared", "publishing", "installing", "published", "failing"}

Fetched == {"prepared", "publishing", "installing", "published"}

Working(w) == wk[w].pc \in Steps

\* A row there is has a target, whose provider had what the request asked for,
\* and one in the queue has an attempt left.
RowInv ==
    \A r \in Requests :
        /\ row[r].status # "absent" =>
              /\ row[r].user \in Users /\ row[r].instrument \in Instruments
              /\ asked[r] <= feed[row[r].instrument]
        /\ row[r].status = "queued" => row[r].attempts < MaxAttempts

\* A worker that holds the row it works on holds it for this very attempt.  (A
\* row may name a worker that gave up: its flag was up and it rests, or works on
\* another row.)
HolderInv ==
    \A w \in Workers : Working(w) /\ Holds(w) => wk[w].attempt = row[wk[w].request].attempts

\* What a worker has fetched is what the provider had since the submission.
FetchInv ==
    \A w \in Workers :
        /\ Working(w) =>
              /\ wk[w].request \in Requests
              /\ row[wk[w].request].status # "absent"
        /\ wk[w].pc \in Fetched => asked[wk[w].request] <= wk[w].bars

\* What a snapshot chose are rows there are.
ChosenInv == \A w \in Workers, r \in Requests : r \in plan[w].rows => row[r].status # "absent"

\* The unique index: a target has at most one active request.
OneActive ==
    \A r, s \in Requests :
        /\ row[r].status \in Active /\ row[s].status \in Active
        /\ SameTarget(row[r], row[s])
        => r = s

IInv ==
    /\ TypeOK
    /\ RowInv
    /\ HolderInv
    /\ FetchInv
    /\ ChosenInv
    /\ OneActive
    /\ BatchFits
    /\ SucceededIsFresh

-----------------------------------------------------------------------------
(* What the helpers of the actions make of a row and of a worker.            *)

\* The constants 0 are within every bound.
LEMMA Zeros == 0 \in 0 .. MaxAttempts /\ 0 \in 0 .. MaxFeed /\ 1 \in 1 .. MaxFeed
BY BoundsAssumption

\* Workers between requests.
LEMMA AtTypes ==
  ASSUME NEW pc \in {"stopped", "start", "requeue", "sweep", "idle", "claimed"}
  PROVE  At(pc) \in Worker /\ At(pc).pc = pc
BY Zeros, Zenon DEF At, Worker

\* A new request is in the queue with all its attempts.
LEMMA SubmittedFields ==
  ASSUME NEW u \in Users, NEW i \in Instruments
  PROVE  LET x == [AbsentRow EXCEPT !.status = "queued", !.user = u, !.instrument = i,
                                    !.due = TRUE]
         IN  /\ x \in Row /\ x.status = "queued" /\ x.user = u /\ x.instrument = i
             /\ x.attempts = 0
BY Zeros, Zenon DEF AbsentRow, Row, Active

\* Failing keeps the target.
LEMMA FailedFields ==
  ASSUME NEW x \in Row
  PROVE  /\ Failed(x) \in Row /\ Failed(x).status = "failed"
         /\ Failed(x).user = x.user /\ Failed(x).instrument = x.instrument
BY Zenon DEF Failed, Row

\* So does putting a failed request back, with all its attempts.
LEMMA RequeuedFields ==
  ASSUME NEW x \in Row
  PROVE  /\ Requeued(x) \in Row /\ Requeued(x).status = "queued" /\ Requeued(x).attempts = 0
         /\ Requeued(x).user = x.user /\ Requeued(x).instrument = x.instrument
BY Zeros, Zenon DEF Requeued, Row, Active

\* A claim is a new attempt of its worker.
LEMMA ClaimedFields ==
  ASSUME NEW x \in Row, NEW w \in Workers, x.attempts < MaxAttempts
  PROVE  /\ Claimed(x, w) \in Row /\ Claimed(x, w).status = "running"
         /\ Claimed(x, w).worker = w /\ Claimed(x, w).attempts = x.attempts + 1
         /\ Claimed(x, w).user = x.user /\ Claimed(x, w).instrument = x.instrument
         /\ x.attempts + 1 \in 0 .. MaxAttempts
<1>1. x.attempts + 1 \in 0 .. MaxAttempts
  BY BoundsAssumption DEF Row
<1> QED
  BY <1>1, Zenon DEF Claimed, Row, Active

\* Completion records the version.
LEMMA CompletedFields ==
  ASSUME NEW x \in Row, NEW n \in 0 .. MaxFeed
  PROVE  /\ Completed(x, n) \in Row /\ Completed(x, n).status = "succeeded"
         /\ Completed(x, n).version = n
         /\ Completed(x, n).user = x.user /\ Completed(x, n).instrument = x.instrument
BY Zenon DEF Completed, Row

\* An attempt that failed is put back unless it was the last.
LEMMA RetriedFields ==
  ASSUME NEW x \in Row, NEW n \in 0 .. MaxAttempts
  PROVE  /\ Retried(x, n) \in Row
         /\ Retried(x, n).user = x.user /\ Retried(x, n).instrument = x.instrument
         /\ \/ Retried(x, n).status = "failed"
            \/ /\ Retried(x, n).status = "queued" /\ Retried(x, n).attempts = x.attempts
               /\ n < MaxAttempts
<1>1. CASE n >= MaxAttempts
  BY <1>1, FailedFields DEF Retried
<1>2. CASE ~(n >= MaxAttempts)
  <2>1. n < MaxAttempts
    BY <1>2, BoundsAssumption
  <2> QED
    BY <1>2, <2>1, Zenon DEF Retried, Row, Active
<1> QED
  BY <1>1, <1>2

\* Time changes neither the attempt nor the status of a row.
LEMMA AgedFields ==
  ASSUME NEW x \in Row, NEW y \in {[x EXCEPT !.lease = "expired"], [x EXCEPT !.due = TRUE]}
  PROVE  /\ y \in Row /\ y.status = x.status /\ y.worker = x.worker /\ y.attempts = x.attempts
         /\ y.user = x.user /\ y.instrument = x.instrument /\ y.version = x.version
<1>1. CASE y = [x EXCEPT !.lease = "expired"]
  BY <1>1, Zenon DEF Row
<1>2. CASE y = [x EXCEPT !.due = TRUE]
  BY <1>2, Zenon DEF Row
<1> QED
  BY <1>1, <1>2

\* A worker that moves on, or whose heartbeat stops, keeps its claim.
LEMMA MovedFields ==
  ASSUME NEW x \in Worker, NEW pc \in Steps
  PROVE  LET y == [x EXCEPT !.pc = pc]
         IN  /\ y \in Worker /\ y.pc = pc /\ y.request = x.request
             /\ y.attempt = x.attempt /\ y.bars = x.bars
BY Zenon DEF Worker, Steps

\* So does one whose attempt raised.
LEMMA FailingFields ==
  ASSUME NEW x \in Worker
  PROVE  /\ Failing(x) \in Worker /\ Failing(x).pc = "failing"
         /\ Failing(x).request = x.request /\ Failing(x).attempt = x.attempt
BY Zeros, Zenon DEF Failing, Worker

\* What a snapshot chose, and that it is overtaken.
LEMMA PlanTypes ==
  /\ NoPlan \in Plan
  /\ \A p \in Plan : /\ Overtaken(p) \in Plan /\ Overtaken(p).rows = p.rows
                     /\ Overtaken(p).current = FALSE
<1>1. NoPlan \in Plan
  BY DEF NoPlan, Plan
<1>2. ASSUME NEW p \in Plan
      PROVE  /\ Overtaken(p) \in Plan /\ Overtaken(p).rows = p.rows
             /\ Overtaken(p).current = FALSE
  BY Zenon DEF Overtaken, Plan
<1> QED
  BY <1>1, <1>2

\* Nothing is requested or published.
LEMMA InitIInv == Init => IInv
<1> SUFFICES ASSUME Init PROVE IInv
  OBVIOUS
<1> USE DEF Init
<1>1. TypeOK
  <2>1. AbsentRow \in Row
    BY Zeros, Zenon DEF AbsentRow, Row
  <2> QED
    BY <2>1, Zeros, AtTypes, PlanTypes DEF TypeOK
<1>2. \A w \in Workers : wk[w].pc = "stopped"
  BY AtTypes
<1>3. \A r \in Requests : row[r].status = "absent"
  BY DEF AbsentRow
<1>4. RowInv /\ OneActive /\ SucceededIsFresh /\ BatchFits /\ ChosenInv
  BY <1>2, <1>3 DEF ChosenInv, NoPlan, RowInv, OneActive, SucceededIsFresh, Active, BatchFits
<1>5. HolderInv /\ FetchInv
  BY <1>2 DEF HolderInv, FetchInv, Working, Steps, Fetched
<1> QED
  BY <1>1, <1>4, <1>5 DEF IInv

-----------------------------------------------------------------------------
(* Steps of the workers that leave the rows alone.                           *)

\* A worker goes on with its attempt, or ends it.
LEMMA WorkKeeps ==
  ASSUME IInv, NEW w \in Workers, NEW y \in Worker, wk' = [wk EXCEPT ![w] = y],
         UNCHANGED <<row, asked, active, feed>>, wk[w].pc # "stopped",
         plan' \in {plan, [plan EXCEPT ![w] = NoPlan]},
         \/ /\ Working(w) /\ y.pc \in Steps
            /\ y.request = wk[w].request /\ y.attempt = wk[w].attempt
         \/ y.pc \in {"idle", "stopped"},
         y.pc \in Fetched => asked[y.request] <= y.bars
  PROVE  IInv'
<1> USE DEF IInv
<1>1. /\ wk'[w] = y /\ \A v \in Workers \ {w} : wk'[v] = wk[v] /\ plan'[v] = plan[v]
      /\ plan' \in [Workers -> Plan]
  BY PlanTypes DEF TypeOK
<1>2. TypeOK'
  BY <1>1 DEF TypeOK
<1>3. RowInv' /\ OneActive' /\ SucceededIsFresh'
  BY DEF RowInv, OneActive, SucceededIsFresh, SameTarget
<1>4. HolderInv'
  BY <1>1 DEF HolderInv, Working, Steps, Holds
<1>5. FetchInv'
  BY <1>1 DEF FetchInv, Working, Steps, Fetched
<1>6. BatchFits'
  <2>1. wk'[w].pc # "requeue"
    BY <1>1 DEF Steps
  <2> QED
    BY <1>1, <2>1 DEF BatchFits, IndexAdmits, SameTarget
<1>7. ChosenInv'
  <2>1. plan'[w] = plan[w] \/ plan'[w].rows = {}
    BY DEF NoPlan, TypeOK
  <2> QED
    BY <1>1, <2>1 DEF ChosenInv
<1> QED
  BY <1>2, <1>3, <1>4, <1>5, <1>6, <1>7

\* A worker starts with an identity that no running row names.
LEMMA StartKeeps ==
  ASSUME IInv, NEW w \in Workers, StartWorker(w)
  PROVE  IInv'
<1> USE DEF IInv
<1>1. /\ wk[w].pc = "stopped" /\ wk'[w].pc = "start" /\ At("start") \in Worker
      /\ \A v \in Workers \ {w} : wk'[v] = wk[v]
      /\ wk' = [wk EXCEPT ![w] = At("start")]
      /\ UNCHANGED <<row, asked, active, feed, plan>>
      /\ \A r \in Requests : row[r].status = "running" => row[r].worker # w
  BY AtTypes DEF StartWorker, NewIdentity, TypeOK
<1>2. TypeOK'
  BY <1>1 DEF TypeOK
<1>3. RowInv' /\ OneActive' /\ SucceededIsFresh'
  BY <1>1 DEF RowInv, OneActive, SucceededIsFresh, SameTarget
<1>4. HolderInv'
  BY <1>1 DEF HolderInv, Working, Steps, Holds
<1>5. FetchInv'
  BY <1>1 DEF FetchInv, Working, Steps, Fetched
<1>6. BatchFits' /\ ChosenInv'
  BY <1>1 DEF BatchFits, IndexAdmits, SameTarget, ChosenInv
<1> QED
  BY <1>2, <1>3, <1>4, <1>5, <1>6

-----------------------------------------------------------------------------
(* Steps that change rows.                                                   *)

\* Rows keep their targets, leave the running state or stay what they are;
\* workers go on or rest.
LEMMA RowsKeep ==
  ASSUME IInv, row' \in [Requests -> Row], wk' \in [Workers -> Worker],
         plan' \in [Workers -> Plan], \A w \in Workers : plan'[w].rows \subseteq plan[w].rows,
         UNCHANGED <<asked, active, feed>>, OneActive', BatchFits',
         \A w \in Workers : wk'[w] = wk[w] \/ wk'[w].pc \in {"idle", "sweep"},
         \A r \in Requests :
             /\ row'[r].user = row[r].user /\ row'[r].instrument = row[r].instrument
             /\ \/ /\ row'[r].status = row[r].status /\ row'[r].worker = row[r].worker
                   /\ row'[r].attempts = row[r].attempts /\ row'[r].version = row[r].version
                \/ /\ row[r].status # "absent"
                   /\ \/ row'[r].status = "failed"
                      \/ row'[r].status = "queued" /\ row'[r].attempts < MaxAttempts
                      \/ row'[r].status = "succeeded" /\ row'[r].version >= asked[r]
  PROVE  IInv'
<1> USE DEF IInv
<1>1. TypeOK'
  BY DEF TypeOK
<1>2. RowInv'
  BY DEF RowInv
<1>3. HolderInv'
  BY DEF HolderInv, Working, Steps, Holds, FetchInv
<1>4. SucceededIsFresh'
  BY DEF SucceededIsFresh
<1>5. ASSUME NEW w \in Workers, Working(w)'
      PROVE  Working(w) /\ wk'[w] = wk[w]
  BY <1>5 DEF Working, Steps
<1>6. \A w \in Workers : wk'[w].pc \in Fetched => Working(w)'
  BY DEF Fetched, Working, Steps
<1>7. \A r \in Requests : row[r].status # "absent" => row'[r].status # "absent"
  OBVIOUS
<1>8. FetchInv' /\ ChosenInv'
  BY <1>5, <1>6, <1>7 DEF FetchInv, ChosenInv
<1> QED
  BY <1>1, <1>2, <1>3, <1>4, <1>8

\* Where rows only stop being active, targets stay distinct and what was chosen
\* for a requeue still fits.
LEMMA TargetsStay ==
  ASSUME OneActive, BatchFits, plan \in [Workers -> Plan], plan' = plan,
         \A w \in Workers : wk'[w].pc = "requeue" => wk[w].pc = "requeue",
         \A r \in Requests :
             /\ row'[r].user = row[r].user /\ row'[r].instrument = row[r].instrument
             /\ row'[r].status \in Active => row[r].status \in Active
  PROVE  OneActive' /\ BatchFits'
<1>1. OneActive'
  BY DEF OneActive, SameTarget
<1>2. ASSUME NEW w \in Workers, wk'[w].pc = "requeue", plan[w].current
      PROVE  IndexAdmits(plan[w].rows)'
  <2>1. IndexAdmits(plan[w].rows) /\ plan[w].rows \subseteq Requests
    BY <1>2 DEF BatchFits, Plan
  <2> QED
    BY <2>1 DEF IndexAdmits, SameTarget
<1> QED
  BY <1>1, <1>2 DEF BatchFits

\* A worker that ends its attempt with a report on the row it holds.
LEMMA ReportKeeps ==
  ASSUME IInv, NEW w \in Workers, Working(w), Holds(w), NEW y \in Row,
         row' = [row EXCEPT ![wk[w].request] = y],
         wk' = [wk EXCEPT ![w] = At("idle")], UNCHANGED <<asked, active, feed, plan>>,
         y.user = row[wk[w].request].user, y.instrument = row[wk[w].request].instrument,
         \/ y.status = "failed"
         \/ y.status = "queued" /\ y.attempts < MaxAttempts
         \/ y.status = "succeeded" /\ y.version >= asked[wk[w].request]
  PROVE  IInv'
<1> DEFINE r == wk[w].request
<1>1. r \in Requests /\ row[r].status = "running" /\ row[r].worker = w
  BY DEF IInv, FetchInv, Holds
<1>2. /\ row' \in [Requests -> Row] /\ row'[r] = y
      /\ \A s \in Requests \ {r} : row'[s] = row[s]
  BY <1>1 DEF IInv, TypeOK
<1>3. wk' \in [Workers -> Worker] /\ wk'[w].pc = "idle" /\ \A v \in Workers \ {w} : wk'[v] = wk[v]
  BY AtTypes DEF IInv, TypeOK
<1>4. \A v \in Workers : wk'[v].pc = "requeue" => wk[v].pc = "requeue"
  BY <1>3
<1> HIDE DEF r
<1>5. OneActive' /\ BatchFits'
  BY <1>1, <1>2, <1>4, TargetsStay DEF IInv, TypeOK, Active, r
<1> QED
  BY <1>1, <1>2, <1>3, <1>5, RowsKeep DEF r, IInv, TypeOK

\* A submission has a target that no active request has.
LEMMA SubmitKeeps ==
  ASSUME IInv, NEW r \in Requests, NEW u \in Users, NEW i \in Instruments, Submit(r, u, i)
  PROVE  IInv'
<1> USE DEF IInv
<1> DEFINE x == [AbsentRow EXCEPT !.status = "queued", !.user = u, !.instrument = i,
                                  !.due = TRUE]
<1>1. /\ x \in Row /\ x.status = "queued" /\ x.user = u /\ x.instrument = i /\ x.attempts = 0
  BY SubmittedFields
<1>2. /\ row[r].status = "absent" /\ ~ActiveTwin(x) /\ row' = [row EXCEPT ![r] = x]
      /\ asked' = [asked EXCEPT ![r] = feed[i]] /\ UNCHANGED <<active, feed, wk>>
      /\ plan' = [w \in Workers |-> Overtaken(plan[w])]
  BY DEF Submit
<1> HIDE DEF x
<1>3. /\ row'[r] = x /\ \A s \in Requests \ {r} : row'[s] = row[s]
      /\ asked'[r] = feed[i] /\ \A s \in Requests \ {r} : asked'[s] = asked[s]
  BY <1>2 DEF TypeOK
<1>4. feed[i] \in 0 .. MaxFeed /\ feed[i] \in Int
  BY BoundsAssumption DEF TypeOK
<1>5. TypeOK'
  BY <1>1, <1>2, <1>4, PlanTypes DEF TypeOK
<1>6. RowInv'
  BY <1>1, <1>2, <1>3, <1>4, BoundsAssumption DEF RowInv
<1>7. ASSUME NEW w \in Workers, Working(w)
      PROVE  wk[w].request \in Requests \ {r}
  BY <1>2, <1>3, <1>7 DEF FetchInv
<1>8. HolderInv'
  BY <1>2, <1>3, <1>7 DEF HolderInv, Working, Holds
<1>9. \A w \in Workers : wk[w].pc \in Fetched => Working(w)
  BY DEF Fetched, Working, Steps
<1>10. FetchInv'
  BY <1>2, <1>3, <1>7, <1>9 DEF FetchInv, Working
<1>11. BatchFits' /\ ChosenInv'
  BY <1>1, <1>2, <1>3, PlanTypes DEF BatchFits, ChosenInv, TypeOK
<1>12. OneActive'
  BY <1>1, <1>2, <1>3 DEF OneActive, SameTarget, ActiveTwin
<1>13. SucceededIsFresh'
  BY <1>1, <1>2, <1>3 DEF SucceededIsFresh
<1> QED
  BY <1>5, <1>6, <1>8, <1>10, <1>11, <1>12, <1>13

\* A claim is of a row whose attempts are not used up.
LEMMA ClaimKeeps ==
  ASSUME IInv, NEW w \in Workers, NEW r \in Requests, ClaimNextRequest(w, r)
  PROVE  IInv'
<1> USE DEF IInv
<1> DEFINE x == Claimed(row[r], w)
           y == [At("claimed") EXCEPT !.request = r, !.attempt = row[r].attempts + 1]
<1>1. /\ wk[w].pc = "idle" /\ row' = [row EXCEPT ![r] = x] /\ wk' = [wk EXCEPT ![w] = y]
      /\ UNCHANGED <<asked, active, feed, plan>> /\ row[r] \in Row
      /\ row[r].status \in Active /\ row[r].attempts < MaxAttempts
  BY DEF ClaimNextRequest, Claimable, TypeOK, RowInv, Active
<1>2. /\ x \in Row /\ x.status = "running" /\ x.worker = w /\ x.attempts = row[r].attempts + 1
      /\ x.user = row[r].user /\ x.instrument = row[r].instrument
      /\ row[r].attempts + 1 \in 0 .. MaxAttempts
  BY <1>1, ClaimedFields
<1>3. /\ y \in Worker /\ y.pc = "claimed" /\ y.request = r /\ y.attempt = row[r].attempts + 1
  BY <1>2, Zeros, Zenon DEF At, Worker
<1> HIDE DEF x, y
<1>4. /\ row'[r] = x /\ \A s \in Requests \ {r} : row'[s] = row[s]
      /\ wk'[w] = y /\ \A v \in Workers \ {w} : wk'[v] = wk[v]
  BY <1>1 DEF TypeOK
<1>5. TypeOK'
  BY <1>1, <1>2, <1>3 DEF TypeOK
<1>6. RowInv'
  BY <1>1, <1>2, <1>4 DEF RowInv, Active
<1>7. HolderInv'
  <2>1. wk'[w].attempt = row'[wk'[w].request].attempts
    BY <1>2, <1>3, <1>4
  <2>2. ASSUME NEW v \in Workers \ {w}, Working(v)', Holds(v)'
        PROVE  Working(v) /\ Holds(v) /\ wk[v].request \in Requests \ {r}
    BY <1>2, <1>4, <2>2 DEF Working, Holds, FetchInv
  <2> QED
    BY <1>4, <2>1, <2>2 DEF HolderInv
<1>8. ASSUME NEW v \in Workers, wk'[v].pc \in Fetched
      PROVE  wk'[v] = wk[v] /\ Working(v)
  BY <1>3, <1>4, <1>8 DEF Working, Steps, Fetched
<1>9. FetchInv'
  <2>1. \A s \in Requests : row[s].status # "absent" => row'[s].status # "absent"
    BY <1>2, <1>4
  <2>2. ASSUME NEW v \in Workers, Working(v)'
        PROVE  wk'[v].request \in Requests /\ row'[wk'[v].request].status # "absent"
    BY <1>2, <1>3, <1>4, <2>1, <2>2 DEF FetchInv, Working
  <2> QED
    BY <1>1, <1>8, <2>2 DEF FetchInv
<1>10. \A v \in Workers : wk'[v].pc = "requeue" => wk[v].pc = "requeue"
  BY <1>3, <1>4
<1>11. OneActive' /\ BatchFits'
  BY <1>1, <1>2, <1>4, <1>10, TargetsStay DEF Active, TypeOK
<1>12. SucceededIsFresh' /\ ChosenInv'
  BY <1>1, <1>2, <1>4 DEF SucceededIsFresh, ChosenInv
<1> QED
  BY <1>5, <1>6, <1>7, <1>9, <1>11, <1>12

\* A publication, by a worker or by the scheduled ingestion, changes no row.
LEMMA PublishKeeps ==
  ASSUME IInv, NEW w \in Workers, Publish(w)
  PROVE  IInv'
<1> USE DEF IInv
<1> DEFINE i == Instrument(w)
           y == [wk[w] EXCEPT !.pc = "published"]
<1>1. /\ wk[w].pc = "installing" /\ active' = [active EXCEPT ![i] = wk[w].bars]
      /\ wk' = [wk EXCEPT ![w] = y] /\ UNCHANGED <<row, asked, feed, plan>>
  BY DEF Publish
<1>2. wk[w] \in Worker /\ wk[w].bars \in 0 .. MaxFeed
  BY DEF TypeOK, Worker
<1>3. y \in Worker /\ y.pc = "published" /\ y.request = wk[w].request /\ y.attempt = wk[w].attempt
      /\ y.bars = wk[w].bars
  BY <1>2, Zenon DEF Worker
<1> HIDE DEF y
<1>4. wk'[w] = y /\ \A v \in Workers \ {w} : wk'[v] = wk[v]
  BY <1>1, <1>3 DEF TypeOK
<1>5. TypeOK'
  BY <1>1, <1>2, <1>3 DEF TypeOK
<1>6. RowInv' /\ OneActive' /\ SucceededIsFresh'
  BY <1>1 DEF RowInv, OneActive, SucceededIsFresh, SameTarget
<1>7. HolderInv'
  BY <1>1, <1>3, <1>4 DEF HolderInv, Working, Steps, Holds
<1>8. FetchInv'
  BY <1>1, <1>3, <1>4 DEF FetchInv, Working, Steps, Fetched
<1>9. BatchFits' /\ ChosenInv'
  BY <1>1, <1>3, <1>4 DEF BatchFits, IndexAdmits, SameTarget, ChosenInv
<1> QED
  BY <1>5, <1>6, <1>7, <1>8, <1>9

LEMMA ScheduledKeeps ==
  ASSUME IInv, NEW i \in Instruments, ScheduledIngestion(i)
  PROVE  IInv'
<1> USE DEF IInv
<1>1. UNCHANGED <<row, asked, feed, wk, plan>> /\ active' \in [Instruments -> 0 .. MaxFeed]
  <2>1. \A bars \in 1 .. feed[i] : bars \in 0 .. MaxFeed
    BY BoundsAssumption DEF TypeOK
  <2> QED
    BY <2>1 DEF ScheduledIngestion, TypeOK
<1>2. TypeOK'
  BY <1>1 DEF TypeOK
<1>3. RowInv' /\ OneActive' /\ SucceededIsFresh' /\ BatchFits' /\ ChosenInv'
  BY <1>1 DEF ChosenInv, RowInv, OneActive, SucceededIsFresh, SameTarget, BatchFits, IndexAdmits
<1>4. HolderInv' /\ FetchInv'
  BY <1>1 DEF HolderInv, FetchInv, Working, Holds
<1> QED
  BY <1>2, <1>3, <1>4

\* The provider only gets ahead.
LEMMA FeedKeeps ==
  ASSUME IInv, NEW i \in Instruments, FeedAdvances(i)
  PROVE  IInv'
<1> USE DEF IInv
<1>1. /\ feed[i] < MaxFeed /\ feed' = [feed EXCEPT ![i] = feed[i] + 1]
      /\ UNCHANGED <<row, asked, active, wk, plan>>
  BY DEF FeedAdvances
<1>2. feed' \in [Instruments -> 1 .. MaxFeed]
  BY <1>1, BoundsAssumption DEF TypeOK
<1>3. \A j \in Instruments : feed[j] \in Int /\ feed'[j] \in Int /\ feed[j] <= feed'[j]
  BY <1>1, <1>2, BoundsAssumption DEF TypeOK
<1>4. TypeOK'
  BY <1>1, <1>2 DEF TypeOK
<1>5. ASSUME NEW n \in 0 .. MaxFeed, NEW j \in Instruments, n <= feed[j]
      PROVE  n <= feed'[j]
  BY <1>3, <1>5, BoundsAssumption
<1>6. RowInv'
  <2>1. \A r \in Requests : asked[r] \in 0 .. MaxFeed
    BY DEF TypeOK
  <2> QED
    BY <1>1, <1>5, <2>1 DEF RowInv
<1>7. HolderInv' /\ FetchInv'
  BY <1>1 DEF HolderInv, FetchInv, Working, Holds
<1>8. OneActive' /\ BatchFits' /\ SucceededIsFresh' /\ ChosenInv'
  BY <1>1 DEF ChosenInv, OneActive, BatchFits, IndexAdmits, SucceededIsFresh, SameTarget
<1> QED
  BY <1>4, <1>6, <1>7, <1>8

\* A deactivated instrument, a sweep and time: rows fail or stay what they are.
LEMMA DeactivateKeeps ==
  ASSUME IInv, NEW i \in Instruments, DeactivateInstrument(i)
  PROVE  IInv'
<1>1. ASSUME NEW r \in Requests
      PROVE  /\ row'[r] \in Row
             /\ row'[r].user = row[r].user /\ row'[r].instrument = row[r].instrument
             /\ \/ row'[r] = row[r]
                \/ row[r].status \in Active /\ row'[r].status = "failed"
  BY FailedFields DEF DeactivateInstrument, IInv, TypeOK
<1>2. row' \in [Requests -> Row]
  BY <1>1 DEF DeactivateInstrument
<1>3. /\ wk' = wk /\ UNCHANGED <<asked, active, feed, plan>> /\ wk \in [Workers -> Worker]
      /\ plan \in [Workers -> Plan]
  BY DEF DeactivateInstrument, IInv, TypeOK
<1>4. \A r \in Requests : row[r].status \in Active => row[r].status # "absent"
  BY DEF Active
<1>5. OneActive' /\ BatchFits'
  BY <1>1, <1>3, TargetsStay DEF Active, IInv
<1> QED
  BY <1>1, <1>2, <1>3, <1>4, <1>5, RowsKeep

LEMMA SweepKeeps ==
  ASSUME IInv, NEW w \in Workers, FailExhaustedRequests(w)
  PROVE  IInv'
<1>1. ASSUME NEW r \in Requests
      PROVE  /\ row'[r] \in Row
             /\ row'[r].user = row[r].user /\ row'[r].instrument = row[r].instrument
             /\ \/ row'[r] = row[r]
                \/ row[r].status = "running" /\ row'[r].status = "failed"
  BY FailedFields DEF FailExhaustedRequests, Exhausted, IInv, TypeOK
<1>2. row' \in [Requests -> Row]
  BY <1>1 DEF FailExhaustedRequests
<1>3. /\ wk' \in [Workers -> Worker] /\ wk'[w].pc = "idle"
      /\ \A v \in Workers \ {w} : wk'[v] = wk[v]
      /\ UNCHANGED <<asked, active, feed, plan>> /\ plan \in [Workers -> Plan]
  BY AtTypes DEF FailExhaustedRequests, IInv, TypeOK
<1>4. OneActive' /\ BatchFits'
  BY <1>1, <1>3, TargetsStay DEF Active, IInv
<1> QED
  BY <1>1, <1>2, <1>3, <1>4, RowsKeep

LEMMA TimeKeeps ==
  ASSUME IInv, NEW r \in Requests, ExpireLease(r) \/ RetryBecomesDue(r)
  PROVE  IInv'
<1>1. PICK y \in {[row[r] EXCEPT !.lease = "expired"], [row[r] EXCEPT !.due = TRUE]} :
         row' = [row EXCEPT ![r] = y]
  BY DEF ExpireLease, RetryBecomesDue
<1>2. /\ y \in Row /\ y.status = row[r].status /\ y.worker = row[r].worker
      /\ y.attempts = row[r].attempts /\ y.user = row[r].user
      /\ y.instrument = row[r].instrument /\ y.version = row[r].version
  <2>1. row[r] \in Row
    BY DEF IInv, TypeOK
  <2> QED
    BY <2>1, AgedFields
<1>3. row' \in [Requests -> Row] /\ row'[r] = y /\ \A s \in Requests \ {r} : row'[s] = row[s]
  BY <1>1, <1>2 DEF IInv, TypeOK
<1>4. /\ wk' = wk /\ UNCHANGED <<asked, active, feed, plan>> /\ wk \in [Workers -> Worker]
      /\ plan \in [Workers -> Plan]
  BY DEF ExpireLease, RetryBecomesDue, IInv, TypeOK
<1>5. OneActive' /\ BatchFits'
  BY <1>2, <1>3, <1>4, TargetsStay DEF IInv
<1> QED
  BY <1>2, <1>3, <1>4, <1>5, RowsKeep

\* A snapshot chooses one failed request of each target that has no active one.
LEMMA ChooseKeeps ==
  ASSUME IInv, NEW w \in Workers, ChooseFailedRequests(w)
  PROVE  IInv'
<1> USE DEF IInv
<1>1. PICK S \in SUBSET Requests :
         OneOfEachTarget(S) /\ plan' = [plan EXCEPT ![w] = [rows |-> S, current |-> TRUE]]
  BY DEF ChooseFailedRequests
<1>2. /\ wk' \in [Workers -> Worker] /\ wk'[w].pc = "requeue" /\ wk[w].pc = "start"
      /\ \A v \in Workers \ {w} : wk'[v] = wk[v]
      /\ UNCHANGED <<row, asked, active, feed>>
  BY AtTypes DEF ChooseFailedRequests, TypeOK
<1>3. /\ plan' \in [Workers -> Plan] /\ plan'[w].rows = S
      /\ \A v \in Workers \ {w} : plan'[v] = plan[v]
  <2>1. [rows |-> S, current |-> TRUE] \in Plan
    BY DEF Plan
  <2> QED
    BY <1>1, <2>1 DEF TypeOK
<1>4. IndexAdmits(S)
  BY <1>1 DEF IndexAdmits, OneOfEachTarget, Candidates, ActiveTwin, SameTarget
<1>5. TypeOK'
  BY <1>2, <1>3 DEF TypeOK
<1>6. RowInv' /\ OneActive' /\ SucceededIsFresh'
  BY <1>2 DEF RowInv, OneActive, SucceededIsFresh, SameTarget
<1>7. HolderInv' /\ FetchInv'
  BY <1>2 DEF HolderInv, FetchInv, Working, Steps, Fetched, Holds
<1>8. BatchFits'
  BY <1>2, <1>3, <1>4 DEF BatchFits, IndexAdmits, SameTarget
<1>9. ChosenInv'
  BY <1>1, <1>2, <1>3 DEF ChosenInv, OneOfEachTarget, Candidates
<1> QED
  BY <1>5, <1>6, <1>7, <1>8, <1>9

\* The batch is written as the index admits it, and overtakes other snapshots.
LEMMA RequeueKeeps ==
  ASSUME IInv, NEW w \in Workers, RequeueFailedRequests(w)
  PROVE  IInv'
<1> DEFINE S == plan[w].rows
<1>1. /\ wk[w].pc = "requeue" /\ IndexAdmits(S)
      /\ row' = [r \in Requests |-> IF r \in S THEN Requeued(row[r]) ELSE row[r]]
      /\ plan' = [v \in Workers |-> IF v = w THEN NoPlan ELSE Overtaken(plan[v])]
      /\ UNCHANGED <<asked, active, feed>>
  BY DEF RequeueFailedRequests
<1>2. S \subseteq Requests
  BY DEF IInv, TypeOK, Plan
<1> HIDE DEF S
<1>3. /\ wk' \in [Workers -> Worker] /\ wk'[w].pc = "sweep"
      /\ \A v \in Workers \ {w} : wk'[v] = wk[v]
  BY AtTypes DEF RequeueFailedRequests, IInv, TypeOK
<1>4. ASSUME NEW r \in Requests
      PROVE  /\ row'[r] \in Row
             /\ row'[r].user = row[r].user /\ row'[r].instrument = row[r].instrument
             /\ IF r \in S
                THEN row'[r].status = "queued" /\ row'[r].attempts = 0
                ELSE row'[r] = row[r]
  BY <1>1, RequeuedFields DEF IInv, TypeOK
<1>5. row' \in [Requests -> Row]
  BY <1>1, <1>4
<1>6. OneActive'
  <2> SUFFICES ASSUME NEW r \in Requests, NEW s \in Requests,
                      row'[r].status \in Active, row'[s].status \in Active,
                      SameTarget(row'[r], row'[s])
               PROVE  r = s
    BY DEF OneActive
  <2>1. SameTarget(row[r], row[s]) /\ SameTarget(row[s], row[r])
    BY <1>4 DEF SameTarget
  <2>2. CASE r \in S
    BY <1>1, <1>4, <2>1, <2>2 DEF IndexAdmits
  <2>3. CASE r \notin S /\ s \in S
    BY <1>1, <1>4, <2>1, <2>3 DEF IndexAdmits
  <2>4. CASE r \notin S /\ s \notin S
    BY <1>4, <2>1, <2>4 DEF IInv, OneActive
  <2> QED
    BY <2>2, <2>3, <2>4
<1>7. /\ plan' \in [Workers -> Plan] /\ \A v \in Workers \ {w} : ~plan'[v].current
      /\ \A v \in Workers : plan'[v].rows \subseteq plan[v].rows
  BY <1>1, PlanTypes DEF IInv, TypeOK, NoPlan
<1>8. BatchFits'
  BY <1>3, <1>7 DEF BatchFits
<1>9. 0 < MaxAttempts
  BY BoundsAssumption
<1>10. \A r \in S : row[r].status # "absent"
  BY <1>2 DEF S, IInv, ChosenInv
<1> QED
  BY <1>1, <1>3, <1>4, <1>5, <1>6, <1>7, <1>8, <1>9, <1>10, RowsKeep

-----------------------------------------------------------------------------
(* The steps of an attempt.                                                  *)

\* A worker that goes on, with what it has fetched if it has fetched anything.
LEMMA GoOnKeeps ==
  ASSUME IInv, NEW w \in Workers, Working(w), NEW pc \in Steps,
         wk' = [wk EXCEPT ![w] = [@ EXCEPT !.pc = pc]], UNCHANGED <<row, asked, active, feed, plan>>,
         pc \in Fetched => wk[w].pc \in Fetched
  PROVE  IInv'
<1> DEFINE y == [wk[w] EXCEPT !.pc = pc]
<1>1. wk' = [wk EXCEPT ![w] = y] /\ wk[w].pc # "stopped"
  BY DEF Working, Steps
<1>2. /\ y \in Worker /\ y.pc = pc /\ y.request = wk[w].request /\ y.attempt = wk[w].attempt
      /\ y.bars = wk[w].bars
  BY MovedFields DEF IInv, TypeOK
<1> HIDE DEF y
<1>3. wk[w].pc \in Fetched => asked[wk[w].request] <= wk[w].bars
  BY DEF IInv, FetchInv
<1> QED
  BY <1>1, <1>2, <1>3, WorkKeeps

\* A worker that dies, or ends its attempt without a report.
LEMMA StopKeeps ==
  ASSUME IInv, NEW w \in Workers, wk[w].pc # "stopped", NEW pc \in {"idle", "stopped"},
         wk' = [wk EXCEPT ![w] = At(pc)], UNCHANGED <<row, asked, active, feed>>,
         plan' \in {plan, [plan EXCEPT ![w] = NoPlan]}
  PROVE  IInv'
<1>1. At(pc) \in Worker /\ At(pc).pc = pc
  BY AtTypes
<1> QED
  BY <1>1, WorkKeeps DEF Fetched

\* A worker whose heartbeat stops goes on.
LEMMA HeartbeatKeeps ==
  ASSUME IInv, NEW w \in Workers, HeartbeatStops(w)
  PROVE  IInv'
<1> DEFINE y == [wk[w] EXCEPT !.lost = TRUE]
<1>1. /\ wk' = [wk EXCEPT ![w] = y] /\ Working(w) /\ wk[w].pc # "stopped"
      /\ UNCHANGED <<row, asked, active, feed, plan>> /\ wk[w] \in Worker
  BY DEF HeartbeatStops, Working, Steps, IInv, TypeOK
<1>2. /\ y \in Worker /\ y.pc = wk[w].pc /\ y.request = wk[w].request
      /\ y.attempt = wk[w].attempt /\ y.bars = wk[w].bars
  BY <1>1, Zenon DEF Worker
<1> HIDE DEF y
<1>3. wk[w].pc \in Fetched => asked[wk[w].request] <= wk[w].bars
  BY DEF IInv, FetchInv
<1> QED
  BY <1>1, <1>2, <1>3, WorkKeeps DEF Working

\* A worker whose attempt raised reports that next.
LEMMA RaiseKeeps ==
  ASSUME IInv, NEW w \in Workers, Working(w), wk' = [wk EXCEPT ![w] = Failing(@)],
         UNCHANGED <<row, asked, active, feed, plan>>
  PROVE  IInv'
<1> DEFINE y == Failing(wk[w])
<1>1. wk' = [wk EXCEPT ![w] = y] /\ wk[w].pc # "stopped"
  BY DEF Working, Steps
<1>2. /\ y \in Worker /\ y.pc = "failing" /\ y.request = wk[w].request
      /\ y.attempt = wk[w].attempt
  BY FailingFields DEF IInv, TypeOK
<1> HIDE DEF y
<1>3. y.pc \in Steps /\ y.pc \notin Fetched
  BY <1>2 DEF Steps, Fetched
<1> QED
  BY <1>1, <1>2, <1>3, WorkKeeps

\* The fetch takes what the provider has, which is no less than was asked for.
LEMMA PrepareKeeps ==
  ASSUME IInv, NEW w \in Workers, PrepareRequestDataset(w)
  PROVE  IInv'
<1> DEFINE i == Instrument(w)
           y == [wk[w] EXCEPT !.pc = "prepared", !.bars = feed[i]]
<1>1. /\ wk' = [wk EXCEPT ![w] = y] /\ wk[w].pc = "claimed" /\ wk[w] \in Worker
      /\ UNCHANGED <<row, asked, active, feed, plan>>
  BY DEF PrepareRequestDataset, IInv, TypeOK
<1>2. Working(w) /\ wk[w].request \in Requests /\ i \in Instruments
  BY <1>1 DEF IInv, FetchInv, RowInv, Working, Steps, Instrument
<1>3. feed[i] \in 1 .. MaxFeed /\ feed[i] \in 0 .. MaxFeed /\ feed[i] \in Int
  BY <1>2, BoundsAssumption DEF IInv, TypeOK
<1>4. asked[wk[w].request] <= feed[i]
  BY <1>1, <1>2 DEF IInv, FetchInv, RowInv, Instrument
<1>5. /\ y \in Worker /\ y.pc = "prepared" /\ y.request = wk[w].request
      /\ y.attempt = wk[w].attempt /\ y.bars = feed[i]
  BY <1>1, <1>3, Zenon DEF Worker
<1> HIDE DEF y, i
<1>6. asked[y.request] <= y.bars
  BY <1>3, <1>4, <1>5
<1>7. y.pc \in Steps /\ wk[w].pc # "stopped"
  BY <1>1, <1>5 DEF Steps
<1> QED
  BY <1>1, <1>2, <1>5, <1>6, <1>7, WorkKeeps

\* Completion records bars that are recent enough.
LEMMA CompleteKeeps ==
  ASSUME IInv, NEW w \in Workers, CompleteRequest(w)
  PROVE  IInv'
<1> DEFINE x == row[wk[w].request]
           y == Completed(x, wk[w].bars)
<1>1. /\ wk[w].pc = "published" /\ Holds(w) /\ UNCHANGED <<asked, active, feed, plan>>
      /\ row' = [row EXCEPT ![wk[w].request] = y] /\ wk' = [wk EXCEPT ![w] = At("idle")]
  BY DEF CompleteRequest, LeaseLive
<1>2. Working(w) /\ wk[w].pc \in Fetched
  BY <1>1 DEF Working, Steps, Fetched
<1>3. x \in Row /\ wk[w].bars \in 0 .. MaxFeed
  BY <1>2 DEF IInv, TypeOK, FetchInv, Worker
<1>4. /\ y \in Row /\ y.status = "succeeded" /\ y.version = wk[w].bars
      /\ y.user = x.user /\ y.instrument = x.instrument
  BY <1>3, CompletedFields
<1>5. y.version >= asked[wk[w].request]
  <2>1. asked[wk[w].request] <= wk[w].bars
    BY <1>2 DEF IInv, FetchInv
  <2>2. asked[wk[w].request] \in Int
    BY <1>2, BoundsAssumption DEF IInv, TypeOK, FetchInv
  <2> QED
    BY <1>3, <1>4, <2>1, <2>2, BoundsAssumption
<1> HIDE DEF y
<1> QED
  BY <1>1, <1>2, <1>4, <1>5, ReportKeeps

\* An attempt that raised is put back only if the row has attempts left.
LEMMA RetryKeeps ==
  ASSUME IInv, NEW w \in Workers, RetryOrFail(w)
  PROVE  IInv'
<1> DEFINE x == row[wk[w].request]
           y == Retried(x, wk[w].attempt)
<1>1. /\ wk[w].pc = "failing" /\ UNCHANGED <<asked, active, feed, plan>>
      /\ row' = IF Holds(w) THEN [row EXCEPT ![wk[w].request] = y] ELSE row
      /\ wk' = [wk EXCEPT ![w] = At("idle")]
  BY DEF RetryOrFail
<1>2. Working(w)
  BY <1>1 DEF Working, Steps
<1>3. x \in Row /\ wk[w].attempt \in 0 .. MaxAttempts
  BY <1>2 DEF IInv, TypeOK, FetchInv, Worker
<1>4. CASE Holds(w)
  <2>1. wk[w].attempt = x.attempts
    BY <1>2, <1>4 DEF IInv, HolderInv
  <2>2. /\ y \in Row /\ y.user = x.user /\ y.instrument = x.instrument
        /\ \/ y.status = "failed"
           \/ y.status = "queued" /\ y.attempts = x.attempts /\ wk[w].attempt < MaxAttempts
    BY <1>3, RetriedFields
  <2> HIDE DEF y
  <2> QED
    BY <1>1, <1>2, <1>4, <2>1, <2>2, ReportKeeps
<1>5. CASE ~Holds(w)
  BY <1>1, <1>5, StopKeeps
<1> QED
  BY <1>4, <1>5

LEMMA FailKeeps ==
  ASSUME IInv, NEW w \in Workers, FailRequest(w)
  PROVE  IInv'
<1> DEFINE x == row[wk[w].request]
           y == Failed(x)
<1>1. /\ wk[w].pc = "claimed" /\ UNCHANGED <<asked, active, feed, plan>>
      /\ row' = IF Holds(w) THEN [row EXCEPT ![wk[w].request] = y] ELSE row
      /\ wk' = [wk EXCEPT ![w] = At("idle")]
  BY DEF FailRequest
<1>2. Working(w)
  BY <1>1 DEF Working, Steps
<1>3. y \in Row /\ y.status = "failed" /\ y.user = x.user /\ y.instrument = x.instrument
  BY <1>2, FailedFields DEF IInv, TypeOK, FetchInv
<1> HIDE DEF y
<1>4. CASE Holds(w)
  BY <1>1, <1>2, <1>3, <1>4, ReportKeeps
<1>5. CASE ~Holds(w)
  BY <1>1, <1>5, StopKeeps
<1> QED
  BY <1>4, <1>5

-----------------------------------------------------------------------------
\* The invariant is inductive: one case for each action.
LEMMA StepIInv == IInv /\ [Next]_vars => IInv'
<1> SUFFICES ASSUME IInv, [Next]_vars PROVE IInv'
  OBVIOUS
<1>1. ASSUME NEW r \in Requests, NEW u \in Users, NEW i \in Instruments, Submit(r, u, i)
      PROVE  IInv'
  BY <1>1, SubmitKeeps
<1>2. ASSUME NEW w \in Workers, StartWorker(w)
      PROVE  IInv'
  BY <1>2, StartKeeps
<1>3. ASSUME NEW w \in Workers, ChooseFailedRequests(w)
      PROVE  IInv'
  BY <1>3, ChooseKeeps
<1>4. ASSUME NEW w \in Workers, Proceed(w)
      PROVE  IInv'
  <2>1. CASE FailExhaustedRequests(w)
    BY <2>1, SweepKeeps
  <2>2. ASSUME NEW r \in Requests, ClaimNextRequest(w, r)
        PROVE  IInv'
    BY <2>2, ClaimKeeps
  <2>3. CASE PrepareRequestDataset(w)
    BY <2>3, PrepareKeeps
  <2>4. CASE CheckLease(w)
    <3>1. CASE wk[w].lost
      BY <2>4, <3>1, StopKeeps DEF CheckLease
    <3>2. CASE ~wk[w].lost
      BY <2>4, <3>2, GoOnKeeps DEF CheckLease, Working, Steps, Fetched
    <3> QED
      BY <3>1, <3>2
  <2>5. CASE CompareChecksum(w)
    <3>1. PICK pc \in {"published", "installing"} : wk' = [wk EXCEPT ![w] = [@ EXCEPT !.pc = pc]]
      BY <2>5 DEF CompareChecksum
    <3> QED
      BY <2>5, <3>1, GoOnKeeps DEF CompareChecksum, Working, Steps, Fetched
  <2>6. CASE Publish(w)
    BY <2>6, PublishKeeps
  <2>7. CASE CompleteRequest(w)
    BY <2>7, CompleteKeeps
  <2>8. CASE CompletionRefused(w)
    <3>1. CASE wk[w].lost
      BY <2>8, <3>1, StopKeeps DEF CompletionRefused
    <3>2. CASE ~wk[w].lost
      BY <2>8, <3>2, RaiseKeeps DEF CompletionRefused, Working, Steps
    <3> QED
      BY <3>1, <3>2
  <2>9. CASE RetryOrFail(w)
    BY <2>9, RetryKeeps
  <2>10. CASE FailRequest(w)
    BY <2>10, FailKeeps
  <2>11. CASE RequeueFailedRequests(w)
    BY <2>11, RequeueKeeps
  <2>12. CASE RequeueRefused(w)
    BY <2>12, StopKeeps DEF RequeueRefused
  <2> QED
    BY <1>4, <2>1, <2>2, <2>3, <2>4, <2>5, <2>6, <2>7, <2>8, <2>9, <2>10, <2>11, <2>12 DEF Proceed
<1>5. ASSUME NEW w \in Workers, HeartbeatStops(w)
      PROVE  IInv'
  BY <1>5, HeartbeatKeeps
<1>6. ASSUME NEW w \in Workers, Raise(w)
      PROVE  IInv'
  BY <1>6, RaiseKeeps DEF Raise, Working, Steps
<1>7. ASSUME NEW w \in Workers, Crash(w)
      PROVE  IInv'
  BY <1>7, StopKeeps DEF Crash
<1>8. ASSUME NEW r \in Requests, ExpireLease(r) \/ RetryBecomesDue(r)
      PROVE  IInv'
  BY <1>8, TimeKeeps
<1>9. ASSUME NEW i \in Instruments, FeedAdvances(i)
      PROVE  IInv'
  BY <1>9, FeedKeeps
<1>10. ASSUME NEW i \in Instruments, DeactivateInstrument(i)
       PROVE  IInv'
  BY <1>10, DeactivateKeeps
<1>11. CASE UNCHANGED vars
  BY <1>11 DEF vars, IInv, TypeOK, RowInv, HolderInv, FetchInv, ChosenInv, OneActive, BatchFits,
     IndexAdmits, SameTarget, SucceededIsFresh, Working, Holds
<1>12. ASSUME NEW i \in Instruments, ScheduledIngestion(i)
       PROVE  IInv'
  BY <1>12, ScheduledKeeps
<1> QED
  BY <1>1, <1>2, <1>3, <1>4, <1>5, <1>6, <1>7, <1>8, <1>9, <1>10, <1>11, <1>12 DEF Next

\* The invariant holds in every reachable state.
LEMMA Inductive == Spec => []IInv
BY InitIInv, StepIInv, PTL DEF Spec

-----------------------------------------------------------------------------
(* The results.                                                              *)

\* Workers and rows only refer to what there is.
THEOREM TypeCorrect == Spec => []TypeOK
<1>1. IInv => TypeOK
  BY DEF IInv
<1> QED
  BY <1>1, Inductive, PTL

\* A batch of failed requests is refused only when a request became active
\* after its snapshot (requeue_failed_requests).
THEOREM BatchesFit == Spec => []BatchFits
<1>1. IInv => BatchFits
  BY DEF IInv
<1> QED
  BY <1>1, Inductive, PTL

\* With any number of workers, what a request succeeds with is as recent as
\* what the provider had when it was submitted.
THEOREM SuccessIsFresh == Spec => []SucceededIsFresh
<1>1. IInv => SucceededIsFresh
  BY DEF IInv
<1> QED
  BY <1>1, Inductive, PTL

\* With any number of workers, a report that counts is about the last attempt.
THEOREM ReportsAreOwn == Spec => ReportsOwnAttempt
<1> DEFINE A == \A w \in Workers, r \in Requests :
                   /\ CompleteRequest(w) \/ RetryOrFail(w) \/ FailRequest(w)
                   /\ row'[r] # row[r]
                   => r = wk[w].request /\ wk[w].attempt = row[r].attempts
<1>1. IInv /\ [Next]_vars => [A]_vars
  <2> SUFFICES ASSUME IInv, NEW w \in Workers, NEW r \in Requests,
                      CompleteRequest(w) \/ RetryOrFail(w) \/ FailRequest(w), row'[r] # row[r]
               PROVE  r = wk[w].request /\ wk[w].attempt = row[r].attempts
    OBVIOUS
  <2>1. Working(w)
    BY DEF CompleteRequest, RetryOrFail, FailRequest, Working, Steps
  <2>2. PICK y : Holds(w) /\ row' = [row EXCEPT ![wk[w].request] = y]
    BY DEF CompleteRequest, RetryOrFail, FailRequest, LeaseLive
  <2>3. r = wk[w].request
    BY <2>2 DEF IInv, TypeOK
  <2> QED
    BY <2>1, <2>2, <2>3 DEF IInv, HolderInv
<1> QED
  BY <1>1, Inductive, PTL DEF Spec, ReportsOwnAttempt
=============================================================================
