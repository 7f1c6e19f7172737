---------------------- MODULE ForwardEvaluation_proofs ----------------------
(* Proofs about ForwardEvaluation, for any number of assignments,            *)
(* portfolios, requests, versions and bars.  What rests on there being one   *)
(* worker process says so: MaxLive = 1.                                      *)
EXTENDS ForwardEvaluation, FiniteSetTheorems, TLAPS

-----------------------------------------------------------------------------
(* The inductive invariant.                                                  *)

Busy(w) == wk[w].pc \in {"evaluating", "rejecting"}

\* What a call has checked, and what a worker has claimed, exists.
WorkInv ==
    /\ \A c \in Requests :
          req[c].pc = "checked" => req[c].portfolio \in Portfolios /\ req[c].version \in Versions
    /\ \A w \in Workers :
          Busy(w) =>
              /\ wk[w].assignment \in Assignments
              /\ wk[w].version \in Versions
              /\ row[wk[w].assignment].status # "absent"

\* Jobs belong to assignments.
JobInv ==
    \A a \in Assignments, v \in Versions :
        job[<<a, v>>] # "absent" => row[a].status # "absent"

\* With one worker at a time, what it claimed is still so when it completes.
SoleInv ==
    /\ IsFiniteSet(Live)
    /\ MaxLive = 1 =>
          /\ \A v, w \in Live : v = w
          /\ \A w \in Workers : Busy(w) => wk[w].seen = row[wk[w].assignment].seen

IInv ==
    /\ TypeOK
    /\ WorkInv
    /\ JobInv
    /\ SoleInv
    /\ OneActive

\* Workers and calls at rest.
LEMMA RestingTypes ==
  /\ \A pc \in {"stopped", "idle"} : At(pc) \in Worker /\ At(pc).pc = pc
  /\ NoRequest \in Request /\ NoRequest.pc = "idle"
<1>1. 0 \in 0 .. MaxVersion /\ 0 \in 0 .. MaxBar
  BY BoundsAssumption
<1> QED
  BY <1>1, Zenon DEF At, NoRequest, Worker, Request

\* Nothing has been published, and nothing made from it.
LEMMA InitIInv == Init => IInv
<1> SUFFICES ASSUME Init PROVE IInv
  OBVIOUS
<1> USE DEF Init
<1>1. TypeOK
  <2>1. [status |-> "absent", portfolio |-> NoPortfolio, seen |-> 0] \in Row
    <3>1. 0 \in 0 .. MaxBar
      BY BoundsAssumption
    <3> QED
      BY <3>1, Zenon DEF Row
  <2>2. 0 \in 0 .. MaxVersion /\ 0 \in 0 .. MaxBar
    BY BoundsAssumption
  <2> QED
    BY <2>1, <2>2, RestingTypes DEF TypeOK, JobStatus
<1>2. \A w \in Workers : wk[w].pc = "stopped"
  BY RestingTypes
<1>3. WorkInv
  BY <1>2, RestingTypes DEF WorkInv, Busy
<1>5. JobInv /\ OneActive
  BY DEF JobInv, OneActive
<1>6. SoleInv
  <2>1. Live = {}
    BY <1>2 DEF Live
  <2> QED
    BY <1>2, <2>1, FS_EmptySet DEF SoleInv, Busy
<1> QED
  BY <1>1, <1>3, <1>5, <1>6 DEF IInv

-----------------------------------------------------------------------------
(* Publication and assignments.                                              *)

\* A publication queues jobs of active assignments, or none.
LEMMA PublishKeeps ==
  ASSUME IInv, NEW d \in Datasets, NEW b \in 1 .. MaxBar, Publish(d, b)
  PROVE  IInv'
<1> USE DEF IInv
<1> DEFINE v == newest + 1
<1>1. /\ v \in Versions /\ newest' = v
      /\ active' = [active EXCEPT ![d] = v]
      /\ lastBar' = [lastBar EXCEPT ![v] = b]
      /\ job' = job \/ job' = EnqueueStrategyEvaluations(v)
      /\ UNCHANGED <<row, signals, wk, req>>
  BY DEF Publish
<1> HIDE DEF v
<1>2. v \in 0 .. MaxVersion /\ b \in 0 .. MaxBar
  BY <1>1, BoundsAssumption DEF Versions
<1>3. job' \in [Assignments \X Versions -> JobStatus]
  BY <1>1 DEF TypeOK, EnqueueStrategyEvaluations, JobStatus
<1>4. TypeOK'
  BY <1>1, <1>2, <1>3 DEF TypeOK
<1>5. \A a \in Assignments, u \in Versions :
          \/ job'[<<a, u>>] = job[<<a, u>>]
          \/ row[a].status = "active"
  BY <1>1 DEF EnqueueStrategyEvaluations
<1>6. WorkInv' /\ JobInv' /\ OneActive'
  BY <1>1, <1>5 DEF WorkInv, Busy, JobInv, OneActive
<1>7. SoleInv'
  BY <1>1 DEF SoleInv, Live, Busy
<1> QED
  BY <1>4, <1>6, <1>7

\* The adjusted dataset is left without an active version.
LEMMA DeactivateKeeps == IInv /\ DeactivateAdjusted => IInv'
<1> SUFFICES ASSUME IInv, DeactivateAdjusted PROVE IInv'
  OBVIOUS
<1> USE DEF IInv, DeactivateAdjusted
<1>1. 0 \in 0 .. MaxVersion
  BY BoundsAssumption
<1>2. TypeOK'
  BY <1>1 DEF TypeOK
<1>3. WorkInv' /\ JobInv' /\ OneActive'
  BY DEF WorkInv, Busy, JobInv, OneActive
<1>4. SoleInv'
  BY DEF SoleInv, Live, Busy
<1> QED
  BY <1>2, <1>3, <1>4

\* A call that checks the leg, or gives up, changes nothing else.
LEMMA CallKeeps ==
  ASSUME IInv, NEW c \in Requests, NEW x \in Request, req' = [req EXCEPT ![c] = x],
         x.pc = "checked" => x.portfolio \in Portfolios /\ x.version \in Versions,
         UNCHANGED <<newest, active, lastBar, row, job, signals, wk>>
  PROVE  IInv'
<1> USE DEF IInv
<1>1. TypeOK'
  BY DEF TypeOK
<1>2. req'[c] = x /\ \A d \in Requests \ {c} : req'[d] = req[d]
  BY DEF TypeOK
<1>3. WorkInv'
  BY <1>2 DEF WorkInv, Busy
<1>4. JobInv' /\ OneActive'
  BY DEF JobInv, OneActive
<1>5. SoleInv'
  BY DEF SoleInv, Live, Busy
<1> QED
  BY <1>1, <1>3, <1>4, <1>5

\* The new assignment takes the place of the active ones of its portfolio.
LEMMA CreateKeeps ==
  ASSUME IInv, NEW c \in Requests, NEW a \in Assignments, CreateAssignment(c, a)
  PROVE  IInv'
<1> USE DEF IInv
<1> DEFINE p == req[c].portfolio
           new == [status |-> "active", portfolio |-> p, seen |-> lastBar[req[c].version]]
<1>1. /\ req[c].pc = "checked" /\ row[a].status = "absent"
      /\ req' = [req EXCEPT ![c] = NoRequest]
      /\ UNCHANGED <<newest, active, lastBar, job, signals, wk>>
  BY DEF CreateAssignment, Fresh
<1>2. p \in Portfolios /\ req[c].version \in Versions
  BY <1>1 DEF WorkInv
<1>3. lastBar[req[c].version] \in 0 .. MaxBar
  BY <1>2 DEF TypeOK
<1>4. new \in Row
  BY <1>2, <1>3, Zenon DEF Row
<1>5. \A x \in Row : /\ ArchiveActive(x, p) \in Row
                     /\ ArchiveActive(x, p).portfolio = x.portfolio
                     /\ ArchiveActive(x, p).seen = x.seen
                     /\ ArchiveActive(x, p).status = "absent" <=> x.status = "absent"
                     /\ ArchiveActive(x, p).status = "active"
                           <=> x.status = "active" /\ x.portfolio # p
  <2> TAKE x \in Row
  <2>1. CASE x.portfolio = p /\ x.status = "active"
    BY <2>1, Zenon DEF ArchiveActive, Row
  <2>2. CASE ~(x.portfolio = p /\ x.status = "active")
    BY <2>2, Zenon DEF ArchiveActive
  <2> QED
    BY <2>1, <2>2
<1>6. /\ row'[a] = new
      /\ \A b \in Assignments \ {a} : row'[b] = ArchiveActive(row[b], p)
      /\ \A b \in Assignments : row[b] \in Row
  BY DEF CreateAssignment, TypeOK
<1>7. TypeOK'
  <2>1. row' \in [Assignments -> Row]
    BY <1>4, <1>5, <1>6 DEF CreateAssignment
  <2> QED
    BY <1>1, <2>1, RestingTypes DEF TypeOK
<1>8. \A b \in Assignments \ {a} :
          /\ row'[b].seen = row[b].seen /\ row'[b].portfolio = row[b].portfolio
          /\ row'[b].status = "absent" <=> row[b].status = "absent"
          /\ row'[b].status = "active" => row[b].status = "active" /\ row[b].portfolio # p
  BY <1>5, <1>6
<1>9. WorkInv'
  <2>1. \A w \in Workers : Busy(w) => wk[w].assignment # a
    BY <1>1 DEF WorkInv
  <2> QED
    BY <1>1, <1>8, <2>1, RestingTypes DEF WorkInv, Busy, TypeOK
<1>11. JobInv'
  BY <1>1, <1>8 DEF JobInv, TypeOK
<1>12. SoleInv'
  <2>1. \A w \in Workers : Busy(w) => wk[w].assignment # a
    BY <1>1 DEF WorkInv
  <2>2. \A w \in Workers : Busy(w) => wk[w].assignment \in Assignments
    BY DEF WorkInv
  <2>3. \A w \in Workers : wk[w].pc = "evaluating" => Busy(w)
    BY DEF Busy
  <2> QED
    BY <1>1, <1>8, <2>1, <2>2, <2>3 DEF SoleInv, Live, Busy
<1>13. OneActive'
  BY <1>6, <1>8 DEF OneActive
<1> QED
  BY <1>7, <1>9, <1>11, <1>12, <1>13

-----------------------------------------------------------------------------
(* The worker.                                                               *)

\* A worker that stops or rests leaves at most as many running as before.
LEMMA LiveShrinks ==
  ASSUME IsFiniteSet(Live), Live' \subseteq Live, MaxLive = 1 => \A v, w \in Live : v = w
  PROVE  IsFiniteSet(Live)' /\ (MaxLive = 1 => \A v, w \in Live' : v = w)
<1>1. IsFiniteSet(Live')
  BY FS_Subset
<1> QED
  BY <1>1

\* A worker starts when no more than MaxLive will run.
LEMMA StartKeeps ==
  ASSUME IInv, NEW w \in Workers, StartWorker(w)
  PROVE  IInv'
<1> USE DEF IInv
<1>1. /\ wk[w].pc = "stopped" /\ wk'[w].pc = "idle" /\ At("idle") \in Worker
      /\ \A v \in Workers \ {w} : wk'[v] = wk[v]
      /\ wk' = [wk EXCEPT ![w] = At("idle")]
      /\ UNCHANGED <<newest, active, lastBar, row, job, signals, req>>
  BY RestingTypes DEF StartWorker, TypeOK
<1>2. TypeOK'
  BY <1>1 DEF TypeOK
<1>3. WorkInv'
  BY <1>1 DEF WorkInv, Busy
<1>4. JobInv' /\ OneActive'
  BY <1>1 DEF JobInv, OneActive
<1>5. SoleInv'
  <2>1. Live' = Live \cup {w}
    BY <1>1 DEF Live
  <2>2. IsFiniteSet(Live')
    BY <2>1, FS_AddElement DEF SoleInv
  <2>3. MaxLive = 1 => Live = {}
    <3>1. Cardinality(Live) < MaxLive
      BY DEF StartWorker
    <3>2. Cardinality(Live) \in Nat /\ (Cardinality(Live) = 0 <=> Live = {})
      BY FS_CardinalityType, FS_EmptySet DEF SoleInv
    <3> QED
      BY <3>1, <3>2
  <2>4. MaxLive = 1 => \A v, x \in Live' : v = x
    BY <2>1, <2>3
  <2>5. \A v \in Workers : Busy(v)' => v # w /\ Busy(v) /\ wk'[v] = wk[v]
    BY <1>1 DEF Busy
  <2>6. \A v \in Workers : wk'[v].pc = "evaluating" => v # w /\ wk'[v] = wk[v]
    BY <1>1
  <2> QED
    BY <1>1, <2>2, <2>4, <2>5, <2>6 DEF SoleInv
<1> QED
  BY <1>2, <1>3, <1>4, <1>5

\* A worker that dies leaves nothing of its transaction.
LEMMA StopKeeps ==
  ASSUME IInv, NEW w \in Workers, wk' = [wk EXCEPT ![w] = At("stopped")],
         UNCHANGED <<newest, active, lastBar, row, job, signals, req>>
  PROVE  IInv'
<1> USE DEF IInv
<1>1. /\ wk'[w].pc = "stopped" /\ At("stopped") \in Worker
      /\ \A v \in Workers \ {w} : wk'[v] = wk[v]
  BY RestingTypes DEF TypeOK
<1>2. TypeOK'
  BY <1>1 DEF TypeOK
<1>3. WorkInv'
  BY <1>1 DEF WorkInv, Busy
<1>4. JobInv' /\ OneActive'
  BY DEF JobInv, OneActive
<1>5. SoleInv'
  <2>1. Live' \subseteq Live
    BY <1>1 DEF Live
  <2>2. \A v \in Workers : Busy(v)' => v # w /\ Busy(v) /\ wk'[v] = wk[v]
    BY <1>1 DEF Busy
  <2>3. \A v \in Workers : wk'[v].pc = "evaluating" => v # w /\ wk'[v] = wk[v]
    BY <1>1
  <2> QED
    BY <2>1, <2>2, <2>3, LiveShrinks DEF SoleInv
<1> QED
  BY <1>2, <1>3, <1>4, <1>5

\* A claim takes a queued job, and the state of its assignment.
LEMMA ClaimKeeps ==
  ASSUME IInv, NEW w \in Workers, NEW a \in Assignments, NEW v \in Versions,
         ClaimNextEvaluation(w, a, v)
  PROVE  IInv'
<1> USE DEF IInv
<1> DEFINE y == [pc |-> IF Eligible(a, v) THEN "evaluating" ELSE "rejecting",
                 assignment |-> a, version |-> v, seen |-> row[a].seen]
<1>1. /\ wk[w].pc = "idle" /\ job[<<a, v>>] = "queued"
      /\ wk' = [wk EXCEPT ![w] = y]
      /\ UNCHANGED <<newest, active, lastBar, row, job, signals, req>>
  BY DEF ClaimNextEvaluation, Oldest, Claimable
<1>2. row[a].status # "absent"
  BY <1>1 DEF JobInv
<1>3. v \in 0 .. MaxVersion
  BY BoundsAssumption DEF Versions
<1>4. y \in Worker
  <2>1. row[a].seen \in 0 .. MaxBar
    BY DEF TypeOK, Row
  <2>2. (IF Eligible(a, v) THEN "evaluating" ELSE "rejecting")
            \in {"stopped", "idle", "evaluating", "rejecting"}
    OBVIOUS
  <2> QED
    BY <1>3, <2>1, <2>2, Zenon DEF Worker
<1>5. /\ y.assignment = a /\ y.version = v /\ y.seen = row[a].seen
      /\ y.pc \in {"evaluating", "rejecting"}
  OBVIOUS
<1>6. wk'[w] = y /\ \A x \in Workers \ {w} : wk'[x] = wk[x]
  BY <1>1 DEF TypeOK
<1> HIDE DEF y
<1>7. TypeOK'
  BY <1>1, <1>4 DEF TypeOK
<1>8. WorkInv'
  BY <1>1, <1>2, <1>3, <1>5, <1>6 DEF WorkInv, Busy
<1>9. JobInv' /\ OneActive'
  BY <1>1 DEF JobInv, OneActive
<1>10. SoleInv'
  <2>1. Live' \subseteq Live
    BY <1>1, <1>6 DEF Live
  <2>3. \A x \in Workers \ {w} : Busy(x)' => Busy(x) /\ wk'[x] = wk[x]
    BY <1>6 DEF Busy
  <2> QED
    BY <1>1, <1>5, <1>6, <2>1, <2>3, LiveShrinks DEF SoleInv
<1> QED
  BY <1>7, <1>8, <1>9, <1>10

\* A job that fails ends the test of its assignment and nothing else.
LEMMA FailKeeps ==
  ASSUME IInv, NEW w \in Workers, Busy(w), NEW outcome \in {"invalid", "failed"},
         Settle(w, outcome, Failed(row[wk[w].assignment])), UNCHANGED signals
  PROVE  IInv'
<1> USE DEF IInv
<1> DEFINE a == wk[w].assignment
           v == wk[w].version
           x == Failed(row[a])
<1>1. a \in Assignments /\ v \in Versions /\ row[a].status # "absent" /\ row[a] \in Row
  BY DEF WorkInv, TypeOK
<1>2. /\ x \in Row /\ x.status = "evaluation_failed"
      /\ x.portfolio = row[a].portfolio /\ x.seen = row[a].seen
  BY <1>1, Zenon DEF Failed, Row
<1>3. /\ wk' = [wk EXCEPT ![w] = At("idle")]
      /\ row' = [row EXCEPT ![a] = x]
      /\ job' = [job EXCEPT ![<<a, v>>] = outcome]
      /\ UNCHANGED <<newest, active, lastBar, req, signals>>
  BY DEF Settle, Settled
<1> HIDE DEF x
<1>4. /\ wk'[w].pc = "idle" /\ At("idle") \in Worker
      /\ \A u \in Workers \ {w} : wk'[u] = wk[u]
      /\ row'[a] = x /\ \A b \in Assignments \ {a} : row'[b] = row[b]
      /\ \A b \in Assignments, u \in Versions :
            job'[<<b, u>>] = IF b = a /\ u = v THEN outcome ELSE job[<<b, u>>]
  BY <1>1, <1>2, <1>3, RestingTypes DEF TypeOK
<1>5. TypeOK'
  BY <1>2, <1>3, <1>4 DEF TypeOK, JobStatus
<1>6. WorkInv'
  BY <1>2, <1>3, <1>4 DEF WorkInv, Busy
<1>7. OneActive'
  BY <1>2, <1>3, <1>4 DEF OneActive
<1>8. JobInv'
  BY <1>1, <1>2, <1>3, <1>4 DEF JobInv, TypeOK
<1>10. SoleInv'
  <2>1. Live' \subseteq Live
    BY <1>4 DEF Live, Busy
  <2>2. \A u \in Workers : Busy(u)' => u # w /\ Busy(u) /\ wk'[u] = wk[u]
    BY <1>4 DEF Busy
  <2>4. \A b \in Assignments : row'[b].seen = row[b].seen
    BY <1>2, <1>4
  <2>5. \A u \in Workers : Busy(u) => wk[u].assignment \in Assignments
    BY DEF WorkInv
  <2> QED
    BY <1>3, <2>1, <2>2, <2>4, <2>5, LiveShrinks DEF SoleInv
<1> QED
  BY <1>5, <1>6, <1>7, <1>8, <1>10

\* An evaluation makes its assignment active only where the index admits it.
LEMMA CompleteKeeps ==
  ASSUME IInv, NEW w \in Workers, CompleteEvaluation(w)
  PROVE  IInv'
<1> USE DEF IInv
<1> DEFINE a == wk[w].assignment
           v == wk[w].version
           x == [row[a] EXCEPT !.status = "active", !.seen = lastBar[v]]
<1>1. /\ wk[w].pc = "evaluating" /\ Busy(w) /\ ~IndexRefuses(w)
      /\ a \in Assignments /\ v \in Versions
      /\ row[a].status # "absent" /\ row[a] \in Row
  BY DEF CompleteEvaluation, WorkInv, Busy, TypeOK
<1>2. PICK bars \in SUBSET NewBars(w) :
          signals' = signals \cup {<<a, v, b>> : b \in bars}
  BY DEF CompleteEvaluation
<1>3. lastBar[v] \in 0 .. MaxBar
  BY <1>1 DEF TypeOK
<1>4. /\ x \in Row /\ x.status = "active"
      /\ x.portfolio = row[a].portfolio /\ x.seen = lastBar[v]
  BY <1>1, <1>3, Zenon DEF Row
<1>5. /\ wk' = [wk EXCEPT ![w] = At("idle")]
      /\ row' = [row EXCEPT ![a] = x]
      /\ job' = [job EXCEPT ![<<a, v>>] = "succeeded"]
      /\ UNCHANGED <<newest, active, lastBar, req>>
  BY DEF CompleteEvaluation, Settle, Settled
<1> HIDE DEF x
<1>6. /\ wk'[w].pc = "idle" /\ At("idle") \in Worker
      /\ \A u \in Workers \ {w} : wk'[u] = wk[u]
      /\ row'[a] = x /\ \A b \in Assignments \ {a} : row'[b] = row[b]
      /\ \A b \in Assignments, u \in Versions :
            job'[<<b, u>>] = IF b = a /\ u = v THEN "succeeded" ELSE job[<<b, u>>]
  BY <1>1, <1>4, <1>5, RestingTypes DEF TypeOK
<1>7. \A b \in bars : b \in 1 .. MaxBar
  BY <1>2, <1>3, BoundsAssumption DEF NewBars
<1>8. TypeOK'
  <2>1. signals' \subseteq Assignments \X Versions \X (1 .. MaxBar)
    BY <1>1, <1>2, <1>7 DEF TypeOK
  <2> QED
    BY <1>4, <1>5, <1>6, <2>1 DEF TypeOK, JobStatus
<1>9. WorkInv'
  BY <1>4, <1>5, <1>6 DEF WorkInv, Busy
<1>11. OneActive'
  BY <1>1, <1>4, <1>6 DEF OneActive, IndexRefuses
<1>14. JobInv'
  BY <1>1, <1>4, <1>5, <1>6 DEF JobInv
<1>15. SoleInv'
  <2>1. Live' \subseteq Live
    BY <1>1, <1>6 DEF Live
  <2>2. MaxLive = 1 => \A u \in Workers \ {w} : wk'[u].pc = "stopped"
    BY <1>1, <1>6 DEF SoleInv, Live
  <2> QED
    BY <1>6, <2>1, <2>2, LiveShrinks DEF SoleInv, Busy
<1> QED
  BY <1>8, <1>9, <1>11, <1>14, <1>15

-----------------------------------------------------------------------------
\* The invariant is inductive: one case for each action.
LEMMA StepIInv == IInv /\ [Next]_vars => IInv'
<1> SUFFICES ASSUME IInv, [Next]_vars PROVE IInv'
  OBVIOUS
<1>1. ASSUME NEW d \in Datasets, NEW b \in 1 .. MaxBar, Publish(d, b)
      PROVE  IInv'
  BY <1>1, PublishKeeps
<1>2. ASSUME NEW c \in Requests, NEW p \in Portfolios, NEW v \in Versions, CheckLeg(c, p, v)
      PROVE  IInv'
  <2> DEFINE x == [pc |-> "checked", portfolio |-> p, version |-> v]
  <2>1. v \in 0 .. MaxVersion
    BY BoundsAssumption DEF Versions
  <2>2. x \in Request /\ x.portfolio \in Portfolios /\ x.version \in Versions
    BY <2>1, Zenon DEF Request
  <2>3. req' = [req EXCEPT ![c] = x] /\ UNCHANGED <<newest, active, lastBar, row, job, signals, wk>>
    BY <1>2 DEF CheckLeg
  <2> HIDE DEF x
  <2> QED
    BY <2>2, <2>3, CallKeeps
<1>3. ASSUME NEW c \in Requests, ApplyFails(c)
      PROVE  IInv'
  BY <1>3, RestingTypes, CallKeeps DEF ApplyFails
<1>4. ASSUME NEW c \in Requests, NEW a \in Assignments, CreateAssignment(c, a)
      PROVE  IInv'
  BY <1>4, CreateKeeps
<1>5. ASSUME NEW w \in Workers, StartWorker(w)
      PROVE  IInv'
  BY <1>5, StartKeeps
<1>6. ASSUME NEW w \in Workers, Claim(w)
      PROVE  IInv'
  BY <1>6, ClaimKeeps DEF Claim
<1>7. ASSUME NEW w \in Workers, Reject(w) \/ FailEvaluation(w)
      PROVE  IInv'
  BY <1>7, FailKeeps DEF Reject, FailEvaluation, Busy
<1>8. ASSUME NEW w \in Workers, CompleteEvaluation(w)
      PROVE  IInv'
  BY <1>8, CompleteKeeps
<1>9. ASSUME NEW w \in Workers, CompletionRefused(w) \/ Crash(w)
      PROVE  IInv'
  BY <1>9, StopKeeps DEF CompletionRefused, Crash
<1>10. CASE UNCHANGED vars
  BY <1>10 DEF vars, IInv, TypeOK, WorkInv, JobInv, SoleInv, OneActive, Busy, Live
<1>11. ASSUME DeactivateAdjusted
       PROVE  IInv'
  BY <1>11, DeactivateKeeps
<1> QED
  BY <1>1, <1>2, <1>3, <1>4, <1>5, <1>6, <1>7, <1>8, <1>9, <1>10, <1>11
  DEF Next, Apply, Proceed, Conclude

\* The invariant holds in every reachable state.
LEMMA Inductive == Spec => []IInv
BY InitIInv, StepIInv, PTL DEF Spec

-----------------------------------------------------------------------------
(* The results.                                                              *)

\* Calls and workers only refer to assignments and versions there are.
THEOREM TypeCorrect == Spec => []TypeOK
<1>1. IInv => TypeOK
  BY DEF IInv
<1> QED
  BY <1>1, Inductive, PTL

\* A portfolio never has two active assignments for the asset, with any number
\* of workers: a late completion does not bring a replaced one back.
THEOREM NeverTwoActive == Spec => []OneActive
<1>1. IInv => OneActive
  BY DEF IInv
<1> QED
  BY <1>1, Inductive, PTL

\* With one worker process a signal is about a bar after those its assignment
\* has been taken through, whatever is published for whichever dataset.
THEOREM SignalsOfNewBars ==
  ASSUME MaxLive = 1
  PROVE  Spec => SignalsAreNew
<1>1. ASSUME IInv, [Next]_vars
      PROVE  [\A s \in signals' \ signals : s[3] > row[s[1]].seen]_vars
  <2>1. CASE UNCHANGED signals
    BY <2>1
  <2>2. ASSUME NEW w \in Workers, CompleteEvaluation(w), NEW s \in signals' \ signals
        PROVE  s[3] > row[s[1]].seen
    <3>1. PICK bars \in SUBSET NewBars(w) :
              signals' = signals \cup {<<wk[w].assignment, wk[w].version, b>> : b \in bars}
      BY <2>2 DEF CompleteEvaluation
    <3>2. PICK b \in NewBars(w) : s = <<wk[w].assignment, wk[w].version, b>>
      BY <2>2, <3>1
    <3>3. s[1] = wk[w].assignment /\ s[3] = b
      BY <3>2
    <3>4. wk[w].seen = row[wk[w].assignment].seen
      BY <1>1, <2>2 DEF IInv, SoleInv, Busy, CompleteEvaluation
    <3> QED
      BY <3>2, <3>3, <3>4 DEF NewBars
  <2>3. UNCHANGED signals \/ \E w \in Workers : CompleteEvaluation(w)
    BY <1>1 DEF Next, Apply, Proceed, Conclude, Claim, vars, Publish, DeactivateAdjusted,
       CheckLeg, CreateAssignment, ApplyFails, StartWorker, ClaimNextEvaluation, Reject,
       CompletionRefused, FailEvaluation, Crash, Settle
  <2> QED
    BY <2>1, <2>2, <2>3
<1> QED
  BY <1>1, Inductive, PTL DEF Spec, SignalsAreNew
=============================================================================
