------------------------- MODULE RefreshQueue_proofs -------------------------
(* Proofs about RefreshQueue, for any number of users, requests, consumers,  *)
(* attempts and versions.                                                    *)
EXTENDS RefreshQueue, TLAPS

-----------------------------------------------------------------------------
(* The inductive invariant.                                                  *)

\* A request that has read the row still has the version of the row: the lock
\* keeps other requests out, and consumers never change request_version.
RequestInv ==
    /\ \A q \in Requests :
          /\ req[q].pc # "idle" => req[q].user \in Users
          /\ req[q].pc = "update" => /\ req[q].version = row[req[q].user].requested
                                     /\ req[q].version < MaxVersion
    /\ \A p, q \in Requests :
          req[p].pc = "update" /\ req[q].pc = "update" /\ req[p].user = req[q].user => p = q

\* A row names a consumer only while it is running, and that consumer either
\* has died or works on this claim.
ClaimInv ==
    /\ \A w \in Workers : Working(w) => wk[w].user \in Users
    /\ \A w \in Workers, u \in Users :
          row[u].worker = w =>
              /\ row[u].status = "running"
              /\ wk[w].pc # "idle"
              /\ Working(w) => /\ wk[w].user = u
                               /\ wk[w].attempt = row[u].attempts
                               /\ wk[w].version = row[u].processing

\* Versions only grow: what a consumer saw is not older than the version it
\* claimed, and when it has published, some revision reflects that version.
VersionInv ==
    /\ \A w \in Workers : Working(w) => wk[w].version <= row[wk[w].user].requested
    /\ \A w \in Workers : wk[w].pc = "generating" => wk[w].version <= wk[w].saw
    /\ \A w \in Workers :
          wk[w].pc = "published" => \E v \in revisions[wk[w].user] : v >= wk[w].version

IInv ==
    /\ TypeOK
    /\ RequestInv
    /\ ClaimInv
    /\ VersionInv
    /\ ReadyWasPublished

\* No row, no request, no consumer.
LEMMA InitIInv == Init => IInv
<1> SUFFICES ASSUME Init PROVE IInv
  OBVIOUS
<1> USE DEF Init, NoRequest, Stopped, NoDaily
<1>1. TypeOK
  BY BoundsAssumption DEF TypeOK, Row, Status, Worker, Request, Daily
<1>2. RequestInv /\ ReadyWasPublished
  BY DEF RequestInv, ReadyWasPublished
<1>3. ClaimInv /\ VersionInv
  BY NullsAssumption DEF ClaimInv, VersionInv, Working
<1> QED
  BY <1>1, <1>2, <1>3 DEF IInv

-----------------------------------------------------------------------------
(* What the helpers of the actions make of a row, and of a consumer.         *)

\* A request raises the version and, unless it read the row as running, makes
\* it a queued one.
LEMMA BumpedFields ==
  ASSUME NEW x \in Row, NEW s, NEW v \in 0 .. MaxVersion, v < MaxVersion
  PROVE  /\ Bumped(x, s, v) \in Row
         /\ Bumped(x, s, v).requested = v + 1
         /\ \/ /\ Bumped(x, s, v).status = x.status
               /\ Bumped(x, s, v).worker = x.worker
               /\ Bumped(x, s, v).attempts = x.attempts
               /\ Bumped(x, s, v).processing = x.processing
            \/ /\ Bumped(x, s, v).status = "queued"
               /\ Bumped(x, s, v).worker = NoWorker
<1>1. v + 1 \in 0 .. MaxVersion /\ 0 \in 0 .. MaxVersion /\ 0 \in 0 .. MaxAttempts
  BY BoundsAssumption
<1>2. CASE s = "running"
  BY <1>1, <1>2, Zenon DEF Bumped, Row
<1>3. CASE s # "running"
  BY <1>1, <1>3, Zenon DEF Bumped, Row, Status
<1> QED
  BY <1>2, <1>3

\* A claim is for the version requested by then.
LEMMA ClaimedFields ==
  ASSUME NEW x \in Row, NEW w \in Workers, Claimable(x)
  PROVE  /\ Claimed(x, w) \in Row
         /\ Claimed(x, w).status = "running"
         /\ Claimed(x, w).worker = w
         /\ Claimed(x, w).attempts = x.attempts + 1
         /\ Claimed(x, w).requested = x.requested
         /\ Claimed(x, w).processing = x.requested
         /\ x.attempts + 1 \in 0 .. MaxAttempts
<1>1. x.attempts + 1 \in 0 .. MaxAttempts
  BY BoundsAssumption DEF Claimable, Row
<1>2. x.requested \in 0 .. MaxVersion
  BY DEF Row
<1> QED
  BY <1>1, <1>2, Zenon DEF Claimed, Row, Status

\* A completed row is queued again when a newer version was requested.
LEMMA CompletedFields ==
  ASSUME NEW x \in Row
  PROVE  /\ Completed(x) \in Row
         /\ Completed(x).worker = NoWorker
         /\ Completed(x).requested = x.requested
         /\ \/ Completed(x).status = "queued"
            \/ Completed(x).status = "succeeded" /\ Completed(x).processing = x.processing
<1>1. 0 \in 0 .. MaxVersion /\ 0 \in 0 .. MaxAttempts
  BY BoundsAssumption
<1>2. CASE x.requested > x.processing
  BY <1>1, <1>2, Zenon DEF Completed, Row, Status
<1>3. CASE ~(x.requested > x.processing)
  BY <1>1, <1>3, Zenon DEF Completed, Row, Status
<1> QED
  BY <1>2, <1>3

\* A failed attempt gives the claim back.
LEMMA RetriedFields ==
  ASSUME NEW x \in Row, NEW n
  PROVE  /\ Retried(x, n) \in Row
         /\ Retried(x, n).worker = NoWorker
         /\ Retried(x, n).requested = x.requested
         /\ Retried(x, n).status \in {"queued", "failed"}
<1>1. 0 \in 0 .. MaxVersion
  BY BoundsAssumption
<1>2. CASE n >= MaxAttempts
  BY <1>1, <1>2, Zenon DEF Retried, Row, Status
<1>3. CASE ~(n >= MaxAttempts)
  BY <1>1, <1>3, Zenon DEF Retried, Row, Status
<1> QED
  BY <1>2, <1>3

\* Time changes neither the claim nor the versions of a row.
LEMMA AgedFields ==
  ASSUME NEW x \in Row, NEW y \in {[x EXCEPT !.stale = TRUE], [x EXCEPT !.due = TRUE]}
  PROVE  /\ y \in Row
         /\ y.status = x.status /\ y.worker = x.worker /\ y.attempts = x.attempts
         /\ y.requested = x.requested /\ y.processing = x.processing
<1>1. CASE y = [x EXCEPT !.stale = TRUE]
  BY <1>1, Zenon DEF Row
<1>2. CASE y = [x EXCEPT !.due = TRUE]
  BY <1>2, Zenon DEF Row
<1> QED
  BY <1>1, <1>2

\* A consumer that moves on keeps its claim.
LEMMA MovedFields ==
  ASSUME NEW x \in Worker,
         NEW pc \in {"stopped", "idle", "claimed", "generating", "published", "failing"}
  PROVE  LET y == [x EXCEPT !.pc = pc]
         IN  /\ y \in Worker
             /\ y.pc = pc /\ y.user = x.user /\ y.attempt = x.attempt
             /\ y.version = x.version /\ y.saw = x.saw
BY Zenon DEF Worker

\* Consumers and requests at rest.
LEMMA RestingTypes == Resting \in Worker /\ Stopped \in Worker /\ NoRequest \in Request
<1>1. 0 \in 0 .. MaxVersion /\ 0 \in 0 .. MaxAttempts
  BY BoundsAssumption
<1> QED
  BY <1>1, Zenon DEF Resting, Stopped, NoRequest, Worker, Request, Status

-----------------------------------------------------------------------------
(* The requests: each action keeps the invariant.                            *)

\* A call that starts, reads or gives up changes no row and no consumer.
LEMMA CallKeeps ==
  ASSUME IInv, NEW q \in Requests, NEW x \in Request, req' = [req EXCEPT ![q] = x],
         UNCHANGED <<row, revisions, daily, wk, fleet>>,
         x.pc # "idle" => x.user \in Users,
         x.pc = "update" => /\ x.version = row[x.user].requested
                            /\ x.version < MaxVersion
                            /\ LockFree(x.user)
  PROVE  IInv'
<1> USE DEF IInv
<1>1. req'[q] = x /\ \A p \in Requests \ {q} : req'[p] = req[p]
  BY DEF TypeOK
<1>2. TypeOK'
  BY DEF TypeOK
<1>3. RequestInv'
  BY <1>1 DEF RequestInv, LockFree
<1>4. ClaimInv' /\ VersionInv' /\ ReadyWasPublished'
  BY DEF ClaimInv, VersionInv, ReadyWasPublished, Working
<1> QED
  BY <1>2, <1>3, <1>4

\* A request raises the version of its row by one.
LEMMA UpdateKeeps ==
  ASSUME IInv, NEW q \in Requests, UpdateRow(q)
  PROVE  IInv' /\ row'[req[q].user].requested = row[req[q].user].requested + 1
<1> USE DEF IInv
<1> DEFINE u == req[q].user
           x == Bumped(row[u], req[q].status, req[q].version)
<1>1. /\ req[q].pc = "update" /\ u \in Users /\ row[u] \in Row
      /\ req[q].version = row[u].requested /\ req[q].version < MaxVersion
      /\ req[q].version \in 0 .. MaxVersion
  <2>1. req[q].pc = "update"
    BY DEF UpdateRow
  <2>2. req[q].version \in 0 .. MaxVersion
    BY DEF TypeOK, Request
  <2> QED
    BY <2>1, <2>2 DEF TypeOK, RequestInv
<1>2. /\ x \in Row /\ x.requested = row[u].requested + 1
      /\ \/ /\ x.status = row[u].status /\ x.worker = row[u].worker
            /\ x.attempts = row[u].attempts /\ x.processing = row[u].processing
         \/ x.status = "queued" /\ x.worker = NoWorker
  BY <1>1, BumpedFields
<1>3. /\ row'[u] = x /\ \A v \in Users \ {u} : row'[v] = row[v]
      /\ req'[q] = NoRequest /\ \A p \in Requests \ {q} : req'[p] = req[p]
      /\ UNCHANGED <<revisions, daily, wk, fleet>>
      /\ row' \in [Users -> Row] /\ req' \in [Requests -> Request]
  BY <1>1, <1>2, RestingTypes DEF UpdateRow, TypeOK
<1>4. row[u].requested \in Nat
  BY <1>1, BoundsAssumption DEF Row, TypeOK
<1>5. TypeOK'
  BY <1>3 DEF TypeOK
<1>6. RequestInv'
  BY <1>1, <1>3 DEF RequestInv, NoRequest
<1>7. ClaimInv'
  BY <1>2, <1>3, NullsAssumption DEF ClaimInv, Working
<1>8. VersionInv'
  <2>1. \A v \in Users : row'[v].requested >= row[v].requested
    BY <1>2, <1>3, <1>4, BoundsAssumption DEF TypeOK, Row
  <2>2. \A v \in Users : row[v].requested \in Nat /\ row'[v].requested \in Nat
    BY <1>3, BoundsAssumption DEF TypeOK, Row
  <2>3. \A w \in Workers : wk[w].version \in Nat /\ wk[w].saw \in Nat
    BY BoundsAssumption DEF TypeOK, Worker
  <2>4. \A w \in Workers : Working(w) => wk[w].user \in Users
    BY DEF ClaimInv
  <2>6. \A w \in Workers : Working(w) => wk[w].version <= row'[wk[w].user].requested
    BY <2>1, <2>2, <2>3, <2>4 DEF VersionInv
  <2> QED
    BY <1>3, <2>6 DEF VersionInv, Working
<1>9. ReadyWasPublished'
  BY <1>2, <1>3 DEF ReadyWasPublished
<1> QED
  BY <1>2, <1>3, <1>5, <1>6, <1>7, <1>8, <1>9

\* Every statement of a request keeps the invariant.
LEMMA EnqueueKeeps ==
  ASSUME IInv, NEW q \in Requests, Enqueue(q)
  PROVE  IInv'
<1> USE DEF IInv
<1>1. ASSUME NEW u \in Users, RequestRefresh(q, u)
      PROVE  IInv'
  <2> DEFINE x == [NoRequest EXCEPT !.pc = "start", !.user = u]
  <2>1. x \in Request /\ x.pc = "start" /\ x.user = u
    BY RestingTypes, Zenon DEF Request, NoRequest
  <2> QED
    BY <2>1, <1>1, CallKeeps DEF RequestRefresh
<1>2. CASE ReadRow(q)
  <2> DEFINE u == req[q].user
             x == [req[q] EXCEPT !.pc = "update", !.status = row[u].status,
                                 !.version = row[u].requested]
  <2>1. /\ u \in Users /\ LockFree(u) /\ row[u].requested < MaxVersion
        /\ req[q] \in Request /\ row[u] \in Row
        /\ req' = [req EXCEPT ![q] = x]
        /\ UNCHANGED <<row, revisions, daily, wk, fleet>>
    BY <1>2 DEF ReadRow, RequestInv, TypeOK
  <2>2. row[u].status \in Status /\ row[u].requested \in 0 .. MaxVersion
    BY <2>1 DEF Row
  <2>3. x \in Request /\ x.pc = "update" /\ x.user = u /\ x.version = row[u].requested
    BY <2>1, <2>2, Zenon DEF Request
  <2> QED
    BY <2>1, <2>3, CallKeeps
<1>3. CASE UpdateRow(q)
  BY <1>3, UpdateKeeps
<1>4. CASE EnqueueFails(q)
  <2>1. NoRequest.pc = "idle"
    BY DEF NoRequest
  <2> QED
    BY <1>4, <2>1, RestingTypes, CallKeeps DEF EnqueueFails
<1> QED
  BY <1>1, <1>2, <1>3, <1>4 DEF Enqueue

-----------------------------------------------------------------------------
(* The consumers: each action keeps the invariant.                           *)

\* A new consumer has an identity that no running row names.
LEMMA StartKeeps ==
  ASSUME IInv, NEW w \in Workers, StartWorker(w)
  PROVE  IInv'
<1> USE DEF IInv
<1>1. /\ wk'[w] = Resting /\ wk[w].pc = "stopped"
      /\ \A v \in Workers \ {w} : wk'[v] = wk[v]
      /\ wk' \in [Workers -> Worker]
      /\ UNCHANGED <<row, revisions, daily, req, fleet>>
  BY RestingTypes DEF StartWorker, TypeOK
<1>2. wk'[w].pc = "idle"
  BY <1>1 DEF Resting
<1>3. TypeOK' /\ RequestInv' /\ ReadyWasPublished'
  BY <1>1 DEF TypeOK, RequestInv, ReadyWasPublished
<1>4. ClaimInv'
  BY <1>1, <1>2 DEF ClaimInv, Working, StartWorker
<1>5. VersionInv'
  BY <1>1, <1>2 DEF VersionInv, Working
<1> QED
  BY <1>3, <1>4, <1>5

\* A claim names the consumer in the row, for the version requested.
LEMMA ClaimKeeps ==
  ASSUME IInv, NEW w \in Workers, NEW u \in Users, ClaimNextRequest(w, u)
  PROVE  IInv'
<1> USE DEF IInv
<1> DEFINE x == Claimed(row[u], w)
           y == [pc |-> "claimed", user |-> u, attempt |-> row[u].attempts + 1,
                 version |-> row[u].requested, saw |-> 0]
<1>1. wk[w].pc = "idle" /\ row[u] \in Row /\ Claimable(row[u])
  BY DEF ClaimNextRequest, TypeOK
<1>2. /\ x \in Row /\ x.status = "running" /\ x.worker = w
      /\ x.attempts = row[u].attempts + 1 /\ x.requested = row[u].requested
      /\ x.processing = row[u].requested /\ row[u].attempts + 1 \in 0 .. MaxAttempts
  BY <1>1, ClaimedFields
<1>3. y \in Worker
  <2>1. row[u].requested \in 0 .. MaxVersion /\ 0 \in 0 .. MaxVersion
    BY <1>1, BoundsAssumption DEF Row
  <2> QED
    BY <2>1, <1>2, Zenon DEF Worker
<1>4. /\ row'[u] = x /\ \A v \in Users \ {u} : row'[v] = row[v]
      /\ wk'[w] = y /\ \A v \in Workers \ {w} : wk'[v] = wk[v]
      /\ row' \in [Users -> Row] /\ wk' \in [Workers -> Worker]
      /\ UNCHANGED <<revisions, daily, req, fleet>>
  BY <1>2, <1>3 DEF ClaimNextRequest, TypeOK
<1>5. TypeOK'
  BY <1>4 DEF TypeOK
<1>6. RequestInv' /\ ReadyWasPublished'
  BY <1>2, <1>4 DEF RequestInv, ReadyWasPublished
<1>7. ClaimInv'
  BY <1>1, <1>2, <1>4 DEF ClaimInv, Working
<1>8. VersionInv'
  <2>1. row[u].requested \in Nat
    BY <1>1, BoundsAssumption DEF Row
  <2>2. \A v \in Users : row'[v].requested = row[v].requested
    BY <1>2, <1>4
  <2> QED
    BY <2>1, <2>2, <1>4 DEF VersionInv, Working, ClaimInv
<1> QED
  BY <1>5, <1>6, <1>7, <1>8

\* A consumer that goes on with its claim, or rests when no row names it any
\* more, changes no row.
LEMMA WorkKeeps ==
  ASSUME IInv, NEW w \in Workers, NEW y \in Worker, wk' = [wk EXCEPT ![w] = y],
         UNCHANGED <<row, revisions, daily, req, fleet>>, wk[w].pc # "stopped",
         \/ /\ Working(w)
            /\ y.pc \in {"claimed", "generating", "published", "failing"}
            /\ y.user = wk[w].user /\ y.attempt = wk[w].attempt /\ y.version = wk[w].version
         \/ y.pc = "idle" /\ \A u \in Users : row[u].worker # w
         \/ y.pc = "stopped",
         y.pc = "generating" => y.version <= y.saw,
         y.pc # "published"
  PROVE  IInv'
<1> USE DEF IInv
<1>1. /\ wk'[w] = y /\ \A v \in Workers \ {w} : wk'[v] = wk[v]
      /\ wk' \in [Workers -> Worker]
  BY DEF TypeOK
<1>2. TypeOK' /\ RequestInv' /\ ReadyWasPublished'
  BY <1>1 DEF TypeOK, RequestInv, ReadyWasPublished
<1>3. ClaimInv'
  BY <1>1 DEF ClaimInv, Working
<1>4. VersionInv'
  BY <1>1 DEF VersionInv, Working
<1> QED
  BY <1>2, <1>3, <1>4

\* The published briefing reflects what its generator saw.
LEMMA PublishKeeps ==
  ASSUME IInv, NEW w \in Workers, PublishBriefing(w)
  PROVE  IInv'
<1> USE DEF IInv
<1> DEFINE u == wk[w].user
           y == [wk[w] EXCEPT !.pc = "published"]
<1>1. /\ wk[w].pc = "generating" /\ wk[w] \in Worker /\ u \in Users
      /\ wk[w].saw \in 0 .. MaxVersion
  BY DEF PublishBriefing, TypeOK, ClaimInv, Working, Worker
<1>2. /\ y \in Worker /\ y.pc = "published" /\ y.user = u /\ y.attempt = wk[w].attempt
      /\ y.version = wk[w].version /\ y.saw = wk[w].saw
  BY <1>1, MovedFields
<1>3. /\ wk'[w] = y /\ \A v \in Workers \ {w} : wk'[v] = wk[v]
      /\ wk' \in [Workers -> Worker]
      /\ revisions'[u] = revisions[u] \cup {wk[w].saw}
      /\ \A v \in Users \ {u} : revisions'[v] = revisions[v]
      /\ revisions' \in [Users -> SUBSET (0 .. MaxVersion)]
      /\ UNCHANGED <<row, daily, req, fleet>>
  BY <1>1, <1>2 DEF PublishBriefing, TypeOK
<1> HIDE DEF y
<1>4. TypeOK' /\ RequestInv'
  BY <1>3 DEF TypeOK, RequestInv
<1>5. ClaimInv'
  <2>1. \A v \in Workers :
            /\ Working(v)' <=> Working(v)
            /\ wk'[v].pc = "idle" <=> wk[v].pc = "idle"
            /\ wk'[v].user = wk[v].user /\ wk'[v].attempt = wk[v].attempt
            /\ wk'[v].version = wk[v].version
    BY <1>1, <1>2, <1>3 DEF Working
  <2> QED
    BY <2>1, <1>3 DEF ClaimInv, Working
<1>6. VersionInv'
  <2>1. wk[w].saw >= wk[w].version
    <3>1. wk[w].saw \in Nat /\ wk[w].version \in Nat
      BY <1>1, BoundsAssumption DEF Worker
    <3> QED
      BY <1>1, <3>1 DEF VersionInv
  <2>2. \A v \in Workers : Working(v)' <=> Working(v)
    BY <1>1, <1>2, <1>3 DEF Working
  <2>3. \A v \in Users : revisions[v] \subseteq revisions'[v]
    BY <1>1, <1>3
  <2>4. \A v \in Workers : wk[v].pc = "published" => wk[v].user \in Users
    BY DEF ClaimInv, Working
  <2>5. ASSUME NEW x \in Workers, wk'[x].pc = "published"
        PROVE  \E v \in revisions'[wk'[x].user] : v >= wk'[x].version
    <3>1. CASE x = w
      BY <1>2, <1>3, <2>1, <3>1
    <3>2. CASE x # w
      BY <1>3, <2>3, <2>4, <2>5, <3>2 DEF VersionInv
    <3> QED
      BY <3>1, <3>2
  <2>6. \A x \in Workers : wk'[x].pc = "generating" => wk'[x].version <= wk'[x].saw
    BY <1>2, <1>3 DEF VersionInv
  <2>7. \A x \in Workers : Working(x)' => wk'[x].version <= row'[wk'[x].user].requested
    BY <1>2, <1>3, <2>2 DEF VersionInv
  <2> QED
    BY <2>5, <2>6, <2>7 DEF VersionInv
<1>7. ReadyWasPublished'
  BY <1>1, <1>3 DEF ReadyWasPublished
<1> QED
  BY <1>4, <1>5, <1>6, <1>7

\* The scheduled job only adds a revision to a briefing.
LEMMA DailyKeeps ==
  ASSUME IInv, (\E u \in Users : DailyLoads(u)) \/ DailyPublishes \/ DailyStops
  PROVE  IInv'
<1> USE DEF IInv
<1>1. UNCHANGED <<row, wk, req, fleet>>
  BY DEF DailyLoads, DailyPublishes, DailyStops
<1>2. NoDaily \in Daily /\ daily' \in Daily
  <2>1. NoDaily \in Daily
    <3>1. 0 \in 0 .. MaxVersion
      BY BoundsAssumption
    <3> QED
      BY <3>1, Zenon DEF NoDaily, Daily
  <2>2. ASSUME NEW u \in Users, DailyLoads(u) PROVE daily' \in Daily
    <3>1. row[u].requested \in 0 .. MaxVersion
      BY DEF TypeOK, Row
    <3> QED
      BY <2>2, <3>1, Zenon DEF DailyLoads, Daily
  <2> QED
    BY <2>1, <2>2 DEF DailyPublishes, DailyStops
<1>3. /\ revisions' \in [Users -> SUBSET (0 .. MaxVersion)]
      /\ \A u \in Users : revisions[u] \subseteq revisions'[u]
  <2>1. CASE UNCHANGED revisions
    BY <2>1 DEF TypeOK
  <2>2. CASE DailyPublishes
    <3>1. daily.saw \in 0 .. MaxVersion
      BY DEF TypeOK, Daily
    <3> QED
      BY <2>2, <3>1 DEF DailyPublishes, TypeOK
  <2> QED
    BY <2>1, <2>2 DEF DailyLoads, DailyStops
<1>4. TypeOK'
  BY <1>1, <1>2, <1>3 DEF TypeOK
<1>5. RequestInv' /\ ClaimInv'
  BY <1>1 DEF RequestInv, ClaimInv, Working
<1>6. VersionInv'
  <2>1. \A w \in Workers : wk[w].pc = "published" => wk[w].user \in Users
    BY DEF ClaimInv, Working
  <2> QED
    BY <1>1, <1>3, <2>1 DEF VersionInv, Working
<1>7. ReadyWasPublished'
  BY <1>1, <1>3 DEF ReadyWasPublished
<1> QED
  BY <1>4, <1>5, <1>6, <1>7

\* A report settles the row if it still names the consumer, and changes
\* nothing otherwise.
LEMMA ReportKeeps ==
  ASSUME IInv, NEW w \in Workers, wk[w].pc \in {"published", "failing"}, NEW x \in Row,
         row' = IF Holds(w) THEN [row EXCEPT ![wk[w].user] = x] ELSE row,
         x.worker = NoWorker, x.requested = row[wk[w].user].requested,
         \/ x.status \in {"queued", "failed"}
         \/ /\ x.status = "succeeded" /\ wk[w].pc = "published"
            /\ x.processing = row[wk[w].user].processing,
         wk' = [wk EXCEPT ![w] = Resting],
         UNCHANGED <<revisions, daily, req, fleet>>
  PROVE  IInv'
<1> USE DEF IInv
<1> DEFINE u == wk[w].user
<1>1. Resting \in Worker /\ Resting.pc = "idle"
  BY RestingTypes DEF Resting
<1>2. u \in Users /\ Working(w)
  BY DEF ClaimInv, Working
<1>3. CASE ~Holds(w)
  <2>1. \A v \in Users : row[v].worker # w
    BY <1>2, <1>3 DEF ClaimInv, Holds
  <2> QED
    BY <1>1, <1>2, <1>3, <2>1, WorkKeeps
<1>4. CASE Holds(w)
  <2>1. /\ row'[u] = x /\ \A v \in Users \ {u} : row'[v] = row[v]
        /\ wk'[w] = Resting /\ \A v \in Workers \ {w} : wk'[v] = wk[v]
        /\ row' \in [Users -> Row] /\ wk' \in [Workers -> Worker]
    BY <1>1, <1>2, <1>4 DEF TypeOK
  <2>2. TypeOK' /\ RequestInv'
    BY <2>1 DEF TypeOK, RequestInv
  <2>3. ClaimInv'
    BY <1>1, <1>2, <2>1, NullsAssumption DEF ClaimInv, Working
  <2>4. VersionInv'
    <3>1. \A v \in Users : row'[v].requested = row[v].requested
      BY <2>1
    <3> QED
      BY <1>1, <2>1, <3>1 DEF VersionInv, ClaimInv, Working
  <2>6. ReadyWasPublished'
    <3>1. row[u].worker = w /\ wk[w].version = row[u].processing
      BY <1>2, <1>4 DEF Holds, ClaimInv
    <3> QED
      BY <1>2, <2>1, <3>1 DEF ReadyWasPublished, VersionInv
  <2> QED
    BY <2>2, <2>3, <2>4, <2>6
<1> QED
  BY <1>3, <1>4

\* Every step of a consumer keeps the invariant.
LEMMA ConsumerKeeps ==
  ASSUME IInv, NEW w \in Workers, Proceed(w) \/ GenerationFails(w) \/ Crash(w)
  PROVE  IInv'
<1> USE DEF IInv
<1>0. wk[w] \in Worker
  BY DEF TypeOK
<1>1. ASSUME NEW u \in Users, ClaimNextRequest(w, u)
      PROVE  IInv'
  BY <1>1, ClaimKeeps
<1>2. CASE LoadPersonalization(w)
  <2> DEFINE u == wk[w].user
             y == [wk[w] EXCEPT !.pc = "generating", !.saw = row[u].requested]
  <2>1. /\ wk[w].pc = "claimed" /\ Working(w) /\ u \in Users
        /\ row[u].requested \in 0 .. MaxVersion
    BY <1>2 DEF LoadPersonalization, ClaimInv, Working, TypeOK, Row
  <2>2. /\ y \in Worker /\ y.pc = "generating" /\ y.user = u /\ y.attempt = wk[w].attempt
        /\ y.version = wk[w].version /\ y.saw = row[u].requested
    BY <1>0, <2>1, Zenon DEF Worker
  <2>3. wk[w].version <= row[u].requested
    BY <2>1 DEF VersionInv
  <2>4. wk' = [wk EXCEPT ![w] = y] /\ UNCHANGED <<row, revisions, daily, req, fleet>>
    BY <1>2 DEF LoadPersonalization
  <2> HIDE DEF y
  <2> QED
    BY <2>1, <2>2, <2>3, <2>4, WorkKeeps
<1>3. CASE PublishBriefing(w)
  BY <1>3, PublishKeeps
<1>4. CASE CompleteRequest(w)
  <2> DEFINE x == Completed(row[wk[w].user])
  <2>1. wk[w].pc = "published" /\ wk[w].user \in Users /\ row[wk[w].user] \in Row
    BY <1>4 DEF CompleteRequest, ClaimInv, Working, TypeOK
  <2>2. /\ x \in Row /\ x.worker = NoWorker /\ x.requested = row[wk[w].user].requested
        /\ \/ x.status = "queued"
           \/ x.status = "succeeded" /\ x.processing = row[wk[w].user].processing
    BY <2>1, CompletedFields
  <2>3. /\ row' = IF Holds(w) THEN [row EXCEPT ![wk[w].user] = x] ELSE row
        /\ wk' = [wk EXCEPT ![w] = Resting]
        /\ UNCHANGED <<revisions, daily, req, fleet>>
    BY <1>4 DEF CompleteRequest
  <2> HIDE DEF x
  <2> QED
    BY <2>1, <2>2, <2>3, ReportKeeps
<1>5. CASE RetryOrFail(w)
  <2> DEFINE x == Retried(row[wk[w].user], wk[w].attempt)
  <2>1. wk[w].pc = "failing" /\ wk[w].user \in Users /\ row[wk[w].user] \in Row
    BY <1>5 DEF RetryOrFail, ClaimInv, Working, TypeOK
  <2>2. /\ x \in Row /\ x.worker = NoWorker /\ x.requested = row[wk[w].user].requested
        /\ x.status \in {"queued", "failed"}
    BY <2>1, RetriedFields
  <2>3. /\ row' = IF Holds(w) THEN [row EXCEPT ![wk[w].user] = x] ELSE row
        /\ wk' = [wk EXCEPT ![w] = Resting]
        /\ UNCHANGED <<revisions, daily, req, fleet>>
    BY <1>5 DEF RetryOrFail
  <2> HIDE DEF x
  <2> QED
    BY <2>1, <2>2, <2>3, ReportKeeps
<1>6. CASE GenerationFails(w)
  <2> DEFINE y == [wk[w] EXCEPT !.pc = "failing"]
  <2>1. /\ y \in Worker /\ y.pc = "failing" /\ y.user = wk[w].user
        /\ y.attempt = wk[w].attempt /\ y.version = wk[w].version
    BY <1>0, MovedFields
  <2>2. /\ wk' = [wk EXCEPT ![w] = y] /\ Working(w)
        /\ wk[w].pc # "stopped" /\ UNCHANGED <<row, revisions, daily, req, fleet>>
    BY <1>6 DEF GenerationFails, Working
  <2> HIDE DEF y
  <2> QED
    BY <2>1, <2>2, WorkKeeps
<1>7. CASE Crash(w)
  <2>1. Stopped \in Worker /\ Stopped.pc = "stopped"
    BY RestingTypes DEF Stopped
  <2> QED
    BY <1>7, <2>1, WorkKeeps DEF Crash
<1> QED
  BY <1>1, <1>2, <1>3, <1>4, <1>5, <1>6, <1>7 DEF Proceed

\* Time passes for a row: the claim and the versions stay.
LEMMA TimeKeeps ==
  ASSUME IInv, NEW u \in Users, ClaimGoesStale(u) \/ RetryBecomesDue(u)
  PROVE  IInv'
<1> USE DEF IInv
<1>1. PICK x \in {[row[u] EXCEPT !.stale = TRUE], [row[u] EXCEPT !.due = TRUE]} :
          row' = [row EXCEPT ![u] = x] /\ UNCHANGED <<revisions, daily, wk, req, fleet>>
  BY DEF ClaimGoesStale, RetryBecomesDue
<1>2. row[u] \in Row
  BY DEF TypeOK
<1>3. /\ x \in Row /\ x.status = row[u].status /\ x.worker = row[u].worker
      /\ x.attempts = row[u].attempts /\ x.requested = row[u].requested
      /\ x.processing = row[u].processing
  BY <1>1, <1>2, AgedFields
<1>4. /\ row' \in [Users -> Row]
      /\ \A v \in Users :
            /\ row'[v].status = row[v].status /\ row'[v].worker = row[v].worker
            /\ row'[v].attempts = row[v].attempts /\ row'[v].requested = row[v].requested
            /\ row'[v].processing = row[v].processing
  BY <1>1, <1>3 DEF TypeOK
<1>5. TypeOK' /\ RequestInv'
  BY <1>1, <1>4 DEF TypeOK, RequestInv
<1>6. ClaimInv' /\ ReadyWasPublished'
  BY <1>1, <1>4 DEF ClaimInv, Working, ReadyWasPublished
<1>7. VersionInv'
  BY <1>1, <1>4 DEF VersionInv, Working, ClaimInv
<1> QED
  BY <1>5, <1>6, <1>7

\* The invariant is inductive.
LEMMA StepIInv == IInv /\ [Next]_vars => IInv'
<1> SUFFICES ASSUME IInv, [Next]_vars PROVE IInv'
  OBVIOUS
<1>1. ASSUME NEW q \in Requests, Enqueue(q) PROVE IInv'
  BY <1>1, EnqueueKeeps
<1>2. ASSUME NEW w \in Workers, StartWorker(w) PROVE IInv'
  BY <1>2, StartKeeps
<1>3. ASSUME NEW w \in Workers, Proceed(w) \/ GenerationFails(w) \/ Crash(w) PROVE IInv'
  BY <1>3, ConsumerKeeps
<1>4. ASSUME NEW u \in Users, ClaimGoesStale(u) \/ RetryBecomesDue(u) PROVE IInv'
  BY <1>4, TimeKeeps
<1>5. CASE UNCHANGED vars
  BY <1>5 DEF vars, IInv, TypeOK, RequestInv, ClaimInv, VersionInv, ReadyWasPublished, Working
<1>6. ASSUME (\E u \in Users : DailyLoads(u)) \/ DailyPublishes \/ DailyStops PROVE IInv'
  BY <1>6, DailyKeeps
<1> QED
  BY <1>1, <1>2, <1>3, <1>4, <1>5, <1>6 DEF Next

\* The invariant holds in every reachable state.
LEMMA Inductive == Spec => []IInv
BY InitIInv, StepIInv, PTL DEF Spec

-----------------------------------------------------------------------------
(* The results.                                                              *)

\* Attempts stay within MAX_ATTEMPTS and no version is beyond those requested.
THEOREM TypeCorrect == Spec => []TypeOK
<1>1. IInv => TypeOK
  BY DEF IInv
<1> QED
  BY <1>1, Inductive, PTL

\* A consumer reports on the row only about its own claim: while the row names
\* it, attempt and version are those it works on, however often the row was
\* taken over (complete_request, retry_or_fail).
THEOREM ReportsAreCurrent == Spec => []ClaimCurrent
<1>1. IInv => ClaimCurrent
  BY DEF IInv, ClaimInv, ClaimCurrent, Working
<1> QED
  BY <1>1, Inductive, PTL

\* Requests of any number of callers never share a version
\* (enqueueBriefingRefresh under its advisory lock).
THEOREM RequestsAreCounted == Spec => EveryRequestCounts
<1> DEFINE Counts ==
      \A q \in Requests :
          req[q].pc = "update" /\ UpdateRow(q)
              => row'[req[q].user].requested = row[req[q].user].requested + 1
<1>1. IInv => [Counts]_vars
  BY UpdateKeeps
<1>2. Spec => [][Counts]_vars
  BY <1>1, Inductive, PTL
<1> QED
  BY <1>2 DEF EveryRequestCounts

\* A row that says ready has a published revision for the version it was
\* claimed for, or a newer one: a report of a consumer that was overtaken
\* settles nothing (complete_request), whoever publishes beside.
THEOREM ReadyIsPublished == Spec => []ReadyWasPublished
<1>1. IInv => ReadyWasPublished
  BY DEF IInv
<1> QED
  BY <1>1, Inductive, PTL
=============================================================================
