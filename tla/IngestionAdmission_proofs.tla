---------------------- MODULE IngestionAdmission_proofs ----------------------
(* Proofs about IngestionAdmission, for any number of rows, users,           *)
(* instruments and concurrent requests, and any limits.                      *)
EXTENDS IngestionAdmission, FiniteSetTheorems, TLAPS

-----------------------------------------------------------------------------
(* The inductive invariant.                                                  *)

\* A try that has not started is within the budget, and asks for a target.
TriesInv ==
    \A c \in Clients :
        /\ tx[c].pc # "idle" => tx[c].target \in Targets
        /\ tx[c].pc = "start" => tx[c].tries < MaxTries

\* Every row that exists has a target.
TargetInv == \A r \in Existing : row[r].target \in Targets

\* While no submission committed beside it, a call knows of every active row:
\* it is in its snapshot, or somebody else made it active since.
SnapshotInv ==
    \A c \in Clients : Reading(c) =>
        /\ tx[c].active \subseteq Existing
        /\ Serializable(c) => ActiveRows \subseteq tx[c].active \cup tx[c].outside

\* What a transaction found in its snapshot still stands when it inserts.
UnansweredInv == \A c \in Clients : tx[c].pc = "insert" => ~Answered(c)

IInv ==
    /\ TypeOK
    /\ TriesInv
    /\ TargetInv
    /\ IsFiniteSet(Existing)
    /\ SnapshotInv
    /\ UnansweredInv

\* Nobody has a snapshot at first.
LEMMA InitIInv == Init => IInv
<1> SUFFICES ASSUME Init PROVE IInv
  OBVIOUS
<1> USE DEF Init
<1>1. TypeOK
  <2>1. Idle \in Tx
    <3>1. 0 \in 0 .. MaxTries
      BY LimitsAssumption
    <3> QED
      BY <3>1, Zenon DEF Idle, Tx
  <2>2. [status |-> "absent", target |-> NoTarget] \in Row
    BY Zenon DEF Row
  <2> QED
    BY <2>1, <2>2 DEF TypeOK
<1>2. TriesInv /\ SnapshotInv /\ UnansweredInv
  BY DEF TriesInv, SnapshotInv, UnansweredInv, Reading, Idle
<1>3. Existing = {}
  BY DEF Existing
<1> QED
  BY <1>1, <1>2, <1>3, FS_EmptySet DEF IInv, TargetInv

-----------------------------------------------------------------------------
(* Steps that leave the rows alone.                                          *)

\* The fields of a call that ends, or starts another try.
LEMMA IdleFacts == Idle \in Tx /\ Idle.pc = "idle"
<1>1. 0 \in 0 .. MaxTries
  BY LimitsAssumption
<1> QED
  BY <1>1, Zenon DEF Idle, Tx

LEMMA StartedFacts ==
  ASSUME NEW t \in Targets, NEW tries \in 0 .. MaxTries
  PROVE  /\ Started(t, tries) \in Tx /\ Started(t, tries).pc = "start"
         /\ Started(t, tries).target = t /\ Started(t, tries).tries = tries
BY SMT DEF Started, Tx

\* What a call must know to be where x says.
Informed(c, x) ==
    /\ x.pc # "idle" => x.target \in Targets
    /\ x.pc = "start" => x.tries < MaxTries
    /\ x.pc \in {"waiting", "deduplicate", "insert"} =>
          /\ x.active \subseteq Existing
          /\ ~x.beside => ActiveRows \subseteq x.active \cup x.outside
    /\ x.pc = "insert" => x.active = tx[c].active /\ x.target = tx[c].target /\ ~Answered(c)

\* A call that takes a step of its own: what its snapshot says must be right.
LEMMA CallKeeps ==
  ASSUME IInv, NEW c \in Clients, NEW x \in Tx, tx' = [tx EXCEPT ![c] = x],
         UNCHANGED row, lock' \in [Targets -> Clients \cup {NoClient}], Informed(c, x)
  PROVE  IInv'
<1> USE DEF IInv, Informed
<1>1. tx'[c] = x /\ \A d \in Clients \ {c} : tx'[d] = tx[d]
  BY DEF TypeOK
<1>2. TypeOK'
  BY DEF TypeOK
<1>3. TriesInv'
  BY <1>1 DEF TriesInv
<1>4. Existing' = Existing /\ ActiveRows' = ActiveRows /\ TargetInv'
  BY DEF Existing, ActiveRows, TargetInv
<1>5. SnapshotInv'
  BY <1>1, <1>4 DEF SnapshotInv, Reading, Serializable
<1>6. UnansweredInv'
  <2>1. \A d \in Clients \ {c} : Answered(d)' <=> Answered(d)
    BY <1>1 DEF Answered, OfUser
  <2>2. x.pc = "insert" => (Answered(c)' <=> Answered(c))
    BY <1>1 DEF Answered, OfUser
  <2> QED
    BY <1>1, <2>1, <2>2 DEF UnansweredInv
<1> QED
  BY <1>2, <1>3, <1>4, <1>5, <1>6

\* A call that ends releases its lock and forgets its snapshot.
LEMMA EndKeeps ==
  ASSUME IInv, NEW c \in Clients, tx' = [tx EXCEPT ![c] = Idle], Release(c), UNCHANGED row
  PROVE  IInv'
<1>1. lock' \in [Targets -> Clients \cup {NoClient}]
  BY DEF Release, IInv, TypeOK
<1>2. Informed(c, Idle)
  BY IdleFacts DEF Informed
<1> QED
  BY <1>1, <1>2, IdleFacts, CallKeeps

-----------------------------------------------------------------------------
(* Steps that change a row.                                                  *)

\* A row becomes active, and each call with a snapshot is marked for it: by
\* the detection of conflicts, or as one that somebody else made active.
LEMMA ActivationKeeps ==
  ASSUME IInv, NEW r \in Rows, NEW t \in Targets,
         row' = [row EXCEPT ![r] = [status |-> "queued", target |-> t]],
         r \in Existing => row[r].target = t,
         tx' \in [Clients -> Tx],
         lock' \in [Targets -> Clients \cup {NoClient}],
         \A d \in Clients :
             \/ tx'[d].pc = "idle"
             \/ ~Reading(d) /\ tx'[d] = tx[d]
             \/ /\ Reading(d)
                /\ tx'[d].pc = tx[d].pc /\ tx'[d].target = tx[d].target
                /\ tx'[d].tries = tx[d].tries /\ tx'[d].active = tx[d].active
                /\ \/ tx'[d].beside
                   \/ tx'[d].beside = tx[d].beside /\ tx'[d].outside = tx[d].outside \cup {r}
  PROVE  IInv'
<1> USE DEF IInv
<1>1. [status |-> "queued", target |-> t] \in Row
  BY Zenon DEF Row
<1>2. /\ row'[r].status = "queued" /\ row'[r].target = t
      /\ \A s \in Rows \ {r} : row'[s] = row[s]
      /\ row' \in [Rows -> Row]
  BY <1>1 DEF TypeOK
<1>3. TypeOK'
  BY <1>2 DEF TypeOK
<1>4. TriesInv'
  BY DEF TriesInv, Reading
<1>5. Existing' = Existing \cup {r} /\ ActiveRows' = ActiveRows \cup {r}
  BY <1>2 DEF Existing, ActiveRows
<1>6. IsFiniteSet(Existing') /\ TargetInv'
  <2>1. IsFiniteSet(Existing')
    BY <1>5, FS_AddElement
  <2>2. TargetInv'
    BY <1>2, <1>5 DEF TargetInv, Existing
  <2> QED
    BY <2>1, <2>2
<1>7. SnapshotInv'
  <2> SUFFICES ASSUME NEW d \in Clients, Reading(d)'
      PROVE  /\ tx'[d].active \subseteq Existing'
             /\ Serializable(d)' => ActiveRows' \subseteq tx'[d].active \cup tx'[d].outside
    BY DEF SnapshotInv
  <2>1. Reading(d) /\ tx'[d].active = tx[d].active
    BY DEF Reading
  <2>2. tx[d].active \subseteq Existing
    BY <2>1 DEF SnapshotInv
  <2>3. ASSUME Serializable(d)'
        PROVE  ActiveRows' \subseteq tx'[d].active \cup tx'[d].outside
    <3>1. Serializable(d) /\ tx'[d].outside = tx[d].outside \cup {r}
      BY <2>1, <2>3 DEF Serializable, Reading
    <3>2. ActiveRows \subseteq tx[d].active \cup tx[d].outside
      BY <2>1, <3>1 DEF SnapshotInv
    <3> QED
      BY <1>5, <2>1, <3>1, <3>2
  <2> QED
    BY <1>5, <2>1, <2>2, <2>3
<1>8. UnansweredInv'
  <2> SUFFICES ASSUME NEW d \in Clients, tx'[d].pc = "insert" PROVE ~Answered(d)'
    BY DEF UnansweredInv
  <2>1. /\ Reading(d) /\ tx[d].pc = "insert" /\ tx'[d].active = tx[d].active
        /\ tx'[d].target = tx[d].target
    BY DEF Reading
  <2>2. ~Answered(d) /\ tx[d].active \subseteq Existing
    BY <2>1 DEF UnansweredInv, SnapshotInv
  <2>3. \A s \in tx[d].active : row'[s].target = row[s].target
    BY <1>2, <2>2 DEF Existing
  <2>4. OfUser(tx[d].active, tx[d].target[1])' = OfUser(tx[d].active, tx[d].target[1])
    <3> DEFINE seen == tx[d].active
               u == tx[d].target[1]
    <3>1. {s \in seen : row'[s].target[1] = u} = {s \in seen : row[s].target[1] = u}
      BY <2>3
    <3> QED
      BY <2>1, <3>1 DEF OfUser
  <2>5. Answered(d)' <=> Answered(d)
    BY <2>1, <2>3, <2>4 DEF Answered
  <2> QED
    BY <2>2, <2>5
<1> QED
  BY <1>3, <1>4, <1>6, <1>7, <1>8

\* The insertion of a submission.
LEMMA InsertKeeps ==
  ASSUME IInv, NEW c \in Clients, NEW r \in Rows, InsertRequest(c, r)
  PROVE  IInv'
<1> DEFINE t == tx[c].target
<1>1. /\ t \in Targets /\ r \notin Existing
      /\ row' = [row EXCEPT ![r] = [status |-> "queued", target |-> t]]
  BY DEF InsertRequest, Fresh, Existing, IInv, TriesInv
<1>2. \A d \in Clients : [tx[d] EXCEPT !.beside = TRUE] \in Tx
  <2> SUFFICES ASSUME NEW d \in Clients PROVE [tx[d] EXCEPT !.beside = TRUE] \in Tx
    OBVIOUS
  <2>1. tx[d] \in Tx
    BY DEF IInv, TypeOK
  <2> QED
    BY <2>1, Zenon DEF Tx
<1>3. tx' \in [Clients -> Tx]
  <2>1. \A d \in Clients : tx[d] \in Tx
    BY DEF IInv, TypeOK
  <2>2. tx' = [d \in Clients |-> IF d = c THEN Idle
                               ELSE IF Reading(d) THEN [tx[d] EXCEPT !.beside = TRUE]
                               ELSE tx[d]]
    BY DEF InsertRequest, Committed
  <2> QED
    BY <1>2, <2>1, <2>2, IdleFacts
<1>4. lock' \in [Targets -> Clients \cup {NoClient}]
  BY DEF InsertRequest, Release, IInv, TypeOK
<1>5. ASSUME NEW d \in Clients
      PROVE  \/ tx'[d].pc = "idle"
             \/ ~Reading(d) /\ tx'[d] = tx[d]
             \/ /\ Reading(d)
                /\ tx'[d].pc = tx[d].pc /\ tx'[d].target = tx[d].target
                /\ tx'[d].tries = tx[d].tries /\ tx'[d].active = tx[d].active
                /\ \/ tx'[d].beside
                   \/ tx'[d].beside = tx[d].beside /\ tx'[d].outside = tx[d].outside \cup {r}
  <2>1. tx[d] \in Tx
    BY DEF IInv, TypeOK
  <2>2. CASE d = c
    BY <2>2, IdleFacts DEF InsertRequest, Committed
  <2>3. CASE d # c /\ Reading(d)
    <3>1. tx'[d] = [tx[d] EXCEPT !.beside = TRUE]
      BY <2>3 DEF InsertRequest, Committed
    <3> QED
      BY <2>1, <2>3, <3>1 DEF Tx
  <2>4. CASE d # c /\ ~Reading(d)
    BY <2>4 DEF InsertRequest, Committed
  <2> QED
    BY <2>2, <2>3, <2>4
<1> HIDE DEF t
<1> QED
  BY <1>1, <1>3, <1>4, <1>5, ActivationKeeps

\* The requeue and the due queue.
LEMMA OutsideKeeps ==
  ASSUME IInv, NEW r \in Rows, NEW t \in Targets, OutsideWrite(r, t),
         r \in Existing => row[r].target = t
  PROVE  IInv'
<1>1. /\ row' = [row EXCEPT ![r] = [status |-> "queued", target |-> t]]
      /\ lock' \in [Targets -> Clients \cup {NoClient}]
  BY DEF OutsideWrite, IInv, TypeOK
<1>2. ASSUME NEW d \in Clients
      PROVE  /\ tx'[d] \in Tx
             /\ ~Reading(d) => tx'[d] = tx[d]
             /\ Reading(d) =>
                  /\ tx'[d].pc = tx[d].pc /\ tx'[d].target = tx[d].target
                  /\ tx'[d].tries = tx[d].tries /\ tx'[d].active = tx[d].active
                  /\ tx'[d].beside = tx[d].beside
                  /\ tx'[d].outside = tx[d].outside \cup {r}
  <2>1. tx[d] \in Tx /\ tx[d].outside \cup {r} \in SUBSET Rows
    BY DEF IInv, TypeOK, Tx
  <2>2. CASE Reading(d)
    <3>1. tx'[d] = [tx[d] EXCEPT !.outside = @ \cup {r}]
      BY <2>2 DEF OutsideWrite
    <3>2. tx'[d] = [pc |-> tx[d].pc, target |-> tx[d].target, tries |-> tx[d].tries,
                    active |-> tx[d].active, beside |-> tx[d].beside,
                    outside |-> tx[d].outside \cup {r}]
      BY <2>1, <3>1 DEF Tx
    <3>3. /\ tx'[d].pc = tx[d].pc /\ tx'[d].target = tx[d].target
          /\ tx'[d].tries = tx[d].tries /\ tx'[d].active = tx[d].active
          /\ tx'[d].beside = tx[d].beside
          /\ tx'[d].outside = tx[d].outside \cup {r}
      BY <3>2
    <3>4. tx'[d] \in Tx
      BY <2>1, <3>2 DEF Tx
    <3> QED
      BY <2>2, <3>3, <3>4
  <2>3. CASE ~Reading(d)
    BY <2>1, <2>3 DEF OutsideWrite
  <2> QED
    BY <2>2, <2>3
<1>3. tx' \in [Clients -> Tx]
  BY <1>2 DEF OutsideWrite
<1> QED
  BY <1>1, <1>2, <1>3, ActivationKeeps

\* The worker makes no row active that was not, and moves no target.
LEMMA WorkKeeps ==
  ASSUME IInv, NEW r \in Rows, Work(r)
  PROVE  IInv'
<1> USE DEF IInv
<1>1. PICK status \in {"queued", "running", "succeeded", "failed"} :
          row' = [row EXCEPT ![r].status = status]
  BY DEF Work
<1>2. row[r] \in Row /\ row[r].status \in {"queued", "running"} /\ UNCHANGED <<tx, lock>>
  BY DEF Work, TypeOK
<1>3. [row[r] EXCEPT !.status = status] \in Row
  BY <1>2, Zenon DEF Row
<1>4. /\ \A s \in Rows : row'[s].target = row[s].target
      /\ \A s \in Rows \ {r} : row'[s] = row[s]
      /\ row'[r].status = status
      /\ row' \in [Rows -> Row]
  BY <1>1, <1>2, <1>3 DEF TypeOK, Row
<1>5. TypeOK' /\ TriesInv'
  BY <1>2, <1>4 DEF TypeOK, TriesInv
<1>6. Existing' = Existing /\ ActiveRows' \subseteq ActiveRows /\ TargetInv'
  BY <1>2, <1>4 DEF Existing, ActiveRows, TargetInv
<1>7. SnapshotInv'
  BY <1>2, <1>6 DEF SnapshotInv, Reading, Serializable
<1>8. UnansweredInv'
  <2>1. \A c \in Clients : tx[c].active \subseteq Rows
    BY DEF TypeOK, Tx
  <2>2. \A c \in Clients : Answered(c)' <=> Answered(c)
    BY <1>2, <1>4, <2>1 DEF Answered, OfUser
  <2> QED
    BY <1>2, <2>2 DEF UnansweredInv
<1> QED
  BY <1>5, <1>6, <1>7, <1>8

\* A row that nobody looks at goes away.
LEMMA RecycleKeeps ==
  ASSUME IInv, NEW r \in Rows, Recycle(r)
  PROVE  IInv'
<1> USE DEF IInv
<1>1. /\ row[r].status \in {"succeeded", "failed"} /\ \A c \in Clients : tx[c].pc = "idle"
      /\ UNCHANGED <<tx, lock>>
  BY DEF Recycle
<1>2. [status |-> "absent", target |-> NoTarget] \in Row
  BY Zenon DEF Row
<1>3. /\ row'[r].status = "absent" /\ \A s \in Rows \ {r} : row'[s] = row[s]
      /\ row' \in [Rows -> Row]
  BY <1>2 DEF Recycle, TypeOK
<1>4. TypeOK' /\ TriesInv'
  BY <1>1, <1>3 DEF TypeOK, TriesInv
<1>5. SnapshotInv' /\ UnansweredInv'
  BY <1>1 DEF SnapshotInv, UnansweredInv, Reading
<1>6. Existing' \subseteq Existing /\ TargetInv'
  BY <1>3 DEF Existing, TargetInv
<1>7. IsFiniteSet(Existing')
  BY <1>6, FS_Subset
<1> QED
  BY <1>4, <1>5, <1>6, <1>7

-----------------------------------------------------------------------------
\* The invariant is inductive: one case for each action.
LEMMA StepIInv == IInv /\ [Next]_vars => IInv'
<1> SUFFICES ASSUME IInv, [Next]_vars PROVE IInv'
  OBVIOUS
<1>1. ASSUME NEW c \in Clients, NEW t \in Targets, Request(c, t)
      PROVE  IInv'
  <2>1. 0 \in 0 .. MaxTries /\ 0 < MaxTries
    BY LimitsAssumption
  <2>2. tx' = [tx EXCEPT ![c] = Started(t, 0)] /\ UNCHANGED <<row, lock>>
    BY <1>1 DEF Request
  <2>3. lock' \in [Targets -> Clients \cup {NoClient}]
    BY <2>2 DEF IInv, TypeOK
  <2>4. Started(t, 0) \in Tx /\ Informed(c, Started(t, 0))
    BY <2>1, StartedFacts DEF Informed
  <2> QED
    BY <2>2, <2>3, <2>4, CallKeeps
<1>2. ASSUME NEW c \in Clients, Begin(c)
      PROVE  IInv'
  <2> DEFINE x == [pc |-> "waiting", target |-> tx[c].target, tries |-> tx[c].tries + 1,
                   active |-> FoundRows, beside |-> FALSE, outside |-> {}]
  <2>1. /\ tx[c].target \in Targets /\ tx[c].tries + 1 \in 0 .. MaxTries
        /\ FoundRows = ActiveRows /\ ActiveRows \subseteq Existing /\ Existing \subseteq Rows
    BY <1>2, LimitsAssumption
    DEF Begin, IInv, TriesInv, TypeOK, Tx, Existing, ActiveRows, FoundRows
  <2>2. x \in Tx
    BY <2>1, Zenon DEF Tx
  <2>3. tx' = [tx EXCEPT ![c] = x] /\ UNCHANGED <<row, lock>>
    BY <1>2 DEF Begin
  <2>4. lock' \in [Targets -> Clients \cup {NoClient}]
    BY <2>3 DEF IInv, TypeOK
  <2>5. Informed(c, x)
    BY <2>1 DEF Informed
  <2> HIDE DEF x
  <2> QED
    BY <2>2, <2>3, <2>4, <2>5, CallKeeps
<1>3. ASSUME NEW c \in Clients, LockTarget(c)
      PROVE  IInv'
  <2> DEFINE x == [tx[c] EXCEPT !.pc = "deduplicate"]
  <2>1. /\ tx[c] \in Tx /\ tx[c].pc = "waiting" /\ tx[c].target \in Targets
        /\ UNCHANGED row
    BY <1>3 DEF LockTarget, IInv, TypeOK, TriesInv
  <2>2. /\ x \in Tx /\ x.pc = "deduplicate" /\ x.target = tx[c].target
        /\ x.active = tx[c].active /\ x.beside = tx[c].beside /\ x.outside = tx[c].outside
    BY <2>1, Zenon DEF Tx
  <2>3. tx' = [tx EXCEPT ![c] = x] /\ lock' \in [Targets -> Clients \cup {NoClient}]
    BY <1>3, <2>1 DEF LockTarget, IInv, TypeOK
  <2>4. Informed(c, x)
    BY <2>1, <2>2 DEF Informed, IInv, SnapshotInv, Reading, Serializable
  <2> HIDE DEF x
  <2> QED
    BY <2>1, <2>2, <2>3, <2>4, CallKeeps
<1>4. ASSUME NEW c \in Clients, FindActive(c)
      PROVE  IInv'
  <2>1. CASE Answered(c)
    BY <1>4, <2>1, EndKeeps DEF FindActive
  <2>2. CASE ~Answered(c)
    <3> DEFINE x == [tx[c] EXCEPT !.pc = "insert"]
    <3>1. /\ tx[c] \in Tx /\ tx[c].pc = "deduplicate" /\ tx[c].target \in Targets
          /\ UNCHANGED row
      BY <1>4 DEF FindActive, IInv, TypeOK, TriesInv
    <3>2. /\ x \in Tx /\ x.pc = "insert" /\ x.target = tx[c].target
          /\ x.active = tx[c].active /\ x.beside = tx[c].beside /\ x.outside = tx[c].outside
      BY <3>1, Zenon DEF Tx
    <3>3. tx' = [tx EXCEPT ![c] = x] /\ lock' \in [Targets -> Clients \cup {NoClient}]
      BY <1>4, <2>2 DEF FindActive, IInv, TypeOK
    <3>4. Informed(c, x)
      BY <2>2, <3>1, <3>2 DEF Informed, IInv, SnapshotInv, Reading, Serializable
    <3> HIDE DEF x
    <3> QED
      BY <3>1, <3>2, <3>3, <3>4, CallKeeps
  <2> QED
    BY <2>1, <2>2
<1>5. ASSUME NEW c \in Clients, NEW r \in Rows, InsertRequest(c, r)
      PROVE  IInv'
  BY <1>5, InsertKeeps
<1>6. ASSUME NEW c \in Clients, Retry(c)
      PROVE  IInv'
  <2>1. CASE tx[c].tries < MaxTries
    <3> DEFINE x == Started(tx[c].target, tx[c].tries)
    <3>1. tx[c].tries \in 0 .. MaxTries /\ tx[c].target \in Targets /\ UNCHANGED row
      BY <1>6 DEF Retry, IInv, TypeOK, TriesInv, Tx
    <3>2. x \in Tx /\ Informed(c, x)
      BY <2>1, <3>1, StartedFacts DEF Informed
    <3>3. tx' = [tx EXCEPT ![c] = x] /\ lock' \in [Targets -> Clients \cup {NoClient}]
      BY <1>6, <2>1 DEF Retry, NextTry, Release, IInv, TypeOK
    <3> HIDE DEF x
    <3> QED
      BY <3>1, <3>2, <3>3, CallKeeps
  <2>2. CASE ~(tx[c].tries < MaxTries)
    BY <1>6, <2>2, EndKeeps DEF Retry, NextTry, IInv, TypeOK
  <2> QED
    BY <2>1, <2>2
<1>7. ASSUME NEW c \in Clients, Abort(c) \/ RefuseDuplicate(c)
      PROVE  IInv'
  BY <1>7, EndKeeps DEF Abort, RefuseDuplicate
<1>8. ASSUME NEW r \in Rows, Work(r) \/ Recycle(r)
      PROVE  IInv'
  BY <1>8, WorkKeeps, RecycleKeeps
<1>9. ASSUME NEW r \in Rows, Requeue(r)
      PROVE  IInv'
  <2>1. row[r] \in Row /\ row[r].status = "failed" /\ OutsideWrite(r, row[r].target)
    BY <1>9 DEF Requeue, IInv, TypeOK
  <2>2. row[r].target \in Targets
    BY <2>1 DEF IInv, TargetInv, Existing
  <2> QED
    BY <2>1, <2>2, OutsideKeeps
<1>10. ASSUME NEW r \in Rows, NEW t \in Targets, QueueDue(r, t)
       PROVE  IInv'
  <2>1. r \notin Existing /\ OutsideWrite(r, t)
    BY <1>10 DEF QueueDue, Fresh, Existing
  <2> QED
    BY <2>1, OutsideKeeps
<1>11. CASE UNCHANGED vars
  BY <1>11 DEF vars, IInv, TypeOK, TriesInv, TargetInv, SnapshotInv, UnansweredInv, Reading,
     Answered, OfUser, Existing, ActiveRows, Serializable
<1> QED
  BY <1>1, <1>2, <1>3, <1>4, <1>5, <1>6, <1>7, <1>8, <1>9, <1>10, <1>11 DEF Next, Proceed

\* The invariant holds in every reachable state.
LEMMA Inductive == Spec => []IInv
BY InitIInv, StepIInv, PTL DEF Spec

-----------------------------------------------------------------------------
(* The results.                                                              *)

\* No call goes beyond the budget of its retries.
THEOREM TypeCorrect == Spec => []TypeOK
<1>1. IInv => TypeOK
  BY DEF IInv
<1> QED
  BY <1>1, Inductive, PTL

\* What the unique index refuses a submission for was not inserted by another
\* submission (requestMarketIngestion): the snapshot that is older than the
\* lock is made up for by the conflict detection.
THEOREM OthersRefuse == Spec => []RefusedForOthers
<1>1. IInv => RefusedForOthers
  <2> SUFFICES ASSUME IInv, NEW c \in Clients, tx[c].pc = "insert", Serializable(c),
                      NEW s \in Twins(tx[c].target)
      PROVE  s \in tx[c].outside
    BY DEF RefusedForOthers
  <2>1. s \in ActiveRows /\ row[s].target = tx[c].target
    BY DEF Twins
  <2>2. s \in tx[c].active \cup tx[c].outside
    BY <2>1 DEF IInv, SnapshotInv, Reading
  <2>3. s \notin tx[c].active
    BY <2>1 DEF IInv, UnansweredInv, Answered
  <2> QED
    BY <2>2, <2>3
<1> QED
  BY <1>1, Inductive, PTL

\* A submission is inserted below the limits of its user and of the
\* organization, for any limits and any number of concurrent submissions, but
\* for the rows the worker and the synchronization made active meanwhile.
THEOREM Limited == Spec => []AdmittedWithinLimits
<1>1. IInv => AdmittedWithinLimits
  <2> SUFFICES ASSUME IInv, NEW c \in Clients, tx[c].pc = "insert", Serializable(c)
      PROVE  /\ Cardinality(ActiveRows \ tx[c].outside) < OrgLimit
             /\ Cardinality(OfUser(ActiveRows \ tx[c].outside, tx[c].target[1])) < UserLimit
    BY DEF AdmittedWithinLimits
  <2> DEFINE counted == tx[c].active
             found == ActiveRows \ tx[c].outside
             u == tx[c].target[1]
  <2>1. found \subseteq counted /\ counted \subseteq Existing /\ IsFiniteSet(Existing)
    BY DEF IInv, SnapshotInv, Reading
  <2>2. OfUser(found, u) \subseteq OfUser(counted, u) /\ OfUser(counted, u) \subseteq counted
    BY <2>1 DEF OfUser
  <2>3. ~(Cardinality(counted) >= OrgLimit) /\ ~(Cardinality(OfUser(counted, u)) >= UserLimit)
    BY DEF IInv, UnansweredInv, Answered
  <2> HIDE DEF counted, found, u
  <2>4. IsFiniteSet(counted)
    BY <2>1, FS_Subset
  <2>5. IsFiniteSet(OfUser(counted, u))
    BY <2>2, <2>4, FS_Subset
  <2>6. /\ IsFiniteSet(found) /\ Cardinality(found) <= Cardinality(counted)
        /\ IsFiniteSet(OfUser(found, u))
        /\ Cardinality(OfUser(found, u)) <= Cardinality(OfUser(counted, u))
    BY <2>1, <2>2, <2>4, <2>5, FS_Subset
  <2>7. /\ Cardinality(found) \in Nat /\ Cardinality(counted) \in Nat
        /\ Cardinality(OfUser(found, u)) \in Nat /\ Cardinality(OfUser(counted, u)) \in Nat
    BY <2>4, <2>5, <2>6, FS_CardinalityType
  <2>8. Cardinality(found) < OrgLimit /\ Cardinality(OfUser(found, u)) < UserLimit
    BY <2>3, <2>6, <2>7, LimitsAssumption
  <2> QED
    BY <2>8 DEF found, u
<1> QED
  BY <1>1, Inductive, PTL
=============================================================================
