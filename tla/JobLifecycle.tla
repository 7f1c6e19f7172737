---------------------------- MODULE JobLifecycle ----------------------------
(***************************************************************************)
(* What the queue of backtests promises to a tenant, without workers,      *)
(* leases or retries: a job is submitted once per key, may be asked to     *)
(* stop, and settles exactly once; only a success leaves a result, and a   *)
(* job that was asked to stop can only end up cancelled.                   *)
(***************************************************************************)
CONSTANTS
    Jobs,   \* identities of jobs
    Keys,   \* tenant and fingerprint of the request
    NoKey   \* the key of a job that was not submitted

VARIABLE job

Outcomes == {"succeeded", "failed", "cancelled", "timed_out"}

States == {"none", "open", "stopping"} \cup Outcomes

Unsubmitted == [state |-> "none", key |-> NoKey, result |-> FALSE]

Answers(x, k) == x.state \in {"open", "succeeded"} /\ x.key = k

Init == job = [j \in Jobs |-> Unsubmitted]

\* A submission is a new job only when no job already answers its key.
Submit(j) ==
    /\ job[j] = Unsubmitted
    /\ \E k \in Keys :
          /\ job'[j] = [state |-> "open", key |-> k, result |-> FALSE]
          /\ \A i \in Jobs \ {j} : ~Answers(job'[i], k)

Stop(j) ==
    /\ job[j].state = "open"
    /\ job'[j] = [job[j] EXCEPT !.state = "stopping"]

\* A result appears with success and with nothing else.
Settle(j) ==
    \E s \in Outcomes :
        /\ \/ job[j].state = "open"
           \/ job[j].state = "stopping" /\ s = "cancelled"
        /\ job'[j] = [state |-> s, key |-> job[j].key, result |-> (s = "succeeded")]

\* One transaction of the queue may settle several jobs.
Next ==
    /\ job' = [j \in Jobs |-> job'[j]]
    /\ \A j \in Jobs : \/ job'[j] = job[j]
                       \/ Submit(j)
                       \/ Stop(j)
                       \/ Settle(j)

Spec == Init /\ [][Next]_job
=============================================================================
