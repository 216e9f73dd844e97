---------------------------- MODULE JobLifecycle ----------------------------
(***************************************************************************)
(* What the durable job queue promises about one job, whatever the threads *)
(* and processes behind it do: the state machine drawn in the docstring of *)
(* backend/fingent/jobs.py, with the owner of every attempt made explicit. *)
(* A job is worked on by at most one owner, it only becomes claimable      *)
(* again after its owner gave it back or died, it is retried while         *)
(* attempts are left and dead-lettered when none is, and the three final   *)
(* states are never left.                                                  *)
(***************************************************************************)
EXTENDS Naturals

CONSTANTS
  Jobs,        \* the job identifiers (a job and its run share one)
  Workers,     \* the worker threads
  MaxAttempts  \* FINGENT_JOB_MAX_ATTEMPTS

VARIABLES
  status,      \* the state of each job, "absent" before it is enqueued
  attempts,    \* how often it was claimed
  owners       \* the workers now carrying an attempt of it

vars == <<status, attempts, owners>>

Terminal == {"succeeded", "dead", "cancelled"}

Init ==
  /\ status = [j \in Jobs |-> "absent"]
  /\ attempts = [j \in Jobs |-> 0]
  /\ owners = [j \in Jobs |-> {}]

Enqueue(j) ==
  /\ status[j] = "absent"
  /\ status' = [status EXCEPT ![j] = "queued"]
  /\ attempts' = [attempts EXCEPT ![j] = 0]
  /\ UNCHANGED owners

\* A queued job, or a running one whose owner is gone, gets a single owner.
Claim(j, w) ==
  /\ status[j] \in {"queued", "running"}
  /\ owners[j] = {}
  /\ \A i \in Jobs : w \notin owners[i]
  /\ status' = [status EXCEPT ![j] = "running"]
  /\ attempts' = [attempts EXCEPT ![j] = @ + 1]
  /\ owners' = [owners EXCEPT ![j] = {w}]

\* The owner ends its attempt and the job moves to state s.
Release(j, s) ==
  /\ status[j] = "running"
  /\ owners[j] # {}
  /\ status' = [status EXCEPT ![j] = s]
  /\ owners' = [owners EXCEPT ![j] = {}]
  /\ UNCHANGED attempts

Succeed(j) == Release(j, "succeeded")

Retry(j) == attempts[j] < MaxAttempts /\ Release(j, "queued")

DeadLetter(j) == attempts[j] >= MaxAttempts /\ Release(j, "dead")

Cancel(j) ==
  /\ status[j] \in {"queued", "running"}
  /\ status' = [status EXCEPT ![j] = "cancelled"]
  /\ UNCHANGED <<attempts, owners>>

\* The owner died, or its attempt of a job cancelled meanwhile is over.
Leave(j) ==
  /\ owners[j] # {}
  /\ owners' = [owners EXCEPT ![j] = {}]
  /\ UNCHANGED <<status, attempts>>

\* Start-up recovery requeues running jobs that have no owner any more.
Recover(S) ==
  /\ \A j \in S : status[j] = "running" /\ owners[j] = {}
  /\ status' = [j \in Jobs |-> IF j \in S THEN "queued" ELSE status[j]]
  /\ UNCHANGED <<attempts, owners>>

Next ==
  \/ \E j \in Jobs :
       \/ Enqueue(j) \/ Cancel(j) \/ Leave(j)
       \/ Succeed(j) \/ Retry(j) \/ DeadLetter(j)
       \/ \E w \in Workers : Claim(j, w)
  \/ \E S \in SUBSET Jobs : Recover(S)

Spec == Init /\ [][Next]_vars

=============================================================================
