------------------------------ MODULE JobQueue ------------------------------
(***************************************************************************)
(* The durable job queue: JobRunner (backend/fingent/jobs.py), the job     *)
(* statements of Store (backend/fingent/store.py) and the Platform calls   *)
(* around them (submit_run, run_task, cancel_run, undeploy_agent).         *)
(*                                                                         *)
(* Worker threads and request threads interleave between SQL statements;   *)
(* one action is one statement (with its commit) or one stretch of code    *)
(* between two statements. The jobs table is one function per column that  *)
(* matters; of the runs table only the status is kept. Times are relative: *)
(* lease and wait hold what is left of a lease and of a back-off, and Tick *)
(* lets one unit of time pass. Every worker thread is modelled as a        *)
(* process of its own; a process of several threads that dies is several   *)
(* Crash steps.                                                            *)
(***************************************************************************)
EXTENDS Integers, FiniteSets

CONSTANTS
  Jobs,         \* the run ids uuid4 can hand out, one per submission
  Workers,      \* poller threads, in one or several processes
  Clients,      \* request threads calling submit and cancel
  Keys,         \* idempotency keys
  NoKey, NoJob, NoWorker,
  MaxAttempts,  \* FINGENT_JOB_MAX_ATTEMPTS
  LeaseTicks,   \* FINGENT_JOB_LEASE
  BackoffCap,   \* the longest back-off
  AgeLimit,     \* how far back the order of due times is remembered
  MaxClaims,    \* bound: how often one job is claimed
  MaxFaults,    \* bound: how many threads die and statements raise, together
  Outcomes,     \* statuses runtime.run persists
  Events        \* which of the optional events may happen

ASSUME JobAssumption ==
  /\ MaxAttempts \in Nat \ {0}
  /\ LeaseTicks \in Nat \ {0}
  /\ BackoffCap \in Nat \ {0}
  /\ AgeLimit \in Nat
  /\ MaxClaims \in Nat
  /\ MaxFaults \in Nat

ASSUME NameAssumption ==
  /\ NoJob \notin Jobs
  /\ NoWorker \notin Workers
  /\ NoKey \notin Keys
  /\ Events \subseteq {"cancel", "undeploy", "overrun", "lag"}
  /\ Outcomes \cap {"absent", "queued", "running"} = {}

VARIABLES
  status, attempts, worker, lease, wait, key,  \* the jobs table
  run,                                         \* status column of the runs table
  deployed,                                    \* get_spec finds the agent, enabled
  pc, claim, tries,                            \* worker threads
  cpc, cjob, ckey,                             \* request threads
  faults,                                      \* deaths and raised statements so far
  lapses                                       \* how often a lease ran out under an attempt

jobVars == <<status, attempts, worker, lease, wait, key>>
workerVars == <<pc, claim, tries>>
clientVars == <<cpc, cjob, ckey>>
history == <<faults, lapses>>
vars == <<jobVars, run, deployed, workerVars, clientVars, history>>

Terminal == {"succeeded", "dead", "cancelled"}
JobStatus == {"absent", "queued", "running"} \cup Terminal
RunStatus == {"absent", "queued", "running", "cancelled", "failed"} \cup Outcomes
WorkerPc == {"down", "idle", "fetch", "check", "mark", "begin", "agent",
             "settle", "fail", "note", "bury"}
ClientPc == {"idle", "save", "enqueue", "reread", "uncancelled"}

\* A worker between its claim and the statement that ends the attempt.
Holding(w) ==
  pc[w] \in {"fetch", "check", "mark", "begin", "agent", "settle", "fail"}

TypeOK ==
  /\ status \in [Jobs -> JobStatus]
  /\ attempts \in [Jobs -> Nat]
  /\ worker \in [Jobs -> Workers \cup {NoWorker}]
  /\ lease \in [Jobs -> 0..LeaseTicks]
  /\ wait \in [Jobs -> (0 - AgeLimit)..BackoffCap]
  /\ key \in [Jobs -> Keys \cup {NoKey}]
  /\ run \in [Jobs -> RunStatus]
  /\ deployed \in BOOLEAN
  /\ pc \in [Workers -> WorkerPc]
  /\ claim \in [Workers -> Jobs \cup {NoJob}]
  /\ \A w \in Workers : pc[w] \notin {"down", "idle"} => claim[w] \in Jobs
  /\ tries \in [Workers -> Nat]
  /\ cpc \in [Clients -> ClientPc]
  /\ cjob \in [Clients -> Jobs \cup {NoJob}]
  /\ \A c \in Clients : cpc[c] \notin {"idle", "save"} => cjob[c] \in Jobs
  /\ ckey \in [Clients -> Keys \cup {NoKey}]
  /\ faults \in 0..MaxFaults
  /\ lapses \in [Jobs -> Nat]

Init ==
  /\ status = [j \in Jobs |-> "absent"]
  /\ attempts = [j \in Jobs |-> 0]
  /\ worker = [j \in Jobs |-> NoWorker]
  /\ lease = [j \in Jobs |-> 0]
  /\ wait = [j \in Jobs |-> 0]
  /\ key = [j \in Jobs |-> NoKey]
  /\ run = [j \in Jobs |-> "absent"]
  /\ deployed = TRUE
  /\ pc = [w \in Workers |-> "down"]
  /\ claim = [w \in Workers |-> NoJob]
  /\ tries = [w \in Workers |-> 0]
  /\ cpc = [c \in Clients |-> "idle"]
  /\ cjob = [c \in Clients |-> NoJob]
  /\ ckey = [c \in Clients |-> NoKey]
  /\ faults = 0
  /\ lapses = [j \in Jobs |-> 0]

-----------------------------------------------------------------------------
(* The statements of Store on the jobs table.                              *)

\* Bugs the properties must notice: expired leases are not taken over, or running
\* ones are.
RunnableQueuedOnly(j) == status[j] = "queued" /\ wait[j] <= 0
AllRunning == {j \in Jobs : status[j] = "running"}

\* WHERE clause of claim_job: due, and no lease or an expired one.
Runnable(j) ==
  /\ status[j] \in {"queued", "running"}
  /\ wait[j] <= 0
  /\ lease[j] = 0

\* ORDER BY available_at LIMIT 1
NextInLine(j) ==
  /\ Runnable(j)
  /\ \A i \in Jobs : Runnable(i) => wait[j] <= wait[i]

\* WHERE clauses of finish_job and requeue_job, and of cancel_job.
StillRunning(j) == status[j] = "running"
Cancellable(j) == status[j] \in {"queued", "running"}

\* finish_job, to "succeeded" or "dead"
FinishJob(j, s) ==
  /\ IF StillRunning(j)
     THEN /\ status' = [status EXCEPT ![j] = s]
          /\ lease' = [lease EXCEPT ![j] = 0]
     ELSE UNCHANGED <<status, lease>>
  /\ UNCHANGED <<attempts, worker, wait, key>>

\* requeue_job: the back-off is min(60, 2^attempts) seconds in the code, here
\* any positive time up to the cap.
RequeueJob(j) ==
  /\ IF StillRunning(j)
     THEN /\ status' = [status EXCEPT ![j] = "queued"]
          /\ lease' = [lease EXCEPT ![j] = 0]
          /\ worker' = [worker EXCEPT ![j] = NoWorker]
          /\ \E d \in 1..BackoffCap : wait' = [wait EXCEPT ![j] = d]
     ELSE UNCHANGED <<status, lease, worker, wait>>
  /\ UNCHANGED <<attempts, key>>

CancelJob(j) ==
  /\ IF Cancellable(j)
     THEN /\ status' = [status EXCEPT ![j] = "cancelled"]
          /\ lease' = [lease EXCEPT ![j] = 0]
     ELSE UNCHANGED <<status, lease>>
  /\ UNCHANGED <<attempts, worker, wait, key>>

\* recover_orphans: running jobs whose lease expired go back to the queue.
Orphans == {j \in Jobs : status[j] = "running" /\ lease[j] = 0}

RecoverOrphans ==
  /\ status' = [j \in Jobs |-> IF j \in Orphans THEN "queued" ELSE status[j]]
  /\ worker' = [j \in Jobs |-> IF j \in Orphans THEN NoWorker ELSE worker[j]]
  /\ UNCHANGED <<attempts, lease, wait, key>>

-----------------------------------------------------------------------------
(* A worker thread: start, drain_once and _run_job.                        *)

\* The thread's loop comes round: claim_job found nothing, or the job is done with.
ToIdle(w) ==
  /\ pc' = [pc EXCEPT ![w] = "idle"]
  /\ claim' = [claim EXCEPT ![w] = NoJob]
  /\ tries' = [tries EXCEPT ![w] = 0]

Goto(w, p) ==
  /\ pc' = [pc EXCEPT ![w] = p]
  /\ UNCHANGED <<claim, tries>>

\* start(): recover the orphans of dead processes, then poll.
Start(w) ==
  /\ pc[w] = "down"
  /\ RecoverOrphans
  /\ ToIdle(w)
  /\ UNCHANGED <<run, deployed, clientVars, history>>

\* claim_job, first half: the atomic UPDATE.
Claim(w, j) ==
  /\ pc[w] = "idle"
  /\ NextInLine(j)
  /\ attempts[j] < MaxClaims
  /\ status' = [status EXCEPT ![j] = "running"]
  /\ worker' = [worker EXCEPT ![j] = w]
  /\ lease' = [lease EXCEPT ![j] = LeaseTicks]
  /\ attempts' = [attempts EXCEPT ![j] = @ + 1]
  /\ pc' = [pc EXCEPT ![w] = "fetch"]
  /\ claim' = [claim EXCEPT ![w] = j]
  /\ UNCHANGED <<wait, key, run, deployed, tries, clientVars, history>>

\* claim_job, second half: SELECT ... WHERE worker=tag. The row read here,
\* attempts included, is what _run_job works from.
Fetch(w) ==
  /\ pc[w] = "fetch"
  /\ IF worker[claim[w]] = w
     THEN /\ pc' = [pc EXCEPT ![w] = "check"]
          /\ tries' = [tries EXCEPT ![w] = attempts[claim[w]]]
          /\ UNCHANGED claim
     ELSE ToIdle(w)
  /\ UNCHANGED <<jobVars, run, deployed, clientVars, history>>

\* Honour a cancellation that landed between claim and run.
HonourCancel(w) ==
  /\ pc[w] = "check"
  /\ IF status[claim[w]] = "cancelled" THEN ToIdle(w) ELSE Goto(w, "mark")
  /\ UNCHANGED <<jobVars, run, deployed, clientVars, history>>

MarkRunning(w) ==
  /\ pc[w] = "mark"
  /\ run' = [run EXCEPT ![claim[w]] = "running"]
  /\ Goto(w, "begin")
  /\ UNCHANGED <<jobVars, deployed, clientVars, history>>

\* run_task: without an enabled spec it returns {"ok": False}, it does not raise.
BeginTask(w) ==
  /\ pc[w] = "begin"
  /\ Goto(w, IF deployed THEN "agent" ELSE "settle")
  /\ UNCHANGED <<jobVars, run, deployed, clientVars, history>>

\* runtime.run persists its record; the audit call after it may still raise.
RunAgent(w) ==
  /\ pc[w] = "agent"
  /\ \E o \in Outcomes : run' = [run EXCEPT ![claim[w]] = o]
  /\ \E p \in {"settle", "fail"} : Goto(w, p)
  /\ UNCHANGED <<jobVars, deployed, clientVars, history>>

\* get_spec raises, or runtime.run before it persists anything.
AgentRaises(w) ==
  /\ pc[w] \in {"begin", "agent"}
  /\ Goto(w, "fail")
  /\ UNCHANGED <<jobVars, run, deployed, clientVars, history>>

Settle(w) ==
  /\ pc[w] = "settle"
  /\ FinishJob(claim[w], "succeeded")
  /\ ToIdle(w)
  /\ UNCHANGED <<run, deployed, clientVars, history>>

\* A bug: one attempt too many.
AttemptsLeftOneMore(w) == tries[w] <= MaxAttempts

\* The failed attempt was not the last one, by the row read at claim time.
AttemptsLeft(w) == tries[w] < MaxAttempts

Retry(w) ==
  /\ pc[w] = "fail"
  /\ AttemptsLeft(w)
  /\ RequeueJob(claim[w])
  /\ Goto(w, "note")
  /\ UNCHANGED <<run, deployed, clientVars, history>>

DeadLetter(w) ==
  /\ pc[w] = "fail"
  /\ ~AttemptsLeft(w)
  /\ FinishJob(claim[w], "dead")
  /\ Goto(w, "bury")
  /\ UNCHANGED <<run, deployed, clientVars, history>>

\* A bug: the dead letter leaves the run record alone.
NoteDeadForgotten(w) ==
  pc[w] = "bury" /\ ToIdle(w) /\ UNCHANGED <<jobVars, run, deployed, clientVars, history>>

\* The run record follows, whether or not the job statement changed a row.
NoteRetry(w) ==
  /\ pc[w] = "note"
  /\ run' = [run EXCEPT ![claim[w]] = "queued"]
  /\ ToIdle(w)
  /\ UNCHANGED <<jobVars, deployed, clientVars, history>>

NoteDead(w) ==
  /\ pc[w] = "bury"
  /\ run' = [run EXCEPT ![claim[w]] = "failed"]
  /\ ToIdle(w)
  /\ UNCHANGED <<jobVars, deployed, clientVars, history>>

\* A store call outside the try raises: recover_orphans' (start swallows it), the
\* SELECT of claim_job, one before the attempt or one in the error handler. The
\* poller swallows it and comes round; whatever the row says, it keeps saying.
StoreRaises(w) ==
  /\ faults < MaxFaults
  /\ pc[w] \in {"down", "fetch", "check", "mark", "fail", "note", "bury"}
  /\ ToIdle(w)
  /\ faults' = faults + 1
  /\ UNCHANGED <<jobVars, run, deployed, clientVars, lapses>>

\* finish_job raises inside the try, before its UPDATE or in the SELECT after it;
\* in the second case the handler's UPDATE finds the row settled and leaves it.
SettleRaises(w) ==
  /\ faults < MaxFaults
  /\ pc[w] = "settle"
  /\ \/ Goto(w, "fail") /\ UNCHANGED jobVars
     \/ /\ StillRunning(claim[w])
        /\ FinishJob(claim[w], "succeeded")
        /\ Goto(w, IF AttemptsLeft(w) THEN "note" ELSE "bury")
  /\ faults' = faults + 1
  /\ UNCHANGED <<run, deployed, clientVars, lapses>>

-----------------------------------------------------------------------------
(* A request thread: Platform.submit_run and Platform.cancel_run.          *)

\* A bug: only jobs still waiting count as duplicates.
DuplicateQueued(k) == k # NoKey /\ \E j \in Jobs : status[j] = "queued" /\ key[j] = k

\* The job find_job_by_key would return.
Duplicate(k) == k # NoKey /\ \E j \in Jobs : status[j] # "absent" /\ key[j] = k

\* submit_run's get_spec and find_job_by_key. A duplicate is answered at once.
Lookup(c, k) ==
  /\ cpc[c] = "idle"
  /\ deployed
  /\ ~Duplicate(k)
  /\ cpc' = [cpc EXCEPT ![c] = "save"]
  /\ ckey' = [ckey EXCEPT ![c] = k]
  /\ UNCHANGED <<jobVars, run, deployed, workerVars, cjob, history>>

SaveRun(c, j) ==
  /\ cpc[c] = "save"
  /\ run[j] = "absent"
  /\ run' = [run EXCEPT ![j] = "queued"]
  /\ cpc' = [cpc EXCEPT ![c] = "enqueue"]
  /\ cjob' = [cjob EXCEPT ![c] = j]
  /\ UNCHANGED <<jobVars, deployed, workerVars, ckey, history>>

ClientDone(c) ==
  /\ cpc' = [cpc EXCEPT ![c] = "idle"]
  /\ cjob' = [cjob EXCEPT ![c] = NoJob]
  /\ ckey' = [ckey EXCEPT ![c] = NoKey]

Enqueue(c) ==
  /\ cpc[c] = "enqueue"
  /\ status' = [status EXCEPT ![cjob[c]] = "queued"]
  /\ attempts' = [attempts EXCEPT ![cjob[c]] = 0]
  /\ worker' = [worker EXCEPT ![cjob[c]] = NoWorker]
  /\ lease' = [lease EXCEPT ![cjob[c]] = 0]
  /\ wait' = [wait EXCEPT ![cjob[c]] = 0]
  /\ key' = [key EXCEPT ![cjob[c]] = ckey[c]]
  /\ ClientDone(c)
  /\ UNCHANGED <<run, deployed, workerVars, history>>

\* cancel(): the job first; if it is cancelled now, its run record is reread.
Cancel(c, j) ==
  /\ "cancel" \in Events
  /\ cpc[c] = "idle"
  /\ status[j] # "absent"
  /\ CancelJob(j)
  /\ IF status'[j] = "cancelled"
     THEN /\ cpc' = [cpc EXCEPT ![c] = "reread"]
          /\ cjob' = [cjob EXCEPT ![c] = j]
     ELSE UNCHANGED <<cpc, cjob>>
  /\ UNCHANGED <<run, deployed, workerVars, ckey, history>>

RereadRun(c) ==
  /\ cpc[c] = "reread"
  /\ IF run[cjob[c]] \in {"queued", "running"}
     THEN cpc' = [cpc EXCEPT ![c] = "uncancelled"] /\ UNCHANGED <<cjob, ckey>>
     ELSE ClientDone(c)
  /\ UNCHANGED <<jobVars, run, deployed, workerVars, history>>

CancelRun(c) ==
  /\ cpc[c] = "uncancelled"
  /\ run' = [run EXCEPT ![cjob[c]] = "cancelled"]
  /\ ClientDone(c)
  /\ UNCHANGED <<jobVars, deployed, workerVars, history>>

-----------------------------------------------------------------------------
(* The surroundings.                                                       *)

\* undeploy_agent or delete_agent; deploy_agent enables the agent again.
Undeploy ==
  /\ "undeploy" \in Events
  /\ deployed' = ~deployed
  /\ UNCHANGED <<jobVars, run, workerVars, clientVars, history>>

\* What is assumed of time. Nothing in the code renews a lease or makes a
\* statement wait for another thread, so both assumptions are the operator's:
\* without "overrun" FINGENT_JOB_LEASE exceeds the longest attempt, and without
\* "lag" no thread is held up between two statements for a lease or a back-off.
LeaseMayEnd(j) ==
  \/ "lag" \in Events
  \/ \A w \in Workers :
       Holding(w) /\ claim[w] = j /\ worker[j] = w
       => "overrun" \in Events /\ pc[w] = "agent"

BackoffMayEnd(j) ==
  \/ "lag" \in Events
  \/ \A w \in Workers : ~(pc[w] = "note" /\ claim[w] = j)

Countdown(n, least) == IF n > least THEN n - 1 ELSE n

\* One unit of time: leases and back-offs run down, due times age. A lease that
\* runs out on a running job is a lapse, whoever holds the job.
Tick ==
  /\ \A j \in Jobs :
       /\ lease[j] = 1 => LeaseMayEnd(j)
       /\ wait[j] = 1 => BackoffMayEnd(j)
  /\ lease' = [j \in Jobs |-> Countdown(lease[j], 0)]
  /\ wait' = [j \in Jobs |-> IF status[j] \in {"queued", "running"}
                             THEN Countdown(wait[j], 0 - AgeLimit) ELSE wait[j]]
  /\ lapses' = [j \in Jobs |-> IF status[j] = "running" /\ lease[j] = 1
                               THEN lapses[j] + 1 ELSE lapses[j]]
  /\ UNCHANGED <<status, attempts, worker, key, run, deployed, workerVars,
                 clientVars, faults>>

\* A process dies: what its thread held in memory is gone, the tables stay.
Crash(w) ==
  /\ faults < MaxFaults
  /\ pc[w] # "down"
  /\ pc' = [pc EXCEPT ![w] = "down"]
  /\ claim' = [claim EXCEPT ![w] = NoJob]
  /\ tries' = [tries EXCEPT ![w] = 0]
  /\ faults' = faults + 1
  /\ UNCHANGED <<jobVars, run, deployed, clientVars, lapses>>

\* A request ends half-way: its process dies or its next statement raises.
ClientCrash(c) ==
  /\ faults < MaxFaults
  /\ cpc[c] # "idle"
  /\ ClientDone(c)
  /\ faults' = faults + 1
  /\ UNCHANGED <<jobVars, run, deployed, workerVars, lapses>>

RunJob(w) ==
  \/ Fetch(w) \/ HonourCancel(w) \/ MarkRunning(w) \/ BeginTask(w)
  \/ RunAgent(w) \/ AgentRaises(w) \/ Settle(w)
  \/ Retry(w) \/ DeadLetter(w) \/ NoteRetry(w) \/ NoteDead(w)

Worker(w) == Start(w) \/ (\E j \in Jobs : Claim(w, j)) \/ RunJob(w)

Request(c) ==
  \/ \E j \in Jobs : SaveRun(c, j)
  \/ Enqueue(c) \/ RereadRun(c) \/ CancelRun(c)

Next ==
  \/ \E w \in Workers : Worker(w) \/ Crash(w) \/ StoreRaises(w) \/ SettleRaises(w)
  \/ \E c \in Clients :
       \/ Request(c) \/ ClientCrash(c)
       \/ \E k \in Keys \cup {NoKey} : Lookup(c, k)
       \/ \E j \in Jobs : Cancel(c, j)
  \/ Undeploy
  \/ Tick

Spec == Init /\ [][Next]_vars

\* Threads keep running, processes are restarted (docker-compose.yml: restart
\* unless-stopped), time passes, requests already begun go on. No fairness on
\* what users decide: submit, cancel, undeploy; none on faults.
FairSpec ==
  /\ Spec
  /\ \A w \in Workers : WF_vars(Worker(w))
  /\ \A c \in Clients : WF_vars(Request(c))
  /\ WF_vars(Tick)

-----------------------------------------------------------------------------
(* Properties of every configuration.                                      *)

\* succeeded, dead and cancelled are final: none of the five UPDATEs, issued
\* by whichever thread however late, changes such a job or claims it again.
TerminalIsFinal ==
  [][\A j \in Jobs : status[j] \in Terminal =>
       status'[j] = status[j] /\ attempts'[j] = attempts[j]]_vars

\* A job is dead-lettered only after MaxAttempts claims, although the decision
\* is made on the row read at claim time, not on the current one.
DeadWhenExhausted ==
  \A j \in Jobs : status[j] = "dead" => attempts[j] >= MaxAttempts

\* A job that can be claimed has a run record for its worker to update:
\* submit saves the record before it enqueues the job, a crash in between
\* leaves a record without a job and never the opposite.
JobHasRun == \A j \in Jobs : status[j] # "absent" => run[j] # "absent"

\* No two jobs carry one idempotency key (jobs.py: "an idempotency_key dedupes
\* re-submits").
UniqueKey ==
  \A i, j \in Jobs :
    /\ status[i] # "absent" /\ status[j] # "absent"
    /\ key[i] = key[j] /\ key[i] # NoKey
    => i = j

\* A claim beyond MaxAttempts is bought by a lease that ran out under an attempt,
\* and by nothing else: not by a late worker's retry, which counts by the row it
\* read at claim time while others claim and requeue the same job.
AttemptBound == \A j \in Jobs : attempts[j] <= MaxAttempts + lapses[j]

\* A job once enqueued reaches a final state, provided the faults come to an end.
EveryJobSettles ==
  \A j \in Jobs : (status[j] = "queued") ~> (status[j] \in Terminal)

-----------------------------------------------------------------------------
(* Properties while no attempt outlasts its lease: neither "overrun" nor     *)
(* "lag" is in Events.                                                      *)

\* The worker that carries an attempt is the one the row names, its lease is
\* running, and nobody but a cancel takes the job out of its hands.
HolderIsRecorded ==
  \A w \in Workers : Holding(w) =>
    /\ worker[claim[w]] = w
    /\ \/ status[claim[w]] = "running" /\ lease[claim[w]] > 0
       \/ status[claim[w]] = "cancelled"

\* Two workers never carry attempts of one job at a time (jobs.py: several
\* threads and processes "never run the same job twice").
OneHolder ==
  \A v, w \in Workers :
    Holding(v) /\ Holding(w) /\ claim[v] = claim[w] => v = w

\* Nobody is between two statements about j.
Quiet(j) ==
  /\ \A w \in Workers : claim[w] # j
  /\ \A c \in Clients : cjob[c] # j

\* Once the threads are done with a job that succeeded or died, its run record
\* is settled too, unless a fault or a withdrawal of the agent came between.
RecordSettles ==
  \A j \in Jobs :
    /\ status[j] \in {"succeeded", "dead"}
    /\ Quiet(j)
    /\ faults = 0
    /\ "undeploy" \notin Events
    => run[j] \notin {"queued", "running"}

\* The queue implements the state machine of JobLifecycle: the owners of a job
\* are the workers holding it.
Owners == [j \in Jobs |-> {w \in Workers : Holding(w) /\ claim[w] = j}]

Lifecycle == INSTANCE JobLifecycle WITH owners <- Owners

ImplementsLifecycle == Lifecycle!Spec

=============================================================================
